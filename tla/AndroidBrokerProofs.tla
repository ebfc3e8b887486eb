------------------------ MODULE AndroidBrokerProofs ------------------------
(***************************************************************************)
(* AndroidKept holds of the Android broker (AndroidBroker), for any number *)
(* of sessions, threads and bounds: nonces are accepted once, and, as long *)
(* as the core's pool has room for the sessions of the host, the two ends  *)
(* agree on a session whenever its calls kept out of each other's way.     *)
(***************************************************************************)
EXTENDS AndroidBroker, ListProofs

(* One truth with the core.                                                *)

InSession(t, at) == call[t] # NoCall /\ call[t].at = at

Agree(s) ==
  /\ (host[s] = NoSession) = (s \notin Pool)
  /\ s \in Pool => host[s] = [tab |-> sessions[s].tab, generation |-> sessions[s].generation]

\* The core has the context that call c asked for.
Replaced(c) ==
  /\ c.session \in Pool
  /\ sessions[c.session].tab = c.tab /\ sessions[c.session].generation = c.generation

AloneMeansAlone ==
  \A s \in Sessions : \A t \in On(s) : call[t].alone => On(s) = {t}

UnmixedIsAlone ==
  \A s \in Sessions \ mixed : \A t \in On(s) : call[t].alone

\* What a call found in its first section still holds while it is by itself.
KnowsHost(s, t) ==
  LET c == call[t] IN
  c.alone =>
    /\ c.at \in {"register_core", "register"} => host[s] = NoSession
    /\ c.at \in {"renew_core", "renew"} => host[s] = [tab |-> c.tab, generation |-> c.generation]
    /\ c.at \in {"update_core", "update"} => OpenFor(s, c.tab) /\ c.generation = host[s].generation + 1

\* So does what it made of the core's session.
KnowsCore(s, t) ==
  call[t].alone /\ call[t].core /\ call[t].at \in {"register", "renew", "update"} => Replaced(call[t])

\* Where calls kept out of each other's way, only the host's last section can be missing.
OnlyHostIsBehind(s, t) ==
  LET c == call[t] IN
  /\ c.at \in {"register_core", "renew_core", "update_core"} => Agree(s)
  /\ c.at = "register" => c.core \/ s \notin Pool
  /\ c.at \in {"renew", "update"} => c.core

CallsKnow == \A s \in Sessions : \A t \in On(s) : KnowsHost(s, t) /\ KnowsCore(s, t)

UnmixedAgrees ==
  \A s \in Sessions \ mixed :
    /\ On(s) = {} => Agree(s)
    /\ \A t \in On(s) : OnlyHostIsBehind(s, t)

Agreeing == AloneMeansAlone /\ UnmixedIsAlone /\ CallsKnow /\ UnmixedAgrees

AgreeInv == native => Agreeing

(* The replay protection.                                                  *)

BurntInCore ==
  native =>
    /\ \A i \in DOMAIN consumptions : consumptions[i].nonce \in consumed_nonces
    /\ \A t \in HostThreads : InSession(t, "consume") =>
         /\ call[t].action.nonce \in consumed_nonces
         /\ \A i \in DOMAIN consumptions : consumptions[i].nonce # call[t].action.nonce
         /\ \A u \in HostThreads :
              InSession(u, "consume") /\ call[u].action.nonce = call[t].action.nonce => u = t

AcceptedEarlier ==
  \A i \in DOMAIN consumptions :
    consumptions[i].lifetime[2] <= registrations[consumptions[i].lifetime[1]]

\* The consumptions of the sessions that are there: the ledger still has those that are
\* less than LedgerSize back, at most as far back as they are.
LedgerRemembers ==
  ~native =>
  \A i \in DOMAIN consumptions :
    LET s == consumptions[i].lifetime[1] IN
    /\ host[s] # NoSession
    /\ consumptions[i].lifetime[2] = registrations[s]
    /\ Len(consumptions) - i < LedgerSize
    => \E k \in DOMAIN ledger :
         /\ ledger[k] = <<s, consumptions[i].nonce>>
         /\ Len(ledger) - k <= Len(consumptions) - i

ReplayInv == BurntInCore /\ AcceptedEarlier /\ LedgerRemembers /\ OnceWhileRemembered

-----------------------------------------------------------------------------
(* The keys of other sessions.                                             *)

\* What is left of the keys of the others: it is shorter, it has all of them, and
\* none of them has more keys after it than before.
LEMMA WithoutKeepsOthers ==
  ASSUME NEW K, NEW keys \in Seq(K), NEW s
  PROVE  LET rest == Without(keys, s) IN
         /\ rest \in Seq(K) /\ Len(rest) <= Len(keys)
         /\ \A i \in 1..Len(keys) : keys[i][1] # s =>
              \E j \in 1..Len(rest) : rest[j] = keys[i] /\ Len(rest) - j <= Len(keys) - i
<1> DEFINE some == {i \in DOMAIN keys : keys[i][1] # s}
<1>1. /\ Only(keys, some) \in Seq(K)
      /\ OnlyOf(Only(keys, some), keys, Len(keys), some)
  BY OnlyKeeps
<1>2. \A i \in 1..Len(keys) : keys[i][1] # s => i \in some
  OBVIOUS
<1> QED
  BY <1>1, <1>2 DEF Without, OnlyOf

-----------------------------------------------------------------------------
(* Types.                                                                  *)

LEMMA ClampTtlRange == \A ttl \in Nat : ClampTtl(ttl) \in 0..MaxTtl
BY ContextBrokerAssumption DEF ClampTtl

LEMMA CreateSessionType ==
  ASSUME CoreTypeOK, NEW s \in Sessions, NEW tab \in Tabs, NEW g \in Generations,
         NEW ttl \in Nat, CreateSession(s, tab, g, ttl)
  PROVE  CoreTypeOK'
<1> DEFINE context == [tab |-> tab, generation |-> g, deadline |-> now + ClampTtl(ttl)]
<1>1. context \in SessionContext
  BY ClampTtlRange, ContextBrokerAssumption DEF CoreTypeOK, SessionContext
<1>2. sessions' \in [Sessions -> SessionContext \cup {NoSession}]
  BY <1>1 DEF CreateSession, CoreTypeOK
<1>3. lifetimes' \in [Sessions -> 0..MaxLifetimes]
  BY ContextBrokerAssumption DEF CreateSession, CoreTypeOK, Pool
<1> QED
  BY <1>2, <1>3 DEF CreateSession, CoreTypeOK

LEMMA AdvanceType ==
  ASSUME CoreTypeOK, NEW s \in Sessions, NEW tab \in Tabs, NEW g \in Generations,
         AdvanceGeneration(s, tab, g)
  PROVE  CoreTypeOK'
<1>1. [sessions[s] EXCEPT !.generation = g] \in SessionContext
  BY DEF AdvanceGeneration, MayAdvance, CoreTypeOK, SessionContext, Pool
<1> QED
  BY <1>1 DEF AdvanceGeneration, CoreTypeOK

LEMMA CoreFrame ==
  ASSUME CoreTypeOK, UNCHANGED coreVars
  PROVE  CoreTypeOK'
BY DEF CoreTypeOK, coreVars

SessionCalls ==
  [at : {"register_core", "register", "renew_core", "renew", "update_core", "update"},
   session : Sessions, tab : Tabs, generation : Generations, core : BOOLEAN, alone : BOOLEAN]

\* The calls of a session are records of one kind.
LEMMA OnSession ==
  ASSUME AndroidTypeOK, NEW s \in Sessions, NEW t \in On(s)
  PROVE  t \in HostThreads /\ call[t] \in SessionCalls /\ call[t].session = s /\ call[t] # NoCall
<1>1. t \in HostThreads /\ call[t] # NoCall /\ call[t].session = s /\ call[t] \in HostCalls
  BY DEF On, AndroidTypeOK
<1>2. s # NoSession
  BY ContextBrokerAssumption
<1> QED
  BY <1>1, <1>2 DEF HostCalls, SessionCalls

\* So is the call of a thread at one of the points below.
LEMMA AtSession ==
  ASSUME AndroidTypeOK, NEW t \in HostThreads, call[t] # NoCall, call[t].at # "consume"
  PROVE  call[t] \in SessionCalls /\ call[t].session \in Sessions /\ t \in On(call[t].session)
<1>1. call[t] \in HostCalls
  BY DEF AndroidTypeOK
<1> QED
  BY <1>1 DEF HostCalls, SessionCalls, On

LEMMA SessionCallsAreCalls == SessionCalls \subseteq HostCalls /\ NoCall \notin SessionCalls
BY AndroidBrokerAssumption DEF SessionCalls, HostCalls

LEMMA EnterType ==
  ASSUME AndroidTypeOK, NEW t \in HostThreads, NEW s \in Sessions, NEW tab \in Tabs,
         NEW g \in Generations, NEW at \in {"register_core", "renew_core", "update_core"},
         Enter(t, at, s, tab, g),
         UNCHANGED <<coreVars, native, hostVars, authorized, issued, consumptions>>
  PROVE  AndroidTypeOK'
<1> USE DEF AndroidTypeOK, hostVars
<1>1. CoreTypeOK'
  BY CoreFrame
<1>2. [at |-> at, session |-> s, tab |-> tab, generation |-> g, core |-> TRUE,
       alone |-> On(s) = {}] \in HostCalls
  BY DEF HostCalls
<1>3. \A x \in On(s) : [call[x] EXCEPT !.alone = FALSE] \in HostCalls
  <2> TAKE x \in On(s)
  <2>1. call[x] \in SessionCalls
    BY OnSession
  <2> QED
    BY <2>1, SessionCallsAreCalls DEF SessionCalls
<1>4. call' \in [HostThreads -> HostCalls \cup {NoCall}]
  BY <1>2, <1>3 DEF Enter
<1>5. mixed' \subseteq Sessions
  BY DEF Enter
<1> QED
  BY <1>1, <1>4, <1>5

LEMMA AnswerType ==
  ASSUME AndroidTypeOK, NEW t \in HostThreads, call[t] # NoCall,
         call[t].at \in {"register_core", "renew_core", "update_core"},
         NEW next \in {"register", "renew", "update"}, NEW core \in BOOLEAN,
         CoreAnswers(t, next, core)
  PROVE  call' \in [HostThreads -> HostCalls \cup {NoCall}]
<1>1. call[t] \in SessionCalls
  BY AtSession
<1>2. [call[t] EXCEPT !.at = next, !.core = core] \in HostCalls
  BY <1>1, SessionCallsAreCalls DEF SessionCalls
<1>3. call' = [call EXCEPT ![t] = [call[t] EXCEPT !.at = next, !.core = core]]
  BY DEF CoreAnswers, AndroidTypeOK
<1> QED
  BY <1>2, <1>3 DEF AndroidTypeOK

LEMMA CreateCallType ==
  ASSUME AndroidTypeOK, NEW t \in HostThreads, RegisterCore(t) \/ RenewCore(t)
  PROVE  AndroidTypeOK'
<1> USE DEF AndroidTypeOK
<1>1. call[t] \in SessionCalls
  BY AtSession DEF RegisterCore, RenewCore
<1>2. CoreTypeOK'
  <2>1. CASE UNCHANGED coreVars
    BY <2>1, CoreFrame
  <2>2. CASE CreateSession(call[t].session, call[t].tab, call[t].generation, SessionTtl)
    BY <1>1, <2>2, CreateSessionType, AndroidBrokerAssumption DEF SessionCalls
  <2> QED
    BY <2>1, <2>2 DEF RegisterCore, RenewCore, CoreGate
<1>3. call' \in [HostThreads -> HostCalls \cup {NoCall}]
  BY AnswerType DEF RegisterCore, RenewCore
<1> QED
  BY <1>2, <1>3 DEF RegisterCore, RenewCore, hostVars

LEMMA UpdateCallType ==
  ASSUME AndroidTypeOK, NEW t \in HostThreads, UpdateCore(t)
  PROVE  AndroidTypeOK'
<1> USE DEF AndroidTypeOK
<1>1. call[t] \in SessionCalls
  BY AtSession DEF UpdateCore
<1>2. CoreTypeOK' /\ issued' \subseteq issued
  <2>1. CASE UNCHANGED <<coreVars, issued>>
    BY <2>1, CoreFrame
  <2>2. CASE /\ AdvanceGeneration(call[t].session, call[t].tab, call[t].generation)
             /\ issued' = {a \in issued : a.session # call[t].session}
    BY <1>1, <2>2, AdvanceType DEF SessionCalls
  <2> QED
    BY <2>1, <2>2 DEF UpdateCore
<1>3. (~native \/ (native /\ MayAdvance(call[t].session, call[t].tab, call[t].generation)))
        \in BOOLEAN
  OBVIOUS
<1>4. call' \in [HostThreads -> HostCalls \cup {NoCall}]
  BY <1>3, AnswerType DEF UpdateCore
<1> QED
  BY <1>2, <1>4 DEF UpdateCore, hostVars

LEMMA RegisterType ==
  ASSUME AndroidTypeOK, NEW t \in HostThreads, Register(t)
  PROVE  AndroidTypeOK'
<1> USE DEF AndroidTypeOK
<1>1. call[t] \in SessionCalls
  BY AtSession DEF Register
<1>2. CoreTypeOK'
  BY CoreFrame DEF Register
<1>3. host' \in [Sessions -> HostSession \cup {NoSession}] /\ registrations' \in [Sessions -> Nat]
  <2> DEFINE c == call[t]
  <2>1. [tab |-> c.tab, generation |-> c.generation] \in HostSession /\ c.session \in Sessions
    BY <1>1 DEF SessionCalls, HostSession
  <2>2. CASE UNCHANGED <<host, registrations>>
    BY <2>2
  <2>3. CASE /\ host' = [host EXCEPT ![c.session] = [tab |-> c.tab, generation |-> c.generation]]
             /\ registrations' = [registrations EXCEPT ![c.session] = @ + 1]
    BY <2>1, <2>3
  <2> QED
    BY <2>2, <2>3 DEF Register
<1> QED
  BY <1>2, <1>3 DEF Register, Leave

LEMMA CommitType ==
  ASSUME AndroidTypeOK, NEW t \in HostThreads, CommitGeneration(t)
  PROVE  AndroidTypeOK'
<1> USE DEF AndroidTypeOK
<1>1. call[t] \in SessionCalls
  BY AtSession DEF CommitGeneration
<1>2. CoreTypeOK'
  BY CoreFrame DEF CommitGeneration
<1>3. host' \in [Sessions -> HostSession \cup {NoSession}]
  BY <1>1 DEF CommitGeneration, SessionCalls, HostSession, OpenFor
<1> QED
  BY <1>2, <1>3 DEF CommitGeneration, Leave

LEMMA DestroyType ==
  ASSUME AndroidTypeOK, NEW s \in Sessions, DestroySession(s)
  PROVE  AndroidTypeOK'
<1> USE DEF AndroidTypeOK
<1>1. CoreTypeOK' /\ issued' \subseteq issued
  BY CoreFrame DEF DestroySession, RemoveSession, CoreTypeOK
<1>2. ledger' \in Seq(Sessions \X Nonces) /\ Len(ledger') <= LedgerSize
  <2>1. ledger' \in Seq(Sessions \X Nonces) /\ Len(ledger') <= Len(ledger)
    BY WithoutKeepsOthers DEF DestroySession, EndHostSession
  <2> QED
    BY <2>1, AndroidBrokerAssumption
<1>3. \A x \in On(s) : [call[x] EXCEPT !.alone = FALSE] \in HostCalls
  <2> TAKE x \in On(s)
  <2>1. call[x] \in SessionCalls
    BY OnSession
  <2> QED
    BY <2>1, SessionCallsAreCalls DEF SessionCalls
<1>4. call' \in [HostThreads -> HostCalls \cup {NoCall}]
  BY <1>3 DEF DestroySession, EndHostSession
<1>5. host' \in [Sessions -> HostSession \cup {NoSession}] /\ mixed' \subseteq Sessions
  BY DEF DestroySession, EndHostSession
<1> QED
  BY <1>1, <1>2, <1>4, <1>5 DEF DestroySession, EndHostSession

LEMMA EvaluateType ==
  ASSUME AndroidTypeOK, NEW s \in Sessions, NEW tab \in Tabs, NEW g \in Generations,
         EvaluateNavigation(s, tab, g)
  PROVE  AndroidTypeOK'
<1> USE DEF AndroidTypeOK
<1>1. CoreTypeOK'
  BY CoreFrame DEF EvaluateNavigation
<1>2. PICK n \in Nonces \ {a.nonce : a \in authorized} :
        LET a == [session |-> s, tab |-> tab, generation |-> g, nonce |-> n,
                  expires_at |-> now + SessionTtl]
        IN /\ authorized' = authorized \cup {a}
           /\ issued' = IF native THEN issued \cup {a} ELSE issued
  BY DEF EvaluateNavigation
<1>3. [session |-> s, tab |-> tab, generation |-> g, nonce |-> n,
       expires_at |-> now + SessionTtl] \in AuthorizedAction
  BY AndroidBrokerAssumption, ContextBrokerAssumption DEF AuthorizedAction, CoreTypeOK
<1>4. issued' \subseteq authorized' /\ authorized' \subseteq AuthorizedAction
  BY <1>2, <1>3
<1>5. UNCHANGED <<native, host, ledger, call, registrations, consumptions, mixed>>
  BY DEF EvaluateNavigation, hostVars
<1> QED
  BY <1>1, <1>4, <1>5

\* What trackConsumedNonce makes of the ledger.
WithKey(key) == IF InLedger(key) THEN ledger ELSE Append(ledger, key)
Excess(key) == Len(WithKey(key)) - LedgerSize

LEMMA TrackedLedger ==
  ASSUME AndroidTypeOK, NEW key \in Sessions \X Nonces
  PROVE  /\ WithKey(key) \in Seq(Sessions \X Nonces)
         /\ Tracked(key) \in Seq(Sessions \X Nonces)
         /\ Excess(key) > 0 =>
              /\ Len(Tracked(key)) = LedgerSize
              /\ \A k \in 1..LedgerSize : Tracked(key)[k] = WithKey(key)[k + Excess(key)]
         /\ ~(Excess(key) > 0) => Tracked(key) = WithKey(key)
<1>1. WithKey(key) \in Seq(Sessions \X Nonces) /\ Len(WithKey(key)) \in Nat
  BY DEF AndroidTypeOK, WithKey
<1>2. Tracked(key) = IF Excess(key) > 0
                     THEN SubSeq(WithKey(key), 1 + Excess(key), Len(WithKey(key)))
                     ELSE WithKey(key)
  BY DEF Tracked, Excess, WithKey
<1>3. CASE Excess(key) > 0
  <2> DEFINE all == WithKey(key)
             e == Excess(key)
  <2>1. e \in 1..Len(all) /\ Len(all) - e = LedgerSize
    BY <1>1, <1>3, AndroidBrokerAssumption DEF Excess
  <2>2. Tracked(key) = SubSeq(all, 1 + e, Len(all))
    BY <1>2, <1>3
  <2> HIDE DEF all, e
  <2>3. /\ Tracked(key) \in Seq(Sessions \X Nonces) /\ Len(Tracked(key)) = Len(all) - e
        /\ \A k \in 1..(Len(all) - e) : Tracked(key)[k] = all[k + e]
    BY <1>1, <2>1, <2>2 DEF all
  <2> QED
    BY <1>1, <1>3, <2>1, <2>3 DEF all, e
<1>4. CASE ~(Excess(key) > 0)
  BY <1>1, <1>2, <1>4
<1> QED
  BY <1>3, <1>4

LEMMA AcceptType ==
  ASSUME AndroidTypeOK, NEW a \in AuthorizedAction, NEW current, Accept(a, current),
         host' = host, registrations' = registrations
  PROVE  /\ ledger' \in Seq(Sessions \X Nonces) /\ Len(ledger') <= LedgerSize
         /\ consumptions' \in Seq([nonce : Nonces, lifetime : Sessions \X Nat])
<1>1. CASE UNCHANGED <<ledger, consumptions>>
  BY <1>1 DEF AndroidTypeOK
<1>2. CASE ~UNCHANGED <<ledger, consumptions>>
  <2> DEFINE entry == [nonce |-> a.nonce, lifetime |-> <<a.session, registrations[a.session]>>]
  <2>1. /\ ledger' = Tracked(Key(a))
        /\ consumptions' = IF InLedger(Key(a)) THEN consumptions ELSE Append(consumptions, entry)
    BY <1>2 DEF Accept
  <2>2. Key(a) \in Sessions \X Nonces
    BY DEF Key, AuthorizedAction
  <2>3. ledger' \in Seq(Sessions \X Nonces)
    BY <2>1, <2>2, TrackedLedger
  <2>4. Len(ledger') <= LedgerSize
    <3>1. Len(WithKey(Key(a))) \in Nat
      BY <2>2, TrackedLedger
    <3> QED
      BY <2>1, <2>2, <3>1, TrackedLedger, AndroidBrokerAssumption DEF Excess
  <2>5. entry \in [nonce : Nonces, lifetime : Sessions \X Nat]
    BY DEF AuthorizedAction, AndroidTypeOK
  <2>6. consumptions' \in Seq([nonce : Nonces, lifetime : Sessions \X Nat])
    <3> DEFINE C == [nonce : Nonces, lifetime : Sessions \X Nat]
    <3>1. consumptions \in Seq(C) /\ entry \in C
      BY <2>5 DEF AndroidTypeOK
    <3>2. consumptions' \in Seq(C)
      <4> HIDE DEF C, entry
      <4> QED
        BY <2>1, <3>1
    <3> QED
      BY <3>2
  <2> QED
    BY <2>3, <2>4, <2>6
<1> QED
  BY <1>1, <1>2

\* What a consumption in hand is about.
LEMMA ActionInHand ==
  ASSUME AndroidTypeOK, NEW t \in HostThreads, InSession(t, "consume")
  PROVE  call[t].action \in AuthorizedAction
BY DEF AndroidTypeOK, InSession, HostCalls

LEMMA AndroidTypeInit == AndroidInit => AndroidTypeOK
BY ContextBrokerAssumption, AndroidBrokerAssumption
   DEF AndroidInit, CoreInit, AndroidTypeOK, CoreTypeOK

LEMMA AndroidTypeStep ==
  ASSUME AndroidTypeOK, [AndroidNext]_androidVars
  PROVE  AndroidTypeOK'
<1>1. ASSUME NEW t \in HostThreads, NEW s \in Sessions, NEW tab \in Tabs,
             RegisterSession(t, s, tab)
      PROVE  AndroidTypeOK'
  <2>1. 0 \in Generations
    BY ContextBrokerAssumption DEF Generations
  <2> QED
    BY <1>1, <2>1, EnterType DEF RegisterSession
<1>2. ASSUME NEW t \in HostThreads, NEW s \in Sessions, NEW tab \in Tabs,
             RenewSession(t, s, tab)
      PROVE  AndroidTypeOK'
  <2>1. host[s].generation \in Generations
    BY <1>2 DEF RenewSession, OpenFor, AndroidTypeOK, HostSession
  <2> QED
    BY <1>2, <2>1, EnterType DEF RenewSession
<1>3. ASSUME NEW t \in HostThreads, NEW s \in Sessions, NEW tab \in Tabs,
             NEW g \in Generations, UpdateDocumentGeneration(t, s, tab, g)
      PROVE  AndroidTypeOK'
  BY <1>3, EnterType DEF UpdateDocumentGeneration
<1>4. ASSUME NEW t \in HostThreads, Renew(t) PROVE AndroidTypeOK'
  BY <1>4, CoreFrame DEF Renew, Leave, AndroidTypeOK, hostVars
<1>5. ASSUME NEW a \in authorized, NEW g \in Generations, ConsumeManaged(a, g)
      PROVE  AndroidTypeOK'
  BY <1>5, CoreFrame, AcceptType DEF ConsumeManaged, AndroidTypeOK
<1>6. ASSUME NEW a \in authorized, NEW g \in Generations, NEW t \in HostThreads,
             ConsumeCore(t, a, g)
      PROVE  AndroidTypeOK'
  <2>1. [at |-> "consume", session |-> NoSession, action |-> a, generation |-> g] \in HostCalls
    BY DEF HostCalls, AndroidTypeOK
  <2>2. CoreTypeOK'
    BY <1>6 DEF ConsumeCore, ConsumeNonce, CoreTypeOK, AndroidTypeOK, AuthorizedAction
  <2> QED
    BY <1>6, <2>1, <2>2 DEF ConsumeCore, AndroidTypeOK, hostVars
<1>7. ASSUME NEW t \in HostThreads, ConsumeHost(t) PROVE AndroidTypeOK'
  <2>1. call[t].action \in AuthorizedAction
    BY <1>7, ActionInHand DEF ConsumeHost, InSession
  <2>2. /\ ledger' \in Seq(Sessions \X Nonces) /\ Len(ledger') <= LedgerSize
        /\ consumptions' \in Seq([nonce : Nonces, lifetime : Sessions \X Nat])
    BY <1>7, <2>1, AcceptType DEF ConsumeHost
  <2> QED
    BY <1>7, <2>2, CoreFrame DEF ConsumeHost, Leave, AndroidTypeOK
<1>8. CASE AndroidTick
  BY <1>8, ContextBrokerAssumption DEF AndroidTick, Tick, AndroidTypeOK, CoreTypeOK, hostVars
<1>9. CASE UNCHANGED androidVars
  BY <1>9, CoreFrame DEF androidVars, AndroidTypeOK, hostVars
<1> QED
  BY <1>1, <1>2, <1>3, <1>4, <1>5, <1>6, <1>7, <1>8, <1>9, CreateCallType, UpdateCallType,
     RegisterType, CommitType, DestroyType, EvaluateType DEF AndroidNext
-----------------------------------------------------------------------------
(* One truth with the core.                                                *)

\* A session that a step leaves alone, and whose calls it leaves alone.
LEMMA SessionFrame ==
  ASSUME NEW s \in Sessions, sessions'[s] = sessions[s], host'[s] = host[s]
  PROVE  /\ Agree(s)' <=> Agree(s)
         /\ \A t \in HostThreads : call'[t] = call[t] =>
              /\ KnowsHost(s, t) => KnowsHost(s, t)'
              /\ call[t].session = s => (KnowsCore(s, t) => KnowsCore(s, t)')
              /\ OnlyHostIsBehind(s, t) => OnlyHostIsBehind(s, t)'
<1>1. (s \in Pool') <=> (s \in Pool)
  BY DEF Pool
<1>2. Agree(s)' <=> Agree(s)
  BY <1>1 DEF Agree
<1>3. ASSUME NEW t \in HostThreads, call'[t] = call[t], KnowsHost(s, t)
      PROVE  KnowsHost(s, t)'
  BY <1>3 DEF KnowsHost, OpenFor
<1>4. ASSUME NEW t \in HostThreads, call'[t] = call[t], call[t].session = s, KnowsCore(s, t)
      PROVE  KnowsCore(s, t)'
  BY <1>1, <1>4 DEF KnowsCore, Replaced
<1>5. ASSUME NEW t \in HostThreads, call'[t] = call[t], OnlyHostIsBehind(s, t)
      PROVE  OnlyHostIsBehind(s, t)'
  BY <1>1, <1>2, <1>5 DEF OnlyHostIsBehind
<1> QED
  BY <1>2, <1>3, <1>4, <1>5

\* A step about session s keeps the invariant when it keeps it of s.
LEMMA OneSession ==
  ASSUME Agreeing, NEW s \in Sessions,
         \A x \in Sessions \ {s} :
           /\ sessions'[x] = sessions[x] /\ host'[x] = host[x] /\ (x \in mixed' <=> x \in mixed)
           /\ On(x)' = On(x) /\ \A t \in On(x) : call'[t] = call[t],
         \A t \in On(s)' : call'[t].alone => On(s)' = {t},
         s \notin mixed' => \A t \in On(s)' : call'[t].alone,
         \A t \in On(s)' : KnowsHost(s, t)' /\ KnowsCore(s, t)',
         s \notin mixed' => (On(s)' = {} => Agree(s)') /\ \A t \in On(s)' : OnlyHostIsBehind(s, t)'
  PROVE  Agreeing'
<1>1. \A x \in Sessions : \A t \in On(x) : t \in HostThreads /\ call[t].session = x
  BY DEF On
<1>2. AloneMeansAlone' /\ UnmixedIsAlone'
  BY DEF Agreeing, AloneMeansAlone, UnmixedIsAlone
<1>3. CallsKnow'
  <2> SUFFICES ASSUME NEW x \in Sessions, NEW t \in On(x)'
               PROVE  KnowsHost(x, t)' /\ KnowsCore(x, t)'
    BY DEF CallsKnow
  <2>1. CASE x = s
    BY <2>1
  <2>2. CASE x # s
    <3>1. t \in On(x) /\ call'[t] = call[t] /\ KnowsHost(x, t) /\ KnowsCore(x, t)
      BY <2>2 DEF Agreeing, CallsKnow
    <3> QED
      BY <1>1, <2>2, <3>1, SessionFrame
  <2> QED
    BY <2>1, <2>2
<1>4. UnmixedAgrees'
  <2> SUFFICES ASSUME NEW x \in Sessions, x \notin mixed'
               PROVE  /\ On(x)' = {} => Agree(x)'
                      /\ \A t \in On(x)' : OnlyHostIsBehind(x, t)'
    BY DEF UnmixedAgrees
  <2>1. CASE x = s
    BY <2>1
  <2>2. CASE x # s
    BY <1>1, <2>2, SessionFrame DEF Agreeing, UnmixedAgrees
  <2> QED
    BY <2>1, <2>2
<1> QED
  BY <1>2, <1>3, <1>4 DEF Agreeing

\* A step that touches no session, nor a call of one.
LEMMA AgreeFrame ==
  ASSUME Agreeing, UNCHANGED <<sessions, host, mixed>>,
         \A s \in Sessions : On(s)' = On(s) /\ \A t \in On(s) : call'[t] = call[t]
  PROVE  Agreeing'
<1>1. \A x \in Sessions : \A t \in On(x) : t \in HostThreads /\ call[t].session = x
  BY DEF On
<1>2. AloneMeansAlone' /\ UnmixedIsAlone'
  BY DEF Agreeing, AloneMeansAlone, UnmixedIsAlone
<1>3. CallsKnow'
  BY <1>1, SessionFrame DEF Agreeing, CallsKnow
<1>4. UnmixedAgrees'
  BY <1>1, SessionFrame DEF Agreeing, UnmixedAgrees
<1> QED
  BY <1>2, <1>3, <1>4 DEF Agreeing

\* The first section of a call.
LEMMA EnterAgree ==
  ASSUME AndroidTypeOK, Agreeing, NEW t \in HostThreads, NEW s \in Sessions, NEW tab \in Tabs,
         NEW g \in Generations, NEW at \in {"register_core", "renew_core", "update_core"},
         call[t] = NoCall, Enter(t, at, s, tab, g), UNCHANGED <<sessions, host>>,
         at = "register_core" => host[s] = NoSession,
         at = "renew_core" => host[s] = [tab |-> tab, generation |-> g],
         at = "update_core" => OpenFor(s, tab) /\ g = host[s].generation + 1
  PROVE  Agreeing'
<1>1. PICK alone \in BOOLEAN : alone <=> On(s) = {}
  OBVIOUS
<1> DEFINE entered == [at |-> at, session |-> s, tab |-> tab, generation |-> g,
                       core |-> TRUE, alone |-> alone]
<1>2. entered \in SessionCalls /\ entered # NoCall /\ t \notin On(s)
  <2>1. entered \in SessionCalls
    BY DEF SessionCalls
  <2>2. t \notin On(s)
    BY DEF On
  <2> QED
    BY <2>1, <2>2, SessionCallsAreCalls
<1>3. /\ call'[t] = entered
      /\ \A x \in HostThreads : x # t /\ x \notin On(s) => call'[x] = call[x]
      /\ \A x \in On(s) : call'[x] = [call[x] EXCEPT !.alone = FALSE]
      /\ mixed' = IF On(s) = {} THEN mixed ELSE mixed \cup {s}
  BY <1>1, <1>2 DEF Enter, On
<1>4. \A x \in On(s) : /\ x \in HostThreads /\ x # t /\ call'[x] # NoCall
                       /\ call'[x].session = s /\ call'[x].alone = FALSE
  <2> TAKE x \in On(s)
  <2>1. call[x] \in SessionCalls /\ call[x].session = s /\ x \in HostThreads /\ x # t
    BY <1>2, OnSession
  <2>2. /\ [call[x] EXCEPT !.alone = FALSE] \in SessionCalls
        /\ [call[x] EXCEPT !.alone = FALSE].session = s
        /\ [call[x] EXCEPT !.alone = FALSE].alone = FALSE
    BY <2>1 DEF SessionCalls
  <2> QED
    BY <1>3, <2>1, <2>2, SessionCallsAreCalls
<1>5. call'[t].session = s /\ call'[t] # NoCall
  BY <1>2, <1>3
<1>6. On(s)' = On(s) \cup {t}
  BY <1>3, <1>4, <1>5 DEF On
<1>7. \A x \in Sessions \ {s} : On(x)' = On(x) /\ \A u \in On(x) : call'[u] = call[u]
  BY <1>3, <1>4, <1>5 DEF On
<1>8. \A u \in On(s)' : call'[u].alone => u = t /\ On(s) = {}
  <2>1. call'[t].alone => On(s) = {}
    BY <1>1, <1>3
  <2> QED
    BY <1>4, <1>6, <2>1
<1>9. s \notin mixed' => s \notin mixed /\ On(s)' = {t} /\ call'[t].alone
  BY <1>1, <1>3, <1>6
<1>10. KnowsHost(s, t)' /\ KnowsCore(s, t)'
  <2> HIDE DEF entered
  <2>1. /\ call'[t].at = at /\ call'[t].tab = tab /\ call'[t].generation = g
    BY <1>3 DEF entered
  <2> QED
    BY <2>1 DEF KnowsHost, KnowsCore, OpenFor
<1>11. \A u \in On(s)' : KnowsHost(s, u)' /\ KnowsCore(s, u)'
  BY <1>8, <1>10 DEF KnowsHost, KnowsCore
<1>12. s \notin mixed' => OnlyHostIsBehind(s, t)'
  <2> SUFFICES ASSUME s \notin mixed' PROVE OnlyHostIsBehind(s, t)'
    OBVIOUS
  <2>1. Agree(s)'
    BY <1>3, <1>9 DEF Agreeing, UnmixedAgrees, Agree, Pool
  <2>2. call'[t].at = at
    BY <1>3
  <2> QED
    BY <2>1, <2>2 DEF OnlyHostIsBehind
<1>13. \A x \in Sessions \ {s} : x \in mixed' <=> x \in mixed
  BY <1>3
<1>14. \A u \in On(s)' : call'[u].alone => On(s)' = {u}
  BY <1>6, <1>8
<1>15. s \notin mixed' => /\ \A u \in On(s)' : call'[u].alone /\ OnlyHostIsBehind(s, u)'
                          /\ On(s)' # {}
  BY <1>9, <1>12
<1> QED
  BY <1>7, <1>11, <1>13, <1>14, <1>15, OneSession

\* The call into the core, which touches the session of the call alone.
LEMMA CoreAgree ==
  ASSUME AndroidTypeOK, Agreeing, NEW t \in HostThreads, call[t] # NoCall,
         NEW at \in {"register", "renew", "update"}, NEW core \in BOOLEAN,
         at = "register" => call[t].at = "register_core",
         at = "renew" => call[t].at = "renew_core",
         at = "update" => call[t].at = "update_core",
         CoreAnswers(t, at, core), UNCHANGED <<host, mixed>>,
         \A x \in Sessions : x # call[t].session => sessions'[x] = sessions[x],
         core => Replaced(call[t])',
         ~core => UNCHANGED sessions,
         at = "register" => core \/ call[t].session \notin Pool,
         at = "renew" /\ call[t].session \in Pool => core,
         at = "update" /\ MayAdvance(call[t].session, call[t].tab, call[t].generation) => core
  PROVE  Agreeing'
<1> DEFINE c == call[t]
<1>1. c \in SessionCalls
  BY AtSession
<1>2. PICK s \in Sessions : s = c.session /\ t \in On(s)
  BY AtSession
<1>3. /\ call' = [call EXCEPT ![t] = [c EXCEPT !.at = at, !.core = core]]
      /\ [c EXCEPT !.at = at, !.core = core] \in SessionCalls
  BY <1>1 DEF CoreAnswers, AndroidTypeOK, SessionCalls
<1>4. /\ call'[t] # NoCall
      /\ call'[t].at = at /\ call'[t].core = core /\ call'[t].session = s
      /\ call'[t].tab = c.tab /\ call'[t].generation = c.generation /\ call'[t].alone = c.alone
      /\ \A u \in HostThreads : u # t => call'[u] = call[u]
  BY <1>1, <1>2, <1>3, SessionCallsAreCalls DEF AndroidTypeOK, SessionCalls
<1>5. On(s)' = On(s)
  BY <1>2, <1>4 DEF On
<1>6. \A x \in Sessions \ {s} : On(x)' = On(x) /\ \A u \in On(x) : call'[u] = call[u]
  BY <1>2, <1>4 DEF On
<1>7. \A u \in On(s) : call'[u].alone = call[u].alone /\ (call[u].alone => u = t)
  BY <1>2, <1>4 DEF Agreeing, AloneMeansAlone, On
<1>8. KnowsHost(s, t)'
  <2>1. KnowsHost(s, t)
    BY <1>2 DEF Agreeing, CallsKnow
  <2> HIDE DEF c
  <2> QED
    BY <1>4, <2>1 DEF KnowsHost, OpenFor, c
<1>9. KnowsCore(s, t)'
  BY <1>4 DEF KnowsCore
<1>10. \A u \in On(s)' : KnowsHost(s, u)' /\ KnowsCore(s, u)'
  BY <1>5, <1>7, <1>8, <1>9 DEF KnowsHost, KnowsCore
<1>11. s \notin mixed => On(s) = {t} /\ c.alone
  BY <1>2 DEF Agreeing, UnmixedIsAlone, AloneMeansAlone
<1>12. s \notin mixed => OnlyHostIsBehind(s, t)'
  <2> SUFFICES ASSUME s \notin mixed PROVE OnlyHostIsBehind(s, t)'
    OBVIOUS
  <2>1. KnowsHost(s, t) /\ c.alone /\ OnlyHostIsBehind(s, t)
    BY <1>2, <1>11 DEF Agreeing, CallsKnow, UnmixedAgrees
  <2>2. CASE at = "register"
    <3>1. ~core => s \notin Pool'
      BY <1>2, <2>2 DEF Pool
    <3> QED
      BY <1>4, <2>2, <3>1 DEF OnlyHostIsBehind
  <2>3. CASE at = "renew"
    <3>1. host[s] = [tab |-> c.tab, generation |-> c.generation] /\ Agree(s)
      BY <2>1, <2>3 DEF KnowsHost, OnlyHostIsBehind
    <3>2. host[s] \in HostSession
      BY <1>1, <3>1 DEF SessionCalls, HostSession
    <3>3. s \in Pool
      BY <3>1, <3>2, AndroidBrokerAssumption DEF Agree
    <3> QED
      BY <1>2, <1>4, <2>3, <3>3 DEF OnlyHostIsBehind
  <2>4. CASE at = "update"
    <3>1. OpenFor(s, c.tab) /\ c.generation = host[s].generation + 1 /\ Agree(s)
      BY <2>1, <2>4 DEF KnowsHost, OnlyHostIsBehind
    <3>2. MayAdvance(s, c.tab, c.generation)
      BY <3>1 DEF Agree, OpenFor, MayAdvance
    <3> QED
      BY <1>2, <1>4, <2>4, <3>2 DEF OnlyHostIsBehind
  <2> QED
    BY <2>2, <2>3, <2>4
<1>13. \A u \in On(s)' : call'[u].alone => On(s)' = {u}
  BY <1>5, <1>7 DEF Agreeing, AloneMeansAlone
<1>14. s \notin mixed' => /\ \A u \in On(s)' : call'[u].alone /\ OnlyHostIsBehind(s, u)'
                          /\ On(s)' # {}
  BY <1>5, <1>7, <1>11, <1>12
<1>15. \A x \in Sessions \ {s} :
         sessions'[x] = sessions[x] /\ host'[x] = host[x] /\ (x \in mixed' <=> x \in mixed)
  BY <1>2
<1> QED
  BY <1>6, <1>10, <1>13, <1>14, <1>15, OneSession

\* The last section of a call, which touches the session of the call alone: what it
\* leaves unmixed agrees.
LEMMA LeaveAgree ==
  ASSUME AndroidTypeOK, Agreeing, NEW t \in HostThreads, NEW s \in Sessions,
         t \in On(s), Leave(t), UNCHANGED sessions,
         \A x \in Sessions : x # s => host'[x] = host[x],
         mixed' = mixed \/ (call[t].alone /\ mixed' = mixed \ {s}),
         s \notin mixed' /\ call[t].alone => Agree(s)'
  PROVE  Agreeing'
<1>1. call'[t] = NoCall /\ \A u \in HostThreads : u # t => call'[u] = call[u]
  BY DEF Leave, AndroidTypeOK, On
<1>2. On(s)' = On(s) \ {t}
  BY <1>1 DEF On
<1>3. \A x \in Sessions \ {s} : On(x)' = On(x) /\ \A u \in On(x) : call'[u] = call[u]
  BY <1>1 DEF On
<1>4. \A u \in On(s)' : ~call'[u].alone
  BY <1>1, <1>2 DEF Agreeing, AloneMeansAlone, On
<1>5. s \notin mixed' => call[t].alone /\ On(s)' = {}
  BY <1>2 DEF Agreeing, UnmixedIsAlone, AloneMeansAlone
<1>6. \A u \in On(s)' : KnowsHost(s, u)' /\ KnowsCore(s, u)'
  BY <1>4 DEF KnowsHost, KnowsCore
<1>7. \A x \in Sessions \ {s} :
         sessions'[x] = sessions[x] /\ host'[x] = host[x] /\ (x \in mixed' <=> x \in mixed)
  OBVIOUS
<1> QED
  BY <1>3, <1>4, <1>5, <1>6, <1>7, OneSession

\* The core has room for the session that comes next: it refuses none and evicts none.
RoomInCore == Pool # Sessions => Cardinality(Pool) < MaxSessions

LEMMA CreateInRoom ==
  ASSUME CoreTypeOK, RoomInCore, NEW s \in Sessions, NEW tab \in Tabs,
         NEW g \in Generations, CreateSession(s, tab, g, SessionTtl)
  PROVE  /\ \A x \in Sessions : x # s => sessions'[x] = sessions[x]
         /\ sessions'[s] # NoSession
         /\ sessions'[s].tab = tab /\ sessions'[s].generation = g
<1> DEFINE context == [tab |-> tab, generation |-> g, deadline |-> now + ClampTtl(SessionTtl)]
<1>1. IsFiniteSet(Pool) /\ Cardinality(Pool) \in Nat
  BY AndroidBrokerAssumption, FS_Subset, FS_CardinalityType DEF Pool
<1>2. s \notin Pool => Cardinality(Pool) < MaxSessions
  BY DEF RoomInCore
<1>3. Evicted(s) = {}
  BY <1>1, <1>2, ContextBrokerAssumption DEF Evicted
<1>4. s \in Pool \/ Cardinality(Pool \ Evicted(s)) < MaxSessions
  <2>1. Pool \ Evicted(s) = Pool
    BY <1>3
  <2> QED
    BY <1>2, <2>1
<1>5. sessions' = [sessions EXCEPT ![s] = context]
  BY <1>3, <1>4 DEF CreateSession, CoreTypeOK
<1>6. context \in SessionContext
  BY ClampTtlRange, ContextBrokerAssumption, AndroidBrokerAssumption
     DEF CoreTypeOK, SessionContext
<1>7. sessions'[s] = context /\ context # NoSession
  BY <1>5, <1>6, ContextBrokerAssumption DEF CoreTypeOK
<1> QED
  BY <1>5, <1>7 DEF CoreTypeOK

LEMMA CreateCallAgree ==
  ASSUME AndroidTypeOK, Agreeing, native, RoomInCore,
         NEW t \in HostThreads, RegisterCore(t) \/ RenewCore(t)
  PROVE  Agreeing'
<1>1. call[t] \in SessionCalls
  BY AtSession DEF RegisterCore, RenewCore
<1>2. call[t].session \in Sessions /\ call[t].tab \in Tabs /\ call[t].generation \in Generations
  BY <1>1 DEF SessionCalls
<1>3. CreateSession(call[t].session, call[t].tab, call[t].generation, SessionTtl)
  BY DEF RegisterCore, RenewCore, CoreGate
<1>4. /\ \A x \in Sessions : x # call[t].session => sessions'[x] = sessions[x]
      /\ sessions'[call[t].session] # NoSession
      /\ sessions'[call[t].session].tab = call[t].tab
      /\ sessions'[call[t].session].generation = call[t].generation
  BY <1>2, <1>3, CreateInRoom DEF AndroidTypeOK
<1>5. PICK at \in {"register", "renew"} :
        /\ at = "register" => call[t].at = "register_core"
        /\ at = "renew" => call[t].at = "renew_core"
        /\ CoreAnswers(t, at, TRUE)
  BY <1>4 DEF RegisterCore, RenewCore
<1>6. /\ call'[t].session = call[t].session /\ call'[t].tab = call[t].tab
      /\ call'[t].generation = call[t].generation
  BY <1>1, <1>5 DEF CoreAnswers, AndroidTypeOK, SessionCalls
<1>7. Replaced(call[t])'
  BY <1>2, <1>4, <1>6 DEF Replaced, Pool
<1>8. UNCHANGED <<host, mixed>> /\ call[t] # NoCall
  BY DEF RegisterCore, RenewCore, hostVars
<1> QED
  BY <1>4, <1>5, <1>7, <1>8, CoreAgree

LEMMA UpdateCallAgree ==
  ASSUME AndroidTypeOK, Agreeing, native, NEW t \in HostThreads, UpdateCore(t)
  PROVE  Agreeing'
<1>1. call[t] \in SessionCalls
  BY AtSession DEF UpdateCore
<1>2. call[t].session \in Sessions /\ call[t].tab \in Tabs /\ call[t].generation \in Generations
  BY <1>1 DEF SessionCalls
<1>3. UNCHANGED <<host, mixed>> /\ call[t] # NoCall /\ call[t].at = "update_core"
  BY DEF UpdateCore, hostVars
<1>4. CASE MayAdvance(call[t].session, call[t].tab, call[t].generation)
  <2>1. /\ CoreAnswers(t, "update", TRUE)
        /\ sessions' = [sessions EXCEPT ![call[t].session].generation = call[t].generation]
    BY <1>4 DEF UpdateCore, AdvanceGeneration
  <2>2. /\ call'[t].session = call[t].session /\ call'[t].tab = call[t].tab
        /\ call'[t].generation = call[t].generation
    BY <1>1, <2>1 DEF CoreAnswers, AndroidTypeOK, SessionCalls
  <2>3. sessions[call[t].session] \in SessionContext
    BY <1>2, <1>4 DEF MayAdvance, Pool, AndroidTypeOK, CoreTypeOK
  <2>4. /\ sessions'[call[t].session] \in SessionContext
        /\ sessions'[call[t].session].tab = call[t].tab
        /\ sessions'[call[t].session].generation = call[t].generation
    BY <1>2, <1>4, <2>1, <2>3 DEF MayAdvance, SessionContext, AndroidTypeOK, CoreTypeOK
  <2>5. Replaced(call[t])'
    BY <1>2, <2>2, <2>4, ContextBrokerAssumption DEF Replaced, Pool
  <2>6. \A x \in Sessions : x # call[t].session => sessions'[x] = sessions[x]
    BY <2>1 DEF AndroidTypeOK, CoreTypeOK
  <2> QED
    BY <1>3, <2>1, <2>5, <2>6, CoreAgree
<1>5. CASE ~MayAdvance(call[t].session, call[t].tab, call[t].generation)
  <2>1. CoreAnswers(t, "update", FALSE) /\ UNCHANGED sessions
    BY <1>5 DEF UpdateCore, coreVars
  <2> QED
    BY <1>3, <1>5, <2>1, CoreAgree
<1> QED
  BY <1>4, <1>5

LEMMA RegisterAgree ==
  ASSUME AndroidTypeOK, Agreeing, NEW t \in HostThreads, Register(t)
  PROVE  Agreeing'
<1> DEFINE c == call[t]
<1>1. c \in SessionCalls
  BY AtSession DEF Register
<1>2. PICK s \in Sessions : s = c.session /\ t \in On(s)
  BY AtSession DEF Register
<1>3. /\ Leave(t) /\ UNCHANGED sessions /\ c.at = "register"
      /\ IF c.core /\ host[s] = NoSession
         THEN host' = [host EXCEPT ![s] = [tab |-> c.tab, generation |-> c.generation]]
         ELSE UNCHANGED host
      /\ mixed' = IF Settles(c) THEN mixed \ {s} ELSE mixed
  BY <1>2 DEF Register, coreVars
<1>4. KnowsHost(s, t) /\ KnowsCore(s, t)
  BY <1>2 DEF Agreeing, CallsKnow
<1>5. ASSUME s \notin mixed', c.alone PROVE Agree(s)'
  <2>1. host[s] = NoSession
    BY <1>3, <1>4, <1>5 DEF KnowsHost
  <2>2. CASE c.core
    <3>1. Replaced(c)
      BY <1>3, <1>4, <1>5, <2>2 DEF KnowsCore
    <3>2. host'[s] = [tab |-> c.tab, generation |-> c.generation]
      BY <1>3, <2>1, <2>2 DEF AndroidTypeOK
    <3>3. [tab |-> c.tab, generation |-> c.generation] # NoSession
      BY <1>1, AndroidBrokerAssumption DEF SessionCalls, HostSession
    <3> QED
      BY <1>2, <1>3, <3>1, <3>2, <3>3 DEF Replaced, Agree, Pool
  <2>3. CASE ~c.core
    <3>1. s \notin mixed
      BY <1>3, <1>5, <2>3 DEF Settles
    <3>2. OnlyHostIsBehind(s, t)
      BY <1>2, <3>1 DEF Agreeing, UnmixedAgrees
    <3>3. s \notin Pool
      BY <1>3, <2>3, <3>2 DEF OnlyHostIsBehind
    <3> QED
      BY <1>3, <2>1, <2>3, <3>3 DEF Agree, Pool
  <2> QED
    BY <2>2, <2>3
<1>6. \A x \in Sessions : x # s => host'[x] = host[x]
  BY <1>3 DEF AndroidTypeOK
<1>7. mixed' = mixed \/ (c.alone /\ mixed' = mixed \ {s})
  BY <1>3 DEF Settles
<1> QED
  BY <1>2, <1>3, <1>5, <1>6, <1>7, LeaveAgree

LEMMA RenewAgree ==
  ASSUME AndroidTypeOK, Agreeing, NEW t \in HostThreads, Renew(t)
  PROVE  Agreeing'
<1> DEFINE c == call[t]
<1>1. c \in SessionCalls
  BY AtSession DEF Renew
<1>2. PICK s \in Sessions : s = c.session /\ t \in On(s)
  BY AtSession DEF Renew
<1>3. /\ Leave(t) /\ UNCHANGED <<sessions, host>> /\ c.at = "renew"
      /\ mixed' = IF Settles(c) THEN mixed \ {s} ELSE mixed
  BY <1>2 DEF Renew, coreVars, hostVars
<1>4. KnowsHost(s, t) /\ KnowsCore(s, t)
  BY <1>2 DEF Agreeing, CallsKnow
<1>5. ASSUME s \notin mixed', c.alone PROVE Agree(s)'
  <2>1. host[s] = [tab |-> c.tab, generation |-> c.generation]
    BY <1>3, <1>4, <1>5 DEF KnowsHost
  <2>2. c.core
    <3>1. CASE s \in mixed
      BY <1>3, <1>5, <3>1 DEF Settles
    <3>2. CASE s \notin mixed
      <4>1. OnlyHostIsBehind(s, t)
        BY <1>2, <3>2 DEF Agreeing, UnmixedAgrees
      <4> QED
        BY <1>3, <4>1 DEF OnlyHostIsBehind
    <3> QED
      BY <3>1, <3>2
  <2>3. Replaced(c)
    BY <1>3, <1>4, <1>5, <2>2 DEF KnowsCore
  <2>4. [tab |-> c.tab, generation |-> c.generation] # NoSession
    BY <1>1, AndroidBrokerAssumption DEF SessionCalls, HostSession
  <2> QED
    BY <1>2, <1>3, <2>1, <2>3, <2>4 DEF Replaced, Agree, Pool
<1>6. mixed' = mixed \/ (c.alone /\ mixed' = mixed \ {s})
  BY <1>3 DEF Settles
<1> QED
  BY <1>2, <1>3, <1>5, <1>6, LeaveAgree

LEMMA CommitAgree ==
  ASSUME AndroidTypeOK, Agreeing, NEW t \in HostThreads, CommitGeneration(t)
  PROVE  Agreeing'
<1> DEFINE c == call[t]
<1>1. c \in SessionCalls
  BY AtSession DEF CommitGeneration
<1>2. PICK s \in Sessions : s = c.session /\ t \in On(s)
  BY AtSession DEF CommitGeneration
<1>3. /\ Leave(t) /\ UNCHANGED <<sessions, mixed>> /\ c.at = "update"
      /\ host' = IF c.core /\ OpenFor(s, c.tab) /\ host[s].generation + 1 = c.generation
                 THEN [host EXCEPT ![s].generation = c.generation]
                 ELSE host
  BY <1>2 DEF CommitGeneration, coreVars
<1>4. KnowsHost(s, t) /\ KnowsCore(s, t)
  BY <1>2 DEF Agreeing, CallsKnow
<1>5. ASSUME s \notin mixed', c.alone PROVE Agree(s)'
  <2>1. OpenFor(s, c.tab) /\ c.generation = host[s].generation + 1
    BY <1>3, <1>4, <1>5 DEF KnowsHost
  <2>2. c.core
    <3>1. OnlyHostIsBehind(s, t)
      BY <1>2, <1>3, <1>5 DEF Agreeing, UnmixedAgrees
    <3> QED
      BY <1>3, <3>1 DEF OnlyHostIsBehind
  <2>3. Replaced(c)
    BY <1>3, <1>4, <1>5, <2>2 DEF KnowsCore
  <2>4. host[s] \in HostSession /\ host[s].tab = c.tab
    BY <2>1 DEF OpenFor, AndroidTypeOK
  <2>5. host' = [host EXCEPT ![s].generation = c.generation]
    BY <1>3, <2>1, <2>2
  <2>6. host'[s] = [host[s] EXCEPT !.generation = c.generation]
    BY <2>5 DEF AndroidTypeOK
  <2>7. host'[s] = [tab |-> c.tab, generation |-> c.generation]
    BY <2>4, <2>6 DEF HostSession
  <2>8. [tab |-> c.tab, generation |-> c.generation] # NoSession
    BY <1>1, AndroidBrokerAssumption DEF SessionCalls, HostSession
  <2> QED
    BY <1>2, <1>3, <2>3, <2>7, <2>8 DEF Replaced, Agree, Pool
<1>6. \A x \in Sessions : x # s => host'[x] = host[x]
  BY <1>3 DEF AndroidTypeOK
<1> QED
  BY <1>2, <1>3, <1>5, <1>6, LeaveAgree

LEMMA DestroyAgree ==
  ASSUME AndroidTypeOK, Agreeing, native, NEW s \in Sessions, DestroySession(s)
  PROVE  Agreeing'
<1>1. /\ host' = [host EXCEPT ![s] = NoSession] /\ sessions' = [sessions EXCEPT ![s] = NoSession]
      /\ \A x \in HostThreads : x \notin On(s) => call'[x] = call[x]
      /\ \A x \in On(s) : call'[x] = [call[x] EXCEPT !.alone = FALSE]
      /\ mixed' = IF On(s) = {} THEN mixed \ {s} ELSE mixed \cup {s}
  BY DEF DestroySession, EndHostSession, RemoveSession, On
<1>2. \A x \in On(s) : /\ x \in HostThreads /\ call'[x] # NoCall
                       /\ call'[x].session = s /\ call'[x].alone = FALSE
  <2> TAKE x \in On(s)
  <2>1. call[x] \in SessionCalls /\ call[x].session = s /\ x \in HostThreads
    BY OnSession
  <2>2. /\ [call[x] EXCEPT !.alone = FALSE] \in SessionCalls
        /\ [call[x] EXCEPT !.alone = FALSE].session = s
        /\ [call[x] EXCEPT !.alone = FALSE].alone = FALSE
    BY <2>1 DEF SessionCalls
  <2> QED
    BY <1>1, <2>1, <2>2, SessionCallsAreCalls
<1>3. On(s)' = On(s)
  BY <1>1, <1>2 DEF On
<1>4. \A x \in Sessions \ {s} : On(x)' = On(x) /\ \A u \in On(x) : call'[u] = call[u]
  BY <1>1, <1>2 DEF On
<1>5. \A u \in On(s)' : ~call'[u].alone /\ KnowsHost(s, u)' /\ KnowsCore(s, u)'
  BY <1>2, <1>3 DEF KnowsHost, KnowsCore
<1>6. s \notin mixed' => On(s)' = {}
  BY <1>1, <1>3
<1>7. Agree(s)'
  BY <1>1 DEF Agree, Pool, AndroidTypeOK, CoreTypeOK
<1>8. \A x \in Sessions \ {s} :
         sessions'[x] = sessions[x] /\ host'[x] = host[x] /\ (x \in mixed' <=> x \in mixed)
  BY <1>1 DEF AndroidTypeOK, CoreTypeOK
<1> QED
  BY <1>4, <1>5, <1>6, <1>7, <1>8, OneSession

LEMMA AgreeStep ==
  ASSUME AndroidTypeOK, AgreeInv, RoomInCore, [AndroidNext]_androidVars
  PROVE  AgreeInv'
<1>1. native' = native
  BY DEF AndroidNext, androidVars, RegisterSession, RenewSession, UpdateDocumentGeneration,
         RegisterCore, Register, RenewCore, Renew, UpdateCore, CommitGeneration, ConsumeHost,
         DestroySession, EndHostSession, EvaluateNavigation, ConsumeManaged, ConsumeCore, AndroidTick
<1> SUFFICES ASSUME native, Agreeing PROVE Agreeing'
  BY <1>1 DEF AgreeInv
<1>2. ASSUME NEW t \in HostThreads, NEW s \in Sessions, NEW tab \in Tabs,
             RegisterSession(t, s, tab)
      PROVE  Agreeing'
  <2>1. 0 \in Generations
    BY ContextBrokerAssumption DEF Generations
  <2> QED
    BY <1>2, <2>1, EnterAgree DEF RegisterSession, hostVars, coreVars
<1>3. ASSUME NEW t \in HostThreads, NEW s \in Sessions, NEW tab \in Tabs,
             RenewSession(t, s, tab)
      PROVE  Agreeing'
  <2>1. /\ host[s].generation \in Generations
        /\ host[s] = [tab |-> tab, generation |-> host[s].generation]
    BY <1>3 DEF RenewSession, OpenFor, AndroidTypeOK, HostSession
  <2> QED
    BY <1>3, <2>1, EnterAgree DEF RenewSession, hostVars, coreVars
<1>4. ASSUME NEW t \in HostThreads, NEW s \in Sessions, NEW tab \in Tabs,
             NEW g \in Generations, UpdateDocumentGeneration(t, s, tab, g)
      PROVE  Agreeing'
  BY <1>4, EnterAgree DEF UpdateDocumentGeneration, hostVars, coreVars
<1>5. ASSUME NEW s \in Sessions, NEW tab \in Tabs, NEW g \in Generations,
             EvaluateNavigation(s, tab, g)
      PROVE  Agreeing'
  BY <1>5, AgreeFrame DEF EvaluateNavigation, hostVars, coreVars, On
<1>6. ASSUME NEW a \in authorized, NEW g \in Generations, ConsumeManaged(a, g)
      PROVE  Agreeing'
  BY <1>6, AgreeFrame DEF ConsumeManaged, coreVars, On
<1>7. ASSUME NEW a \in authorized, NEW g \in Generations, NEW t \in HostThreads,
             ConsumeCore(t, a, g)
      PROVE  Agreeing'
  <2>1. \A x \in Sessions : On(x)' = On(x) /\ \A u \in On(x) : call'[u] = call[u]
    BY <1>7, ContextBrokerAssumption DEF ConsumeCore, On, AndroidTypeOK
  <2> QED
    BY <1>7, <2>1, AgreeFrame DEF ConsumeCore, ConsumeNonce, hostVars
<1>8. ASSUME NEW t \in HostThreads, ConsumeHost(t) PROVE Agreeing'
  <2>1. call[t].session = NoSession
    BY <1>8 DEF ConsumeHost, AndroidTypeOK, HostCalls
  <2>2. \A x \in Sessions : On(x)' = On(x) /\ \A u \in On(x) : call'[u] = call[u]
    BY <1>8, <2>1, ContextBrokerAssumption DEF ConsumeHost, Leave, On, AndroidTypeOK
  <2> QED
    BY <1>8, <2>2, AgreeFrame DEF ConsumeHost, coreVars
<1>9. CASE AndroidTick
  BY <1>9, AgreeFrame DEF AndroidTick, Tick, hostVars, On
<1>10. CASE UNCHANGED androidVars
  BY <1>10, AgreeFrame DEF androidVars, coreVars, hostVars, On
<1> QED
  BY <1>2, <1>3, <1>4, <1>5, <1>6, <1>7, <1>8, <1>9, <1>10, CreateCallAgree, UpdateCallAgree,
     RegisterAgree, RenewAgree, CommitAgree, DestroyAgree DEF AndroidNext
-----------------------------------------------------------------------------
(* Replay protection.                                                      *)

\* A step that accepts nothing, and after which the sessions that are there were
\* there before, in the same lifetime, with their keys as near to the end.
LEMMA ReplayFrame ==
  ASSUME AndroidTypeOK, ReplayInv,
         native' = native, consumptions' = consumptions, consumed_nonces \subseteq consumed_nonces',
         \A t \in HostThreads : InSession(t, "consume")' =>
           InSession(t, "consume") /\ call'[t].action = call[t].action,
         \A s \in Sessions : registrations[s] <= registrations'[s] /\ registrations'[s] \in Nat,
         \A s \in Sessions : host'[s] # NoSession /\ registrations'[s] = registrations[s] =>
           /\ host[s] # NoSession
           /\ \A k \in DOMAIN ledger : ledger[k][1] = s =>
                \E j \in DOMAIN ledger' :
                  ledger'[j] = ledger[k] /\ Len(ledger') - j <= Len(ledger) - k,
         Len(ledger') \in Nat, ledger' \in Seq(Sessions \X Nonces)
  PROVE  ReplayInv'
<1>1. BurntInCore'
  BY DEF ReplayInv, BurntInCore, InSession
<1>2. /\ DOMAIN consumptions = 1..Len(consumptions) /\ Len(consumptions) \in Nat
      /\ DOMAIN ledger = 1..Len(ledger) /\ Len(ledger) \in Nat
      /\ DOMAIN ledger' = 1..Len(ledger')
  BY DEF AndroidTypeOK
<1>3. \A i \in DOMAIN consumptions :
        /\ consumptions[i].lifetime[1] \in Sessions /\ consumptions[i].lifetime[2] \in Nat
        /\ registrations[consumptions[i].lifetime[1]] \in Nat
  <2> TAKE i \in DOMAIN consumptions
  <2>1. consumptions[i] \in [nonce : Nonces, lifetime : Sessions \X Nat]
    <3> DEFINE C == [nonce : Nonces, lifetime : Sessions \X Nat]
    <3>1. consumptions \in Seq(C)
      BY DEF AndroidTypeOK
    <3>2. consumptions[i] \in C
      <4> HIDE DEF C
      <4> QED
        BY <1>2, <3>1
    <3> QED
      BY <3>2
  <2>2. consumptions[i].lifetime \in Sessions \X Nat
    BY <2>1
  <2> QED
    BY <2>2 DEF AndroidTypeOK
<1>4. AcceptedEarlier'
  BY <1>3 DEF ReplayInv, AcceptedEarlier
<1>5. LedgerRemembers'
  <2> SUFFICES ASSUME ~native, NEW i \in DOMAIN consumptions, NEW s \in Sessions,
                      s = consumptions[i].lifetime[1], host'[s] # NoSession,
                      consumptions[i].lifetime[2] = registrations'[s],
                      Len(consumptions) - i < LedgerSize
               PROVE  \E k \in DOMAIN ledger' :
                        /\ ledger'[k] = <<s, consumptions[i].nonce>>
                        /\ Len(ledger') - k <= Len(consumptions) - i
    BY <1>3 DEF LedgerRemembers
  <2>1. registrations'[s] = registrations[s]
    BY <1>3 DEF ReplayInv, AcceptedEarlier
  <2>2. PICK k \in DOMAIN ledger :
          ledger[k] = <<s, consumptions[i].nonce>> /\ Len(ledger) - k <= Len(consumptions) - i
    BY <2>1 DEF ReplayInv, LedgerRemembers
  <2>3. PICK j \in DOMAIN ledger' :
          ledger'[j] = ledger[k] /\ Len(ledger') - j <= Len(ledger) - k
    BY <2>1, <2>2
  <2>4. ledger'[j] = <<s, consumptions[i].nonce>> /\ Len(ledger') - j <= Len(consumptions) - i
    BY <1>2, <2>2, <2>3
  <2> QED
    BY <2>4
<1>6. OnceWhileRemembered'
  BY DEF ReplayInv, OnceWhileRemembered
<1> QED
  BY <1>1, <1>4, <1>5, <1>6 DEF ReplayInv

\* A new key pushes the others back by one, and out of the ledger beyond its size.
LEMMA AfterTracking ==
  ASSUME AndroidTypeOK, NEW key \in Sessions \X Nonces, ~InLedger(key)
  PROVE  LET kept == Tracked(key) IN
         /\ kept \in Seq(Sessions \X Nonces)
         /\ LedgerSize > 0 => Len(kept) > 0 /\ kept[Len(kept)] = key
         /\ \A k \in DOMAIN ledger : Len(ledger) + 1 - k < LedgerSize =>
              \E j \in DOMAIN kept : kept[j] = ledger[k] /\ Len(kept) - j = Len(ledger) + 1 - k
<1> DEFINE kept == Tracked(key)
<1>1. /\ ledger \in Seq(Sessions \X Nonces) /\ Len(ledger) \in Nat /\ LedgerSize \in Nat
      /\ Len(ledger) <= LedgerSize /\ DOMAIN ledger = 1..Len(ledger)
  BY AndroidBrokerAssumption DEF AndroidTypeOK
<1>2. /\ Len(WithKey(key)) = Len(ledger) + 1
      /\ WithKey(key)[Len(ledger) + 1] = key
      /\ \A k \in DOMAIN ledger : WithKey(key)[k] = ledger[k]
  BY <1>1 DEF WithKey
<1>3. Excess(key) = Len(ledger) + 1 - LedgerSize
  BY <1>1, <1>2 DEF Excess
<1>4. /\ kept \in Seq(Sessions \X Nonces)
      /\ Excess(key) > 0 =>
           /\ Len(kept) = LedgerSize
           /\ \A k \in 1..LedgerSize : kept[k] = WithKey(key)[k + Excess(key)]
      /\ ~(Excess(key) > 0) => kept = WithKey(key)
  BY TrackedLedger
<1> HIDE DEF kept
<1>5. DOMAIN kept = 1..Len(kept) /\ Len(kept) \in Nat
  BY <1>4
<1>6. CASE Excess(key) > 0
  <2>1. LedgerSize > 0 => Len(kept) > 0 /\ kept[Len(kept)] = key
    BY <1>1, <1>2, <1>3, <1>4, <1>6
  <2>2. ASSUME NEW k \in DOMAIN ledger, Len(ledger) + 1 - k < LedgerSize
        PROVE  \E j \in DOMAIN kept : kept[j] = ledger[k] /\ Len(kept) - j = Len(ledger) + 1 - k
    <3>1. k - Excess(key) \in 1..LedgerSize /\ (k - Excess(key)) + Excess(key) = k
      BY <1>1, <1>3, <1>6, <2>2
    <3>2. kept[k - Excess(key)] = WithKey(key)[k]
      BY <1>4, <1>6, <3>1
    <3>3. /\ k - Excess(key) \in DOMAIN kept
          /\ Len(kept) - (k - Excess(key)) = Len(ledger) + 1 - k
      BY <1>1, <1>3, <1>4, <1>5, <1>6, <3>1
    <3> QED
      BY <1>2, <3>2, <3>3
  <2> QED
    BY <1>4, <2>1, <2>2 DEF kept
<1>7. CASE ~(Excess(key) > 0)
  <2>1. LedgerSize > 0 => Len(kept) > 0 /\ kept[Len(kept)] = key
    BY <1>1, <1>2, <1>4, <1>7
  <2>2. \A k \in DOMAIN ledger :
          k \in DOMAIN kept /\ kept[k] = ledger[k] /\ Len(kept) - k = Len(ledger) + 1 - k
    BY <1>1, <1>2, <1>4, <1>5, <1>7
  <2> QED
    BY <1>4, <2>1, <2>2 DEF kept
<1> QED
  BY <1>6, <1>7

LEMMA AcceptManaged ==
  ASSUME AndroidTypeOK, ReplayInv, ~native, NEW a \in AuthorizedAction, NEW current,
         Accept(a, current), UNCHANGED <<native, host, registrations>>
  PROVE  ReplayInv'
<1> DEFINE C == [nonce : Nonces, lifetime : Sessions \X Nat]
           entry == [nonce |-> a.nonce, lifetime |-> <<a.session, registrations[a.session]>>]
<1>1. /\ a.session \in Sessions /\ a.nonce \in Nonces /\ Key(a) = <<a.session, a.nonce>>
      /\ Key(a) \in Sessions \X Nonces /\ registrations[a.session] \in Nat /\ entry \in C
  BY DEF AuthorizedAction, Key, AndroidTypeOK
<1>2. /\ consumptions \in Seq(C) /\ DOMAIN consumptions = 1..Len(consumptions)
      /\ Len(consumptions) \in Nat
      /\ ledger \in Seq(Sessions \X Nonces) /\ Len(ledger) \in Nat /\ Len(ledger) <= LedgerSize
      /\ DOMAIN ledger = 1..Len(ledger) /\ LedgerSize \in Nat
  BY AndroidBrokerAssumption DEF AndroidTypeOK
<1>3. BurntInCore' /\ ~native'
  BY DEF BurntInCore
<1>4. CASE UNCHANGED <<ledger, consumptions>>
  BY <1>3, <1>4 DEF ReplayInv, AcceptedEarlier, LedgerRemembers, OnceWhileRemembered
<1>5. CASE /\ ledger' = Tracked(Key(a)) /\ ~InLedger(Key(a))
           /\ consumptions' = Append(consumptions, entry)
  <2>1. /\ Len(consumptions') = Len(consumptions) + 1
        /\ DOMAIN consumptions' = 1..(Len(consumptions) + 1)
        /\ consumptions'[Len(consumptions) + 1] = entry
        /\ \A i \in DOMAIN consumptions : consumptions'[i] = consumptions[i]
    <3> HIDE DEF C, entry
    <3> QED
      BY <1>1, <1>2, <1>5
  <2>2. AcceptedEarlier'
    BY <1>1, <1>2, <2>1 DEF ReplayInv, AcceptedEarlier
  <2>3. /\ ledger' \in Seq(Sessions \X Nonces)
        /\ LedgerSize > 0 => Len(ledger') > 0 /\ ledger'[Len(ledger')] = Key(a)
        /\ \A k \in DOMAIN ledger : Len(ledger) + 1 - k < LedgerSize =>
             \E j \in DOMAIN ledger' :
               ledger'[j] = ledger[k] /\ Len(ledger') - j = Len(ledger) + 1 - k
    BY <1>1, <1>5, AfterTracking
  <2>4. DOMAIN ledger' = 1..Len(ledger') /\ Len(ledger') \in Nat
    BY <2>3
  <2>5. ASSUME NEW i \in DOMAIN consumptions', NEW s, s = consumptions'[i].lifetime[1],
               host[s] # NoSession, consumptions'[i].lifetime[2] = registrations[s],
               Len(consumptions') - i < LedgerSize
        PROVE  \E k \in DOMAIN ledger' :
                 /\ ledger'[k] = <<s, consumptions'[i].nonce>>
                 /\ Len(ledger') - k <= Len(consumptions') - i
    <3>1. CASE i = Len(consumptions) + 1
      <4>1. LedgerSize > 0
        BY <1>2, <2>1, <2>5, <3>1
      <4>2. /\ Len(ledger') \in DOMAIN ledger' /\ ledger'[Len(ledger')] = Key(a)
            /\ Len(ledger') - Len(ledger') <= Len(consumptions') - i
        BY <1>2, <2>1, <2>3, <2>4, <3>1, <4>1
      <4> QED
        BY <1>1, <2>1, <2>5, <3>1, <4>2
    <3>2. CASE i \in DOMAIN consumptions
      <4>1. consumptions'[i] = consumptions[i] /\ Len(consumptions) - i < LedgerSize
        BY <1>2, <2>1, <2>5, <3>2
      <4>2. PICK k \in DOMAIN ledger :
              ledger[k] = <<s, consumptions[i].nonce>> /\ Len(ledger) - k <= Len(consumptions) - i
        BY <2>5, <3>2, <4>1 DEF ReplayInv, LedgerRemembers
      <4>3. Len(ledger) + 1 - k < LedgerSize
        BY <1>2, <2>1, <2>5, <4>2
      <4>4. PICK j \in DOMAIN ledger' :
              ledger'[j] = ledger[k] /\ Len(ledger') - j = Len(ledger) + 1 - k
        BY <2>3, <4>3
      <4>5. Len(ledger') - j <= Len(consumptions') - i
        BY <1>2, <2>1, <2>4, <3>2, <4>2, <4>4
      <4> QED
        BY <4>1, <4>2, <4>4, <4>5
    <3> QED
      BY <1>2, <2>1, <2>5, <3>1, <3>2
  <2>6. LedgerRemembers'
    BY <2>5 DEF LedgerRemembers
  <2>7. ASSUME NEW i \in DOMAIN consumptions, consumptions[i].nonce = a.nonce,
               consumptions[i].lifetime = entry.lifetime
        PROVE  Len(consumptions) + 1 - i > LedgerSize
    <3> SUFFICES ASSUME Len(consumptions) - i < LedgerSize PROVE FALSE
      BY <1>2
    <3>1. host[a.session] # NoSession
      <4>1. host[a.session] = [tab |-> a.tab, generation |-> a.generation]
        <5>1. consumptions' # consumptions
          BY <1>2, <2>1
        <5>2. IsValid(a, current)
          BY <5>1 DEF Accept
        <5> QED
          BY <5>2 DEF IsValid
      <4>2. [tab |-> a.tab, generation |-> a.generation] \in HostSession
        BY DEF AuthorizedAction, HostSession
      <4> QED
        BY <4>1, <4>2, AndroidBrokerAssumption
    <3>2. PICK k \in DOMAIN ledger : ledger[k] = <<a.session, consumptions[i].nonce>>
      BY <1>1, <2>7, <3>1 DEF ReplayInv, LedgerRemembers
    <3> QED
      BY <1>1, <1>5, <2>7, <3>2 DEF InLedger
  <2>8. OnceWhileRemembered'
    <3> SUFFICES ASSUME NEW i \in DOMAIN consumptions', NEW j \in DOMAIN consumptions',
                        i < j, consumptions'[i].nonce = consumptions'[j].nonce
                 PROVE  /\ ~native'
                        /\ \/ consumptions'[i].lifetime # consumptions'[j].lifetime
                           \/ j - i > LedgerSize
      BY DEF OnceWhileRemembered
    <3>1. i \in DOMAIN consumptions /\ consumptions'[i] = consumptions[i]
      BY <1>2, <2>1
    <3>2. CASE j \in DOMAIN consumptions
      BY <1>3, <2>1, <3>1, <3>2 DEF ReplayInv, OnceWhileRemembered
    <3>3. CASE j = Len(consumptions) + 1
      BY <1>3, <2>1, <2>7, <3>1, <3>3
    <3> QED
      BY <1>2, <2>1, <3>2, <3>3
  <2> QED
    BY <1>3, <2>2, <2>6, <2>8 DEF ReplayInv
<1>6. InLedger(Key(a)) => Tracked(Key(a)) = ledger
  <2>1. InLedger(Key(a)) => WithKey(Key(a)) = ledger /\ ~(Excess(Key(a)) > 0)
    BY <1>2 DEF WithKey, Excess
  <2> QED
    BY <1>1, <2>1, TrackedLedger
<1> QED
  BY <1>4, <1>5, <1>6 DEF Accept
\* The consumptions in hand stay what they are.
HandsKept ==
  \A u \in HostThreads : InSession(u, "consume")' =>
    InSession(u, "consume") /\ call'[u].action = call[u].action

LEMMA EnterKeepsHands ==
  ASSUME AndroidTypeOK, NEW t \in HostThreads, NEW s \in Sessions, NEW tab, NEW g,
         NEW at \in {"register_core", "renew_core", "update_core"}, Enter(t, at, s, tab, g)
  PROVE  HandsKept
<1>1. \A u \in On(s) : u # t => ~InSession(u, "consume")'
  <2> SUFFICES ASSUME NEW u \in On(s), u # t PROVE ~InSession(u, "consume")'
    OBVIOUS
  <2>1. call[u] \in SessionCalls /\ u \in HostThreads
    BY OnSession
  <2>2. call'[u] = [call[u] EXCEPT !.alone = FALSE]
    BY <2>1 DEF Enter
  <2>3. call'[u].at # "consume"
    BY <2>1, <2>2 DEF SessionCalls
  <2> QED
    BY <2>3 DEF InSession
<1>2. ~InSession(t, "consume")'
  BY DEF Enter, InSession
<1>3. \A u \in HostThreads : u # t /\ u \notin On(s) => call'[u] = call[u]
  BY DEF Enter
<1> QED
  BY <1>1, <1>2, <1>3 DEF HandsKept, InSession

LEMMA AnswerKeepsHands ==
  ASSUME AndroidTypeOK, NEW t \in HostThreads, call[t] # NoCall,
         call[t].at \in {"register_core", "renew_core", "update_core"},
         NEW next \in {"register", "renew", "update"}, NEW core, CoreAnswers(t, next, core)
  PROVE  HandsKept
<1>1. call[t] \in SessionCalls
  BY AtSession
<1>2. call'[t].at = next
  BY <1>1 DEF CoreAnswers, AndroidTypeOK, SessionCalls
<1>3. \A u \in HostThreads : u # t => call'[u] = call[u]
  BY DEF CoreAnswers, AndroidTypeOK
<1> QED
  BY <1>2, <1>3 DEF HandsKept, InSession

LEMMA LeaveKeepsHands ==
  ASSUME AndroidTypeOK, NEW t \in HostThreads, Leave(t)
  PROVE  HandsKept
BY DEF Leave, HandsKept, InSession, AndroidTypeOK

LEMMA EndKeepsHands ==
  ASSUME AndroidTypeOK, NEW s \in Sessions, EndHostSession(s)
  PROVE  HandsKept
<1>1. \A u \in On(s) : ~InSession(u, "consume")'
  <2> SUFFICES ASSUME NEW u \in On(s) PROVE ~InSession(u, "consume")'
    OBVIOUS
  <2>1. call[u] \in SessionCalls /\ u \in HostThreads
    BY OnSession
  <2>2. call'[u] = [call[u] EXCEPT !.alone = FALSE]
    BY <2>1 DEF EndHostSession
  <2>3. call'[u].at # "consume"
    BY <2>1, <2>2 DEF SessionCalls
  <2> QED
    BY <2>3 DEF InSession
<1>2. \A u \in HostThreads : u \notin On(s) => call'[u] = call[u]
  BY DEF EndHostSession
<1> QED
  BY <1>1, <1>2 DEF HandsKept, InSession

\* Where the host's sessions and their keys stay as they are.
LEMMA ReplayStays ==
  ASSUME AndroidTypeOK, ReplayInv, HandsKept,
         UNCHANGED <<native, consumptions, ledger, registrations>>,
         consumed_nonces \subseteq consumed_nonces',
         \A s \in Sessions : host'[s] # NoSession => host[s] # NoSession
  PROVE  ReplayInv'
<1>1. \A k \in DOMAIN ledger : k \in DOMAIN ledger' /\ ledger'[k] = ledger[k]
                               /\ Len(ledger') - k <= Len(ledger) - k
  BY DEF AndroidTypeOK
<1>2. \A s \in Sessions : registrations[s] <= registrations'[s] /\ registrations'[s] \in Nat
  BY DEF AndroidTypeOK
<1>3. Len(ledger') \in Nat /\ ledger' \in Seq(Sessions \X Nonces)
  BY DEF AndroidTypeOK
<1> QED
  BY <1>1, <1>2, <1>3, ReplayFrame DEF HandsKept

LEMMA RegisterReplay ==
  ASSUME AndroidTypeOK, ReplayInv, NEW t \in HostThreads, Register(t)
  PROVE  ReplayInv'
<1>1. HandsKept
  BY LeaveKeepsHands DEF Register
<1>2. call[t].session \in Sessions
  BY AtSession DEF Register
<1>3. UNCHANGED <<native, consumptions, ledger, consumed_nonces>>
  BY DEF Register, coreVars
<1>4. \A s \in Sessions :
        /\ registrations[s] <= registrations'[s] /\ registrations'[s] \in Nat
        /\ registrations'[s] = registrations[s] => host'[s] = host[s]
  BY <1>2 DEF Register, AndroidTypeOK
<1>5. \A k \in DOMAIN ledger : k \in DOMAIN ledger' /\ ledger'[k] = ledger[k]
                               /\ Len(ledger') - k <= Len(ledger) - k
  BY <1>3 DEF AndroidTypeOK
<1>6. Len(ledger') \in Nat /\ ledger' \in Seq(Sessions \X Nonces)
  BY <1>3 DEF AndroidTypeOK
<1> QED
  BY <1>1, <1>3, <1>4, <1>5, <1>6, ReplayFrame DEF HandsKept

LEMMA DestroyReplay ==
  ASSUME AndroidTypeOK, ReplayInv, NEW s \in Sessions, DestroySession(s)
  PROVE  ReplayInv'
<1>1. HandsKept
  BY EndKeepsHands DEF DestroySession
<1>2. UNCHANGED <<native, consumptions, registrations, consumed_nonces>>
  BY DEF DestroySession, EndHostSession, RemoveSession, coreVars
<1>3. /\ ledger' \in Seq(Sessions \X Nonces)
      /\ \A k \in 1..Len(ledger) : ledger[k][1] # s =>
           \E j \in 1..Len(ledger') : ledger'[j] = ledger[k] /\ Len(ledger') - j <= Len(ledger) - k
  BY WithoutKeepsOthers DEF DestroySession, EndHostSession, AndroidTypeOK
<1>4. /\ DOMAIN ledger = 1..Len(ledger) /\ DOMAIN ledger' = 1..Len(ledger')
      /\ Len(ledger') \in Nat
  BY <1>3 DEF AndroidTypeOK
<1>5. \A x \in Sessions : host'[x] # NoSession => x # s /\ host[x] # NoSession
  BY DEF DestroySession, EndHostSession, AndroidTypeOK
<1>6. \A x \in Sessions : registrations[x] <= registrations'[x] /\ registrations'[x] \in Nat
  BY <1>2 DEF AndroidTypeOK
<1>7. ASSUME NEW x \in Sessions, host'[x] # NoSession
      PROVE  /\ host[x] # NoSession
             /\ \A k \in DOMAIN ledger : ledger[k][1] = x =>
                  \E j \in DOMAIN ledger' :
                    ledger'[j] = ledger[k] /\ Len(ledger') - j <= Len(ledger) - k
  BY <1>3, <1>4, <1>5, <1>7
<1> QED
  BY <1>1, <1>2, <1>3, <1>4, <1>6, <1>7, ReplayFrame DEF HandsKept

LEMMA ConsumeCoreReplay ==
  ASSUME AndroidTypeOK, ReplayInv, NEW t \in HostThreads, NEW a \in authorized,
         NEW g \in Generations, ConsumeCore(t, a, g)
  PROVE  ReplayInv'
<1>1. /\ native /\ call[t] = NoCall /\ a.nonce \notin consumed_nonces
      /\ consumed_nonces' = consumed_nonces \cup {a.nonce}
      /\ UNCHANGED <<native, host, ledger, registrations, consumptions>>
  BY DEF ConsumeCore, ConsumeNonce, MayConsume, hostVars
<1>2. /\ call'[t].action = a
      /\ \A u \in HostThreads : u # t => call'[u] = call[u]
  BY DEF ConsumeCore, AndroidTypeOK
<1>3. \A u \in HostThreads : u # t /\ InSession(u, "consume")' =>
        /\ InSession(u, "consume") /\ call'[u].action = call[u].action
        /\ call[u].action.nonce \in consumed_nonces
  BY <1>1, <1>2 DEF InSession, ReplayInv, BurntInCore
<1>4. \A i \in DOMAIN consumptions : consumptions[i].nonce \in consumed_nonces
  BY <1>1 DEF ReplayInv, BurntInCore
<1>5. BurntInCore'
  <2>1. ASSUME NEW u \in HostThreads, InSession(u, "consume")'
        PROVE  /\ call'[u].action.nonce \in consumed_nonces'
               /\ \A i \in DOMAIN consumptions : consumptions[i].nonce # call'[u].action.nonce
               /\ \A w \in HostThreads :
                    InSession(w, "consume")' /\ call'[w].action.nonce = call'[u].action.nonce
                      => w = u
    <3>1. CASE u = t
      BY <1>1, <1>2, <1>3, <1>4, <3>1
    <3>2. CASE u # t
      BY <1>1, <1>2, <1>3, <2>1, <3>2 DEF ReplayInv, BurntInCore
    <3> QED
      BY <3>1, <3>2
  <2> QED
    BY <1>1, <1>4, <2>1 DEF BurntInCore
<1> QED
  BY <1>1, <1>5 DEF ReplayInv, AcceptedEarlier, LedgerRemembers, OnceWhileRemembered

LEMMA ConsumeHostReplay ==
  ASSUME AndroidTypeOK, ReplayInv, NEW t \in HostThreads, ConsumeHost(t)
  PROVE  ReplayInv'
<1> DEFINE C == [nonce : Nonces, lifetime : Sessions \X Nat]
           a == call[t].action
           entry == [nonce |-> a.nonce, lifetime |-> <<a.session, registrations[a.session]>>]
<1>1. InSession(t, "consume")
  BY DEF ConsumeHost, InSession
<1>2. a \in AuthorizedAction
  BY <1>1, ActionInHand
<1>3. /\ Accept(a, call[t].generation) /\ Leave(t)
      /\ UNCHANGED <<native, host, registrations, consumed_nonces>>
  BY DEF ConsumeHost, coreVars
<1>4. CASE ~native
  BY <1>2, <1>3, <1>4, AcceptManaged
<1>5. CASE native
  <2>1. /\ a.nonce \in consumed_nonces
        /\ \A i \in DOMAIN consumptions : consumptions[i].nonce # a.nonce
        /\ \A u \in HostThreads \ {t} : InSession(u, "consume") => call[u].action.nonce # a.nonce
    BY <1>1, <1>5 DEF ReplayInv, BurntInCore
  <2>2. ~InSession(t, "consume")' /\ \A u \in HostThreads \ {t} : call'[u] = call[u]
    BY <1>3 DEF Leave, InSession, AndroidTypeOK
  <2>3. /\ a.session \in Sessions /\ registrations[a.session] \in Nat /\ entry \in C
        /\ consumptions \in Seq(C) /\ DOMAIN consumptions = 1..Len(consumptions)
        /\ Len(consumptions) \in Nat
    BY <1>2 DEF AuthorizedAction, AndroidTypeOK
  <2>4. \/ consumptions' = consumptions
        \/ /\ Len(consumptions') = Len(consumptions) + 1
           /\ DOMAIN consumptions' = 1..(Len(consumptions) + 1)
           /\ consumptions'[Len(consumptions) + 1] = entry
           /\ \A i \in DOMAIN consumptions : consumptions'[i] = consumptions[i]
    <3>1. consumptions' = consumptions \/ consumptions' = Append(consumptions, entry)
      BY <1>3 DEF Accept
    <3> HIDE DEF C, entry
    <3> QED
      BY <2>3, <3>1
  <2>5. \A i \in DOMAIN consumptions' :
          \/ i \in DOMAIN consumptions /\ consumptions'[i] = consumptions[i]
          \/ /\ consumptions'[i].nonce = a.nonce /\ i = Len(consumptions) + 1
             /\ consumptions'[i].lifetime[1] = a.session
             /\ consumptions'[i].lifetime[2] = registrations[a.session]
    BY <2>3, <2>4
  <2> HIDE DEF C, entry, a
  <2>6. BurntInCore'
    <3>1. \A i \in DOMAIN consumptions' : consumptions'[i].nonce \in consumed_nonces
      BY <1>5, <2>1, <2>5 DEF ReplayInv, BurntInCore
    <3>2. ASSUME NEW u \in HostThreads, InSession(u, "consume")'
          PROVE  /\ u # t /\ InSession(u, "consume") /\ call'[u] = call[u]
                 /\ call[u].action.nonce \in consumed_nonces
                 /\ \A i \in DOMAIN consumptions' : consumptions'[i].nonce # call[u].action.nonce
      <4>1. u # t /\ InSession(u, "consume") /\ call'[u] = call[u]
        BY <2>2, <3>2 DEF InSession
      <4> QED
        BY <1>5, <2>1, <2>5, <4>1 DEF ReplayInv, BurntInCore
    <3>3. ASSUME NEW u \in HostThreads, NEW w \in HostThreads, InSession(u, "consume")',
                 InSession(w, "consume")', call'[w].action.nonce = call'[u].action.nonce
          PROVE  w = u
      BY <1>5, <3>2, <3>3 DEF ReplayInv, BurntInCore
    <3> QED
      BY <1>3, <3>1, <3>2, <3>3 DEF BurntInCore
  <2>7. AcceptedEarlier'
    BY <1>3, <2>3, <2>5 DEF ReplayInv, AcceptedEarlier
  <2>8. OnceWhileRemembered'
    BY <1>3, <1>5, <2>1, <2>3, <2>5 DEF ReplayInv, OnceWhileRemembered
  <2> QED
    BY <1>3, <1>5, <2>6, <2>7, <2>8 DEF ReplayInv, LedgerRemembers
<1> QED
  BY <1>4, <1>5

LEMMA ReplayStep ==
  ASSUME AndroidTypeOK, ReplayInv, [AndroidNext]_androidVars
  PROVE  ReplayInv'
<1>1. ASSUME NEW t \in HostThreads, NEW s \in Sessions, NEW tab \in Tabs,
             RegisterSession(t, s, tab) \/ RenewSession(t, s, tab)
             \/ \E g \in Generations : UpdateDocumentGeneration(t, s, tab, g)
      PROVE  ReplayInv'
  <2>1. HandsKept
    BY <1>1, EnterKeepsHands DEF RegisterSession, RenewSession, UpdateDocumentGeneration
  <2> QED
    BY <1>1, <2>1, ReplayStays
    DEF RegisterSession, RenewSession, UpdateDocumentGeneration, hostVars, coreVars
<1>2. ASSUME NEW t \in HostThreads, RegisterCore(t) \/ RenewCore(t)
      PROVE  ReplayInv'
  <2>1. HandsKept
    BY <1>2, AnswerKeepsHands DEF RegisterCore, RenewCore
  <2>2. consumed_nonces' = consumed_nonces
    BY <1>2 DEF RegisterCore, RenewCore, CoreGate, CreateSession, coreVars
  <2> QED
    BY <1>2, <2>1, <2>2, ReplayStays DEF RegisterCore, RenewCore, hostVars
<1>3. ASSUME NEW t \in HostThreads, UpdateCore(t) PROVE ReplayInv'
  <2>1. HandsKept
    BY <1>3, AnswerKeepsHands DEF UpdateCore
  <2>2. consumed_nonces' = consumed_nonces
    BY <1>3 DEF UpdateCore, AdvanceGeneration, coreVars
  <2> QED
    BY <1>3, <2>1, <2>2, ReplayStays DEF UpdateCore, hostVars
<1>4. ASSUME NEW t \in HostThreads, Renew(t) PROVE ReplayInv'
  BY <1>4, LeaveKeepsHands, ReplayStays DEF Renew, hostVars, coreVars
<1>5. ASSUME NEW t \in HostThreads, CommitGeneration(t) PROVE ReplayInv'
  <2>1. \A s \in Sessions : host'[s] # NoSession => host[s] # NoSession
    BY <1>5 DEF CommitGeneration, OpenFor, AndroidTypeOK
  <2> QED
    BY <1>5, <2>1, LeaveKeepsHands, ReplayStays DEF CommitGeneration, coreVars
<1>6. ASSUME NEW s \in Sessions, NEW tab \in Tabs, NEW g \in Generations,
             EvaluateNavigation(s, tab, g)
      PROVE  ReplayInv'
  <2>1. HandsKept
    BY <1>6 DEF EvaluateNavigation, HandsKept, InSession
  <2> QED
    BY <1>6, <2>1, ReplayStays DEF EvaluateNavigation, hostVars, coreVars
<1>7. ASSUME NEW a \in authorized, NEW g \in Generations, ConsumeManaged(a, g)
      PROVE  ReplayInv'
  <2>1. a \in AuthorizedAction
    BY DEF AndroidTypeOK
  <2> QED
    BY <1>7, <2>1, AcceptManaged DEF ConsumeManaged
<1>8. CASE AndroidTick \/ UNCHANGED androidVars
  <2>1. HandsKept
    BY <1>8 DEF AndroidTick, androidVars, HandsKept, InSession
  <2> QED
    BY <1>8, <2>1, ReplayStays DEF AndroidTick, Tick, androidVars, hostVars, coreVars
<1> QED
  BY <1>1, <1>2, <1>3, <1>4, <1>5, <1>6, <1>7, <1>8, RegisterReplay, DestroyReplay,
     ConsumeCoreReplay, ConsumeHostReplay DEF AndroidNext
-----------------------------------------------------------------------------
(* The specification.                                                      *)

LEMMA ReplayInit == AndroidInit => ReplayInv
BY DEF AndroidInit, CoreInit, ReplayInv, BurntInCore, InSession, AcceptedEarlier,
       LedgerRemembers, OnceWhileRemembered

LEMMA AgreeInit == AndroidInit => AgreeInv
BY DEF AndroidInit, CoreInit, AgreeInv, Agreeing, AloneMeansAlone, UnmixedIsAlone, CallsKnow,
       UnmixedAgrees, On, Agree, Pool

LEMMA AgreeingEnds ==
  ASSUME AndroidTypeOK, AgreeInv
  PROVE  EndsAgree
BY DEF AgreeInv, Agreeing, UnmixedAgrees, Agree, EndsAgree

LEMMA RoomForAll ==
  ASSUME Cardinality(Sessions) <= MaxSessions
  PROVE  RoomInCore
<1> SUFFICES ASSUME Pool # Sessions PROVE Cardinality(Pool) < MaxSessions
  BY DEF RoomInCore
<1>1. PICK s \in Sessions : s \notin Pool
  BY DEF Pool
<1>2. IsFiniteSet(Sessions) /\ Pool \subseteq Sessions \ {s} /\ IsFiniteSet(Sessions \ {s})
  BY <1>1, AndroidBrokerAssumption, FS_RemoveElement DEF Pool
<1>3. /\ Cardinality(Pool) <= Cardinality(Sessions \ {s}) /\ Cardinality(Pool) \in Nat
      /\ Cardinality(Sessions \ {s}) = Cardinality(Sessions) - 1 /\ Cardinality(Sessions) \in Nat
  BY <1>2, FS_Subset, FS_RemoveElement, FS_CardinalityType
<1> QED
  BY <1>3, ContextBrokerAssumption

\* An Android build with the native core never accepts an authorization twice, whatever
\* thread brings it and whenever the host's section follows the core's; one without it
\* accepts a nonce again in the same session only after LedgerSize others
\* (AndroidBroker.consumeNavigation and trackConsumedNonce).
THEOREM AcceptedOnce == AndroidSpec => []OnceWhileRemembered
<1> DEFINE Inv == AndroidTypeOK /\ ReplayInv
<1>1. AndroidInit => Inv
  BY AndroidTypeInit, ReplayInit
<1>2. Inv /\ [AndroidNext]_androidVars => Inv'
  BY AndroidTypeStep, ReplayStep
<1>3. Inv => OnceWhileRemembered
  BY DEF ReplayInv
<1> QED
  BY <1>1, <1>2, <1>3, PTL DEF AndroidSpec

\* As long as the core's pool never runs out of room, the host's sessions and the core's
\* agree whenever the calls of a session kept out of each other's way, although every call
\* of AndroidBroker but destroySession leaves its lock for the core's answer.
THEOREM AgreesWithRoom == AndroidSpec /\ []RoomInCore => []AndroidKept
<1> DEFINE Inv == AndroidTypeOK /\ ReplayInv /\ AgreeInv
<1>1. AndroidInit => Inv
  BY AndroidTypeInit, ReplayInit, AgreeInit
<1>2. Inv /\ RoomInCore /\ [AndroidNext]_androidVars => Inv'
  BY AndroidTypeStep, ReplayStep, AgreeStep
<1>3. Inv => AndroidKept
  BY AgreeingEnds DEF ReplayInv, AndroidKept
<1> QED
  BY <1>1, <1>2, <1>3, PTL DEF AndroidSpec

\* A host with no more session ids than the core has places (MAX_SESSIONS) never finds
\* the pool full: it keeps one truth with the core.
THEOREM AndroidBrokerKept ==
  ASSUME Cardinality(Sessions) <= MaxSessions
  PROVE  AndroidSpec => []AndroidKept
<1>1. RoomInCore
  BY RoomForAll
<1>2. []RoomInCore
  BY <1>1, PTL
<1> QED
  BY <1>2, AgreesWithRoom, PTL
=============================================================================
