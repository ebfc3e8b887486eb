--------------------------- MODULE WindowsBroker ---------------------------
(***************************************************************************)
(* The broker of a Windows window (Broker/BrowserPolicyBroker.cs): the     *)
(* host's sessions behind _sessionLock and its replay ledger behind        *)
(* _nonceLock, in front of the ContextBroker of the native core.  Unlike   *)
(* the Android host it keeps _sessionLock over its core calls, except in   *)
(* DestroySession.  Each lock section is an action, and so is the look at  *)
(* the KillSwitch before it.  A build without the native core has the      *)
(* host's side alone.                                                      *)
(*                                                                         *)
(* A core call is one action; an approval and its request are one          *)
(* evaluation; targets, scopes, the address rules and the audit log are    *)
(* left out: they decide, and change nothing modelled here.  The core may  *)
(* outlive the broker, since windows share the bridge to it.               *)
(***************************************************************************)
EXTENDS ContextBroker, KillSwitch

CONSTANTS
  WinThreads,       \* threads that call the broker
  NoCall,           \* the thread is in no call
  SessionTtl,       \* NativeSessionTtlSeconds, also ActionLifetime
  LedgerSize,       \* MaxConsumedNonces of BrowserPolicyBroker.cs
  MaxHostLifetimes  \* bound: times the host registers one session id

HostSession == [tab : Tabs, generation : Generations]

Authorization ==
  [session : Sessions, tab : Tabs, generation : Generations, nonce : Nonces,
   expires_at : 0..(MaxTime + SessionTtl)]

BrokerCalls ==
  [at : {"destroy", "forget"}, session : Sessions] \cup [at : {"consume"}, action : Authorization]

ASSUME WindowsBrokerAssumption ==
  /\ SessionTtl \in Nat /\ LedgerSize \in Nat
  /\ IsFiniteSet(Sessions) /\ IsFiniteSet(WinThreads)
  /\ NoSession \notin HostSession /\ NoCall \notin BrokerCalls

VARIABLES
  native,        \* _nativePolicyCoreRequired, with a bridge
  host,          \* _sessions: session id -> its context, or NoSession
  consumed,      \* _consumedNonces: <<session, nonce>>
  closing,       \* Dispose: "open", "flagged", "cleared", "closed"
  authorized,    \* the authorizations the tabs hold
  issued,        \* those the core would still accept
  call,          \* per thread: the call under way
  registrations, \* history: how often the host registered each id
  overtaken,     \* history: lifetimes that began before the one before was ended
  accepted,      \* history: consumptions answered true
  late           \* history: how many of them came after Engage

brokerVars == <<host, consumed, closing, registrations, overtaken>>
brokerOnly == <<coreVars, native, brokerVars, authorized, issued, call, accepted, late>>
windowsVars == <<switchVars, brokerOnly>>

WindowsTypeOK ==
  /\ CoreTypeOK /\ SwitchTypeOK /\ native \in BOOLEAN
  /\ host \in [Sessions -> HostSession \cup {NoSession}]
  /\ consumed \subseteq Sessions \X Nonces
  /\ IsFiniteSet(consumed) /\ Cardinality(consumed) <= LedgerSize
  /\ closing \in {"open", "flagged", "cleared", "closed"}
  /\ authorized \subseteq Authorization /\ issued \subseteq authorized
  /\ call \in [WinThreads -> BrokerCalls \cup {NoCall}]
  /\ registrations \in [Sessions -> Nat] /\ overtaken \subseteq Sessions \X Nat
  /\ accepted \subseteq [nonce : Nonces, lifetime : Sessions \X Nat, again : BOOLEAN]
  /\ late \in Nat

WindowsInit ==
  /\ CoreInit /\ SwitchInit
  /\ native \in BOOLEAN
  /\ host = [s \in Sessions |-> NoSession]
  /\ consumed = {} /\ closing = "open"
  /\ authorized = {} /\ issued = {}
  /\ call = [t \in WinThreads |-> NoCall]
  /\ registrations = [s \in Sessions |-> 0] /\ overtaken = {}
  /\ accepted = {} /\ late = 0

At(t, at) == call[t] # NoCall /\ call[t].at = at
Begin(t, c) == call[t] = NoCall /\ call' = [call EXCEPT ![t] = c]
End(t) == call' = [call EXCEPT ![t] = NoCall]

\* Destroying s: its core call is made, its nonces are not yet forgotten.
Ending(s) == \E t \in WinThreads : (At(t, "destroy") \/ At(t, "forget")) /\ call[t].session = s

-----------------------------------------------------------------------------

\* RegisterSession. Dispose sets its flag outside of the lock: until it has
\* taken the lock itself, a registration may or may not see it.
RegisterSession(s, tab) ==
  /\ closing \in {"open", "flagged"}
  /\ host[s] = NoSession /\ Cardinality({x \in Sessions : host[x] # NoSession}) < MaxSessions
  /\ registrations[s] < MaxHostLifetimes
  /\ IF native THEN CreateSession(s, tab, 0, SessionTtl) ELSE UNCHANGED coreVars
  /\ IF native /\ sessions'[s] = NoSession
     THEN UNCHANGED <<host, registrations, overtaken>>
     ELSE /\ host' = [host EXCEPT ![s] = [tab |-> tab, generation |-> 0]]
          /\ registrations' = [registrations EXCEPT ![s] = @ + 1]
          /\ overtaken' = IF Ending(s) THEN overtaken \cup {<<s, registrations'[s]>>} ELSE overtaken
  /\ UNCHANGED <<switchVars, native, consumed, closing, authorized, issued, call, accepted, late>>

UpdateDocumentGeneration(s, tab, generation) ==
  /\ host[s] # NoSession /\ host[s].tab = tab
  /\ generation = host[s].generation + 1
  /\ IF native
     THEN AdvanceGeneration(s, tab, generation) /\ issued' = {a \in issued : a.session # s}
     ELSE UNCHANGED <<coreVars, issued>>
  /\ host' = [host EXCEPT ![s].generation = generation]
  /\ UNCHANGED <<switchVars, native, consumed, closing, registrations, overtaken, authorized,
                 call, accepted, late>>

(* DestroySession: the core first, without the lock, then the two sections. *)
(* HostWebView.Dispose calls it once for the session it registered.         *)

EndInHost(t, s) ==
  /\ host' = [host EXCEPT ![s] = NoSession]
  /\ call' = [call EXCEPT ![t] = [at |-> "forget", session |-> s]]

EndInCore(s) ==
  IF native
  THEN RemoveSession(s) /\ issued' = {a \in issued : a.session # s}
  ELSE UNCHANGED <<coreVars, issued>>

\* Mistake: ends the session in the host first, and then in the core.
DestroyHostFirst(t, s) ==
  /\ \/ /\ host[s] # NoSession /\ ~Ending(s) /\ call[t] = NoCall
        /\ host' = [host EXCEPT ![s] = NoSession]
        /\ call' = [call EXCEPT ![t] = [at |-> "destroy", session |-> s]]
        /\ UNCHANGED <<coreVars, issued>>
     \/ /\ At(t, "destroy") /\ call[t].session = s
        /\ EndInCore(s)
        /\ call' = [call EXCEPT ![t] = [at |-> "forget", session |-> s]]
        /\ UNCHANGED host
  /\ UNCHANGED <<switchVars, native, consumed, closing, registrations, overtaken, authorized,
                 accepted, late>>

DestroySession(t, s) ==
  /\ host[s] # NoSession \/ closing \in {"cleared", "closed"}
  /\ ~Ending(s)
  /\ Begin(t, [at |-> "destroy", session |-> s])
  /\ EndInCore(s)
  /\ UNCHANGED <<switchVars, native, brokerVars, authorized, accepted, late>>

DestroyHostSession(t) ==
  /\ At(t, "destroy")
  /\ EndInHost(t, call[t].session)
  /\ UNCHANGED <<coreVars, switchVars, native, consumed, closing, registrations, overtaken,
                 authorized, issued, accepted, late>>

ForgetNonces(t) ==
  /\ At(t, "forget")
  /\ consumed' = {key \in consumed : key[1] # call[t].session}
  /\ End(t)
  /\ UNCHANGED <<coreVars, switchVars, native, host, closing, registrations, overtaken,
                 authorized, issued, accepted, late>>

-----------------------------------------------------------------------------

\* EvaluateNavigation, RequestNavigationConfirmation and the approval it may ask
\* for: the core judges with its session, a build without it with the host's. One
\* step with the look at the switch: what is issued after Engage cannot be consumed.
EvaluateNavigation(s, tab, generation) ==
  /\ ~engaged
  /\ IF native
     THEN s \in Pool /\ ~IsExpired(s) /\ sessions[s].tab = tab /\ sessions[s].generation = generation
     ELSE host[s] = [tab |-> tab, generation |-> generation]
  /\ \E n \in Nonces \ {a.nonce : a \in authorized} :
       LET a == [session |-> s, tab |-> tab, generation |-> generation, nonce |-> n,
                 expires_at |-> now + SessionTtl]
       IN /\ authorized' = authorized \cup {a}
          /\ issued' = IF native THEN issued \cup {a} ELSE issued
  /\ UNCHANGED <<coreVars, switchVars, native, brokerVars, call, accepted, late>>

\* IsValidInCurrentSession. A caller whose document has moved on from the
\* generation of the action is refused without a change.
IsValidInCurrentSession(a) ==
  /\ host[a.session] = [tab |-> a.tab, generation |-> a.generation]
  /\ a.expires_at > now

\* Mistake: leaves the switch to the evaluation before.
ConsumeUnswitched(t, a) ==
  /\ Begin(t, [at |-> "consume", action |-> a])
  /\ UNCHANGED <<coreVars, switchVars, native, brokerVars, authorized, issued, accepted, late>>

TryConsumeNavigation(t, a) ==
  /\ ~engaged
  /\ Begin(t, [at |-> "consume", action |-> a])
  /\ UNCHANGED <<coreVars, switchVars, native, brokerVars, authorized, issued, accepted, late>>

\* TryRecordConsumedNonce: refused when it is there, and when the ledger is
\* full; never makes room.
MayRecord(key) == key \notin consumed /\ Cardinality(consumed) < LedgerSize

\* One section of _sessionLock: validity, the core's consumption, the record.
\* A nonce the core consumed and the host cannot record is spent.
ConsumeSection(t) ==
  LET a == call[t].action
      key == <<a.session, a.nonce>>
      valid == IsValidInCurrentSession(a)
      core == a \in issued /\ ValidateAction(a) /\ MayConsume(a.nonce)
      taken == valid /\ (native => core)
  IN
  /\ At(t, "consume")
  /\ IF native /\ taken THEN ConsumeNonce(a.nonce) ELSE UNCHANGED coreVars
  /\ IF taken /\ MayRecord(key)
     THEN /\ consumed' = consumed \cup {key}
          /\ accepted' = accepted \cup
               {[nonce |-> a.nonce, lifetime |-> <<a.session, registrations[a.session]>>,
                 again |-> \E x \in accepted : /\ x.nonce = a.nonce
                                               /\ native \/ x.lifetime = <<a.session, registrations[a.session]>>]}
          /\ late' = IF engaged THEN late + 1 ELSE late
     ELSE UNCHANGED <<consumed, accepted, late>>
  /\ End(t)
  /\ UNCHANGED <<switchVars, native, host, closing, registrations, overtaken, authorized, issued>>

(* Dispose: the flag, then a section of each lock. *)

Dispose ==
  /\ closing # "closed"
  /\ closing' = CASE closing = "open" -> "flagged" [] closing = "flagged" -> "cleared"
                  [] closing = "cleared" -> "closed"
  /\ host' = IF closing = "flagged" THEN [s \in Sessions |-> NoSession] ELSE host
  /\ consumed' = IF closing = "cleared" THEN {} ELSE consumed
  /\ UNCHANGED <<coreVars, switchVars, native, registrations, overtaken, authorized, issued,
                 call, accepted, late>>

WindowsTick ==
  Tick /\ UNCHANGED <<switchVars, native, brokerVars, authorized, issued, call, accepted, late>>

BrokerNext ==
  \/ \E s \in Sessions, tab \in Tabs :
       \/ RegisterSession(s, tab)
       \/ \E g \in Generations :
            \/ UpdateDocumentGeneration(s, tab, g)
            \/ EvaluateNavigation(s, tab, g)
  \/ \E t \in WinThreads, s \in Sessions : DestroySession(t, s)
  \/ \E t \in WinThreads : DestroyHostSession(t) \/ ForgetNonces(t) \/ ConsumeSection(t)
  \/ \E t \in WinThreads, a \in authorized : TryConsumeNavigation(t, a)
  \/ Dispose
  \/ WindowsTick

\* The broker and the switch of a process, in any order.
WindowsNext == BrokerNext \/ (SwitchNext /\ UNCHANGED brokerOnly)

WindowsSpec == WindowsInit /\ [][WindowsNext]_windowsVars

-----------------------------------------------------------------------------

\* With the native core a nonce is accepted once, for good. Without it the host's
\* ledger is all there is, and it is emptied of a session's nonces when that
\* ends: a nonce is accepted once in a lifetime, unless the clean-up of the
\* lifetime before came after its start (BrowserPolicyBroker.cs:188-201).
AcceptedOnce == \A x \in accepted : x.again => ~native /\ x.lifetime \in overtaken

\* While the broker is open, host and core have the same sessions at the same
\* generation, but for those a DestroySession is about to take from the host.
SessionsAgree ==
  native /\ closing = "open" =>
    \A s \in Sessions :
      \/ \E t \in WinThreads : At(t, "destroy") /\ call[t].session = s
      \/ /\ (host[s] = NoSession) = (s \notin Pool)
         /\ s \in Pool => host[s] = [tab |-> sessions[s].tab,
                                     generation |-> sessions[s].generation]

\* After Engage, only the calls that had passed the switch still get through.
SwitchHolds == late <= Cardinality(WinThreads)

\* What the Windows host promises by itself: replay protection through session
\* ends and re-use of their ids, one truth with the core, and an emergency
\* stop that holds, for calls to come and for what is running.
WindowsKept == AcceptedOnce /\ SessionsAgree /\ SwitchHolds /\ EverythingStopped
=============================================================================
