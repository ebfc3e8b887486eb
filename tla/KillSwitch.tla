----------------------------- MODULE KillSwitch -----------------------------
(***************************************************************************)
(* The emergency switch all windows share (Broker/KillSwitch.cs).  It is   *)
(* engaged once and stays so until the process ends.  Brokers look at it   *)
(* at the start of every call; what is already running - the traffic of a  *)
(* page, its downloads - is stopped by the reactions that tabs register.   *)
(* A reaction that throws is logged and counts as run.                     *)
(***************************************************************************)
EXTENDS Naturals

CONSTANTS
  SwitchThreads,   \* threads that engage the switch or register a reaction
  Reactions,       \* one per wiring of a WebView, registered once
  Idle             \* the thread is in no call of the switch

VARIABLES
  engaged,         \* _engaged
  reaction,        \* per reaction: "new", "added" to the set, "held" by a tab, "gone"
  ran,             \* the reactions that were run
  switch_call      \* per thread: the call under way

switchVars == <<engaged, reaction, ran, switch_call>>

SwitchCalls ==
  [at : {"look"}, reaction : Reactions] \cup [at : {"engage", "snapshot"}]
    \cup [at : {"run"}, left : SUBSET Reactions]

ASSUME KillSwitchAssumption == Idle \notin SwitchCalls

SwitchTypeOK ==
  /\ engaged \in BOOLEAN
  /\ reaction \in [Reactions -> {"new", "added", "held", "gone"}]
  /\ ran \subseteq Reactions
  /\ switch_call \in [SwitchThreads -> SwitchCalls \cup {Idle}]

SwitchInit ==
  /\ engaged = FALSE
  /\ reaction = [r \in Reactions |-> "new"]
  /\ ran = {}
  /\ switch_call = [t \in SwitchThreads |-> Idle]

\* _processReactions
Registered == {r \in Reactions : reaction[r] \in {"added", "held"}}

In(t, at) == switch_call[t] # Idle /\ switch_call[t].at = at
MoveTo(t, c) == switch_call' = [switch_call EXCEPT ![t] = c]

-----------------------------------------------------------------------------
(* RegisterProcessReaction: the reaction is added under _reactionLock, the  *)
(* flag is read after it; the tab holds the handle that is returned.        *)

RegisterProcessReaction(t, r) ==
  /\ switch_call[t] = Idle /\ reaction[r] = "new"
  /\ reaction' = [reaction EXCEPT ![r] = "added"]
  /\ MoveTo(t, [at |-> "look", reaction |-> r])
  /\ UNCHANGED <<engaged, ran>>

LookAtFlag(t) ==
  /\ In(t, "look")
  /\ LET r == switch_call[t].reaction IN
       /\ ran' = IF engaged THEN ran \cup {r} ELSE ran
       /\ reaction' = [reaction EXCEPT ![r] = "held"]
  /\ MoveTo(t, Idle)
  /\ UNCHANGED engaged

\* Registration.Dispose, when the tab is unwired.
Unregister(r) ==
  /\ reaction[r] = "held"
  /\ reaction' = [reaction EXCEPT ![r] = "gone"]
  /\ UNCHANGED <<engaged, ran, switch_call>>

(* Engage: two calls may both find the flag down. *)

Engage(t) ==
  /\ switch_call[t] = Idle /\ ~engaged
  /\ MoveTo(t, [at |-> "engage"])
  /\ UNCHANGED <<engaged, reaction, ran>>

\* Mistake: takes the reactions that are registered before it raises the flag.
RaiseFlagAfterSnapshot(t) ==
  \/ /\ In(t, "engage")
     /\ MoveTo(t, [at |-> "raise", left |-> Registered])
     /\ UNCHANGED <<engaged, reaction, ran>>
  \/ /\ In(t, "raise")
     /\ engaged' = TRUE
     /\ MoveTo(t, [at |-> "run", left |-> switch_call[t].left])
     /\ UNCHANGED <<reaction, ran>>

RaiseFlag(t) ==
  /\ In(t, "engage")
  /\ engaged' = TRUE
  /\ MoveTo(t, [at |-> "snapshot"])
  /\ UNCHANGED <<reaction, ran>>

Snapshot(t) ==
  /\ In(t, "snapshot")
  /\ MoveTo(t, [at |-> "run", left |-> Registered])
  /\ UNCHANGED <<engaged, reaction, ran>>

\* Outside of the lock: a tab may be unwired before its reaction is run.
RunReaction(t) ==
  /\ In(t, "run")
  /\ LET left == switch_call[t].left IN
     IF left = {}
     THEN MoveTo(t, Idle) /\ UNCHANGED ran
     ELSE \E r \in left :
            /\ ran' = ran \cup {r}
            /\ MoveTo(t, [at |-> "run", left |-> left \ {r}])
  /\ UNCHANGED <<engaged, reaction>>

EngageNext ==
  \E t \in SwitchThreads : Engage(t) \/ RaiseFlag(t) \/ Snapshot(t) \/ RunReaction(t)

SwitchNext ==
  \/ EngageNext
  \/ \E t \in SwitchThreads :
       LookAtFlag(t) \/ \E r \in Reactions : RegisterProcessReaction(t, r)
  \/ \E r \in Reactions : Unregister(r)

\* Once the switch is engaged and whoever engaged it is through with it, the
\* reaction of every tab that is wired has run, those of tabs wired during the
\* emergency included (KillSwitch.cs:35-37): a registration that missed the
\* snapshot sees the flag.
EverythingStopped ==
  (engaged /\ \A t \in SwitchThreads : ~In(t, "snapshot") /\ ~In(t, "run")) =>
    \A r \in Reactions : reaction[r] = "held" => r \in ran
=============================================================================
