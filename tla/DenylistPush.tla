---------------------------- MODULE DenylistPush ----------------------------
(***************************************************************************)
(* How a threat list reaches the policy core on Windows: SharedBlockedHosts*)
(* publishes it to the windows' own checks and hands it to                 *)
(* CoreDenylistPublisher, which pushes it, in batches, over the bridge that*)
(* NativePolicyCoreBridgeHub shares between the windows.  Publishers and   *)
(* windows run on any thread; PushGate admits one push at a time, and the  *)
(* bridge may be released, and another created, at any moment of a push.   *)
(*                                                                         *)
(* A list is the sequence of its batches (EnumerateBatches).  A thread is  *)
(* in one of the program counters below; "send" to "commit" hold PushGate  *)
(* and a lease on the bridge via[t].                                       *)
(***************************************************************************)
EXTENDS HostDenylist, Integers, Sequences

CONSTANTS
  Threads,
  Lists,          \* the lists that may be published
  NoList,
  CoreKinds,      \* which cores may be installed: staging, clear_only, two_arg
  MaxPublishes,   \* bound: lists published
  MaxBridges,     \* bound: bridges created
  MaxWindows      \* bound: windows that share the bridge

ASSUME DenylistPushAssumption ==
  /\ Lists \subseteq Seq(SUBSET Hosts)
  /\ <<{}>> \in Lists /\ <<>> \notin Lists
  /\ NoList \notin Lists
  /\ CoreKinds \subseteq {"staging", "clear_only", "two_arg"}
  /\ MaxPublishes \in Nat /\ MaxBridges \in Nat /\ MaxWindows \in Nat \ {0}

NoBridge == 0
Bridges == 1..MaxBridges

VARIABLES
  managed,            \* SharedBlockedHosts._hosts
  latest,             \* CoreDenylistPublisher._latest
  shared, references, \* the hub: the shared bridge and its reference count
  created, disposed,  \* bridges created so far; bridges disposed
  live,               \* the native broker that is not retired (one at most)
  core_kind,
  pc, list, via, batch, \* per thread: counter, list in hand, bridge, next batch
  publishes,
  outcome             \* history: the last push to the live broker (list, ok)
                      \* and the hosts of the last one that succeeded (served)

hub == <<shared, references, created, disposed, live>>
core == <<active, staging, core_kind>>
calls == <<pc, list, via, batch>>
vars == <<managed, latest, hub, core, calls, publishes, outcome>>

Locked == {"find", "lease", "send", "commit"}  \* the counters that hold PushGate
Leasing == {"send", "commit"}

TypeOK ==
  /\ managed \in Lists /\ latest \in Lists \cup {NoList}
  /\ shared \in Bridges \cup {NoBridge} /\ live \in Bridges \cup {NoBridge}
  /\ references \in 0..MaxWindows
  /\ created \in 0..MaxBridges /\ disposed \subseteq Bridges
  /\ active \subseteq Hosts /\ (staging = NoStaging \/ staging \subseteq Hosts)
  /\ core_kind \in CoreKinds
  /\ pc \in [Threads -> {"idle", "announce", "queue", "dispose"} \cup Locked]
  /\ list \in [Threads -> Lists \cup {NoList}]
  /\ via \in [Threads -> Bridges \cup {NoBridge}]
  /\ batch \in [Threads -> Nat]
  /\ \A t \in Threads : pc[t] = "send" => batch[t] \in DOMAIN list[t]
  /\ publishes \in 0..MaxPublishes
  /\ outcome \in [list : Lists \cup {NoList}, ok : BOOLEAN, served : SUBSET Hosts]

NoPush == [list |-> NoList, ok |-> FALSE, served |-> {}]

Init ==
  /\ managed = <<{}>> /\ latest = NoList
  /\ shared = NoBridge /\ references = 0 /\ live = NoBridge
  /\ created = 0 /\ disposed = {}
  /\ active = {} /\ staging = NoStaging /\ core_kind \in CoreKinds
  /\ pc = [t \in Threads |-> "idle"]
  /\ list = [t \in Threads |-> NoList]
  /\ via = [t \in Threads |-> NoBridge]
  /\ batch = [t \in Threads |-> 1]
  /\ publishes = 0
  /\ outcome = NoPush

Goto(t, label) == pc' = [pc EXCEPT ![t] = label]

Contents(l) == UNION {l[i] : i \in DOMAIN l}

-----------------------------------------------------------------------------
(* SharedBlockedHosts.Publish and CoreDenylistPublisher *)

Publish(t, l) ==
  /\ pc[t] = "idle" /\ publishes < MaxPublishes
  /\ managed' = l
  /\ list' = [list EXCEPT ![t] = l]
  /\ publishes' = publishes + 1
  /\ Goto(t, "announce")
  /\ UNCHANGED <<latest, hub, core, via, batch, outcome>>

\* OnManagedSnapshotChanged: the list becomes the latest, then a push is due.
Announce(t) ==
  /\ pc[t] = "announce"
  /\ latest' = list[t]
  /\ Goto(t, "queue")
  /\ UNCHANGED <<managed, hub, core, list, via, batch, publishes, outcome>>

\* Mistake: pushes the list it came with.
PushTheListInHand(t) ==
  /\ pc[t] = "queue" /\ \A u \in Threads : pc[u] \notin Locked
  /\ list' = [list EXCEPT ![t] = IF @ = NoList THEN latest ELSE @]
  /\ Goto(t, IF latest = NoList THEN "idle" ELSE "find")
  /\ UNCHANGED <<managed, latest, hub, core, via, batch, publishes, outcome>>

\* Push enters PushGate and reads the latest list again inside it.
EnterPushGate(t) ==
  /\ pc[t] = "queue" /\ \A u \in Threads : pc[u] \notin Locked
  /\ list' = [list EXCEPT ![t] = latest]
  /\ Goto(t, IF latest = NoList THEN "idle" ELSE "find")
  /\ UNCHANGED <<managed, latest, hub, core, via, batch, publishes, outcome>>

\* Mistake: waits at the gate for a bridge to push to.
FindBridgeOrWait(t) ==
  /\ pc[t] = "find" /\ shared # NoBridge
  /\ via' = [via EXCEPT ![t] = shared]
  /\ Goto(t, "lease")
  /\ UNCHANGED <<managed, latest, hub, core, list, batch, publishes, outcome>>

\* With no bridge there is nothing to push to.
FindBridge(t) ==
  /\ pc[t] = "find"
  /\ \/ shared # NoBridge /\ via' = [via EXCEPT ![t] = shared] /\ Goto(t, "lease")
     \/ shared = NoBridge /\ UNCHANGED via /\ Goto(t, "idle")
  /\ UNCHANGED <<managed, latest, hub, core, list, batch, publishes, outcome>>

\* UpdateHostDenylist: a disposed bridge gives no lease.
TakeLease(t) ==
  /\ pc[t] = "lease"
  /\ Goto(t, IF via[t] \in disposed THEN "idle" ELSE "send")
  /\ batch' = [batch EXCEPT ![t] = 1]
  /\ UNCHANGED <<managed, latest, hub, core, list, via, publishes, outcome>>

-----------------------------------------------------------------------------
(* DriveDenylistPush *)

\* The lease and PushGate go; a broker disposed meanwhile retires now.
Finish(t, ok) ==
  /\ Goto(t, "idle")
  /\ outcome' = [list |-> list[t], ok |-> ok,
                  served |-> IF ok THEN Contents(list[t]) ELSE outcome.served]
  /\ live' = IF via[t] \in disposed THEN NoBridge ELSE live
  /\ UNCHANGED <<shared, references, created, disposed>>

Stay == UNCHANGED <<hub, outcome>>

Mode(l, i) == IF i > 1 THEN "append" ELSE IF Len(l) = 1 THEN "replace" ELSE "begin"

Deliver(b, mode) ==
  CASE core_kind = "staging"    -> Apply(b, mode)
    [] core_kind = "clear_only" -> ApplyLegacy(b, mode # "append")
    [] core_kind = "two_arg"    -> ApplyLegacy(b, TRUE)

\* Mistake: goes on with the batches although the core never echoed "clear".
SendBatchBlindly(t) ==
  LET l == list[t] IN
  /\ pc[t] = "send"
  /\ \/ Finish(t, FALSE) /\ UNCHANGED <<batch, active, staging>>
     \/ /\ Deliver(l[batch[t]], Mode(l, batch[t]))
        /\ IF batch[t] < Len(l)
           THEN batch' = [batch EXCEPT ![t] = @ + 1] /\ UNCHANGED pc /\ Stay
           ELSE UNCHANGED batch
                /\ IF core_kind = "staging" /\ Len(l) > 1
                   THEN Goto(t, "commit") /\ Stay ELSE Finish(t, TRUE)
  /\ UNCHANGED <<managed, latest, core_kind, list, via, publishes>>

\* One batch. The core may refuse any batch, which aborts the push. A core
\* that does not even echo "clear" gets no second batch; one that echoes no
\* mode is never sent a commit.
SendBatch(t) ==
  LET l == list[t]  i == batch[t] IN
  /\ pc[t] = "send"
  /\ \/ Finish(t, FALSE) /\ UNCHANGED <<batch, active, staging>>
     \/ /\ Deliver(l[i], Mode(l, i))
        /\ \/ /\ i < Len(l) /\ core_kind # "two_arg"
              /\ batch' = [batch EXCEPT ![t] = @ + 1]
              /\ UNCHANGED pc /\ Stay
           \/ /\ i = Len(l) /\ i > 1 /\ core_kind = "staging"
              /\ Goto(t, "commit")
              /\ UNCHANGED batch /\ Stay
           \/ /\ i < Len(l) /\ core_kind = "two_arg"
              /\ Finish(t, FALSE)
              /\ UNCHANGED batch
           \/ /\ i = Len(l) /\ (i = 1 \/ core_kind = "clear_only")
              /\ Finish(t, TRUE)
              /\ UNCHANGED batch
  /\ UNCHANGED <<managed, latest, core_kind, list, via, publishes>>

\* A commit that finds no session is not a publication.
Commit(t) ==
  /\ pc[t] = "commit"
  /\ \/ Finish(t, FALSE) /\ UNCHANGED <<active, staging>>
     \/ Finish(t, staging # NoStaging) /\ Deliver({}, "commit")
  /\ UNCHANGED <<managed, latest, core_kind, list, via, batch, publishes>>

-----------------------------------------------------------------------------
(* NativePolicyCoreBridgeHub *)

\* Acquire when there is a bridge, or when none can be made: the library may
\* be missing, and a broker that is not retired refuses a second one.
ShareBridge(t) ==
  /\ pc[t] = "idle" /\ shared # NoBridge /\ references < MaxWindows
  /\ references' = references + 1
  /\ UNCHANGED <<managed, latest, shared, created, disposed, live, core, calls,
                 publishes, outcome>>

\* Acquire creates the bridge under the hub's gate and pushes outside it.
CreateBridge(t) ==
  /\ pc[t] = "idle" /\ shared = NoBridge
  /\ live = NoBridge /\ created < MaxBridges
  /\ created' = created + 1
  /\ shared' = created' /\ live' = created' /\ references' = 1
  /\ active' = {} /\ staging' = NoStaging /\ outcome' = NoPush
  /\ Goto(t, "queue")
  /\ UNCHANGED <<managed, latest, disposed, core_kind, list, via, batch, publishes>>

ReleaseBridge(t) ==
  /\ pc[t] = "idle" /\ shared # NoBridge
  /\ references' = references - 1
  /\ \/ references > 1 /\ UNCHANGED <<shared, via, pc>>
     \/ /\ references = 1
        /\ shared' = NoBridge
        /\ via' = [via EXCEPT ![t] = shared]
        /\ Goto(t, "dispose")
  /\ UNCHANGED <<managed, latest, created, disposed, live, core, list, batch,
                 publishes, outcome>>

\* Outside the hub's gate. The broker retires when its last lease is gone.
DisposeBridge(t) ==
  /\ pc[t] = "dispose"
  /\ disposed' = disposed \cup {via[t]}
  /\ live' = IF \E u \in Threads : pc[u] \in Leasing /\ via[u] = via[t]
             THEN live ELSE NoBridge
  /\ Goto(t, "idle")
  /\ UNCHANGED <<managed, latest, shared, references, created, core, list, via, batch,
                 publishes, outcome>>

-----------------------------------------------------------------------------

\* What a thread does without being asked again.
Step(t) ==
  \/ Announce(t) \/ EnterPushGate(t) \/ FindBridge(t) \/ TakeLease(t)
  \/ SendBatch(t) \/ Commit(t) \/ DisposeBridge(t)

Next ==
  \E t \in Threads :
    \/ \E l \in Lists : Publish(t, l)
    \/ ShareBridge(t) \/ CreateBridge(t) \/ ReleaseBridge(t)
    \/ Step(t)

\* The operating system runs every thread that can run.
Fairness == \A t \in Threads : WF_vars(Step(t))

Spec == Init /\ [][Next]_vars /\ Fairness

Quiet == \A t \in Threads : pc[t] = "idle"

\* With a core that knows sessions, every decision is made with the whole of the
\* last list that was published - between the batches of the next push, after a
\* push that was aborted half-way, and when pushes of different lists follow each
\* other: never with a part of a list, a mix of two, or none (denylist.rs:12-16).
NeverPartial == core_kind = "staging" /\ live # NoBridge => active = outcome.served

\* A push that reports itself as published has put its whole list in force,
\* whichever of the three generations of cores is installed and however its
\* predecessors ended (CoreDenylistUpdateResult, DriveDenylistPush).
PublishedMeansServed ==
  Quiet /\ live # NoBridge /\ outcome.ok => active = Contents(outcome.list)

\* Whenever nothing is running, the core behind the shared bridge has been
\* offered the latest list - also a bridge created after, or while, that list
\* was published, and also when older pushes were still queued at the gate.
CoreWasOfferedLatest ==
  Quiet /\ shared # NoBridge => outcome.list = latest

\* What SharedBlockedHosts.cs:27-28 says: one publication covers the windows' own
\* checks and the core with one list, and there is no second list to drift.
OneListEverywhere == Quiet /\ latest # NoList => Contents(latest) = Contents(managed)

\* No thread waits for PushGate for ever: a push always ends and lets it go.
PushesEnd == \A t \in Threads : pc[t] # "idle" ~> pc[t] = "idle"
=============================================================================
