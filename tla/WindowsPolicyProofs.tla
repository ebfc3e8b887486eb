------------------------- MODULE WindowsPolicyProofs -------------------------
(***************************************************************************)
(* Proofs about what stands between the windows of the desktop host and    *)
(* their policy core, in two parts.                                        *)
(*                                                                         *)
(* Publication (DenylistPush), for any threads, hosts and lists, any       *)
(* number of bridges and publications, and every kind of core.             *)
(*                                                                         *)
(* The broker of a window and the emergency switch (WindowsBroker), for    *)
(* any number of sessions, threads, reactions and bounds: nonces are       *)
(* accepted once, host and core agree, and the switch holds.  Each of its  *)
(* parts has an invariant of its own.                                      *)
(***************************************************************************)
EXTENDS DenylistPush, WindowsBroker, FiniteSetTheorems, TLAPS

-----------------------------------------------------------------------------
(* The inductive invariant.                                                *)

OneAtTheGate == \A t, u \in Threads : pc[t] \in Locked /\ pc[u] \in Locked => t = u

\* A bridge that was not disposed is the live one, which is the last created.
\* A bridge in use, about to be disposed or shared is live.
BridgesInOrder ==
  /\ disposed \subseteq 1..created
  /\ shared # NoBridge => shared = live /\ shared \notin disposed
  /\ live # NoBridge => live = created
  /\ \A b \in 1..created : b \notin disposed => b = live
  /\ \A t \in Threads :
       /\ pc[t] = "dispose" => /\ via[t] = live /\ live # NoBridge
                               /\ live \notin disposed /\ shared = NoBridge
       /\ pc[t] = "lease" => via[t] \in 1..created
       /\ pc[t] \in Leasing => via[t] = live /\ live # NoBridge
  /\ \A t, u \in Threads : pc[t] = "dispose" /\ pc[u] = "dispose" => t = u

\* What is pushed is a list, and then there is a latest one.
ListInHand ==
  /\ \A t \in Threads : pc[t] \in Locked \cup {"announce"} => list[t] \in Lists
  /\ \A t \in Threads : pc[t] \in Locked => latest # NoList
  /\ outcome.list # NoList => latest # NoList

Sent(l, n) == UNION {l[k] : k \in 1..n}

\* What the batches sent so far have left in the core.
SentSoFar ==
  \A t \in Threads :
    /\ pc[t] = "send" /\ batch[t] > 1 =>
         /\ core_kind = "staging" => staging = Sent(list[t], batch[t] - 1)
         /\ core_kind = "clear_only" => active = Sent(list[t], batch[t] - 1)
    /\ pc[t] = "commit" => core_kind = "staging" /\ staging = Contents(list[t])

ServedBetweenPushes ==
  live # NoBridge /\ outcome.ok /\ (\A t \in Threads : pc[t] \notin Leasing) =>
    active = Contents(outcome.list)

\* A thread is going to offer the latest list to the shared bridge.
OfferPending ==
  \E t \in Threads :
    \/ pc[t] = "queue"
    \/ pc[t] \in {"find", "send", "commit"} /\ list[t] = latest
    \/ pc[t] = "lease" /\ list[t] = latest /\ via[t] = shared

\* A push of an older list has another one waiting behind it.
OfferedOrPending ==
  /\ \A t \in Threads : pc[t] \in Locked /\ list[t] # latest =>
       \E u \in Threads : pc[u] = "queue"
  /\ shared # NoBridge /\ outcome.list # latest => OfferPending

PushInv ==
  /\ TypeOK /\ OneAtTheGate /\ BridgesInOrder /\ ListInHand /\ SentSoFar
  /\ NeverPartial /\ ServedBetweenPushes /\ OfferedOrPending

-----------------------------------------------------------------------------
(* Lemmas about lists and batches.                                         *)

LEMMA SentBatches ==
  ASSUME NEW l \in Lists
  PROVE  /\ l \in Seq(SUBSET Hosts) /\ Len(l) \in Nat /\ Len(l) >= 1 /\ DOMAIN l = 1..Len(l)
         /\ Contents(l) = Sent(l, Len(l)) /\ Contents(l) \subseteq Hosts
         /\ Sent(l, 1) = l[1]
         /\ \A i \in 1..Len(l) :
              /\ l[i] \subseteq Hosts /\ Sent(l, i) \subseteq Hosts
              /\ i > 1 => Sent(l, i) = Sent(l, i - 1) \cup l[i]
<1>1. /\ l \in Seq(SUBSET Hosts) /\ Len(l) \in Nat /\ DOMAIN l = 1..Len(l)
      /\ \A i \in 1..Len(l) : l[i] \in SUBSET Hosts
  BY DenylistPushAssumption
<1>2. Len(l) >= 1
  BY <1>1, DenylistPushAssumption
<1>3. Contents(l) = Sent(l, Len(l))
  BY <1>1 DEF Contents, Sent
<1>4. Sent(l, 1) = l[1]
  BY DEF Sent
<1>5. ASSUME NEW i \in 1..Len(l) PROVE Sent(l, i) \subseteq Hosts
  BY <1>1, <1>5 DEF Sent
<1>6. ASSUME NEW i \in 1..Len(l), i > 1 PROVE Sent(l, i) = Sent(l, i - 1) \cup l[i]
  <2>1. 1..i = 1..(i - 1) \cup {i}
    BY <1>1, <1>6
  <2> QED
    BY <2>1 DEF Sent
<1>7. Contents(l) \subseteq Hosts
  BY <1>1 DEF Contents
<1> QED
  BY <1>1, <1>2, <1>3, <1>4, <1>5, <1>6, <1>7

\* What one batch does, core by core and mode by mode.
LEMMA DeliverEffect ==
  ASSUME TypeOK, NEW b \in SUBSET Hosts, NEW mode \in Modes, Deliver(b, mode)
  PROVE  /\ active' \subseteq Hosts /\ (staging' = NoStaging \/ staging' \subseteq Hosts)
         /\ core_kind = "staging" /\ mode = "begin" => staging' = b /\ active' = active
         /\ core_kind = "staging" /\ mode = "append" /\ staging # NoStaging =>
              staging' = staging \cup b /\ active' = active
         /\ core_kind = "staging" /\ mode = "commit" /\ staging # NoStaging =>
              active' = staging
         /\ core_kind = "clear_only" /\ mode = "append" => active' = active \cup b
         /\ core_kind = "clear_only" /\ mode # "append" => active' = b
         /\ mode = "replace" => active' = b
<1>0. core_kind \in {"staging", "clear_only", "two_arg"}
  BY DenylistPushAssumption DEF TypeOK
<1>1. CASE core_kind = "staging"
  <2>1. Apply(b, mode)
    BY <1>1 DEF Deliver
  <2>2. CASE mode = "begin"
    BY <1>1, <2>1, <2>2 DEF Apply, TypeOK
  <2>3. CASE mode = "append" /\ staging # NoStaging
    BY <1>1, <2>1, <2>3 DEF Apply, TypeOK
  <2>4. CASE mode = "append" /\ staging = NoStaging
    BY <1>1, <2>1, <2>4 DEF Apply, TypeOK
  <2>5. CASE mode = "replace"
    BY <1>1, <2>1, <2>5 DEF Apply, TypeOK
  <2>6. CASE mode = "commit"
    BY <1>1, <2>1, <2>6 DEF Apply, TypeOK
  <2> QED
    BY <2>2, <2>3, <2>4, <2>5, <2>6 DEF Modes
<1>2. CASE core_kind = "clear_only"
  BY <1>2 DEF Deliver, ApplyLegacy, TypeOK
<1>3. CASE core_kind = "two_arg"
  BY <1>3 DEF Deliver, ApplyLegacy, TypeOK
<1> QED
  BY <1>0, <1>1, <1>2, <1>3

-----------------------------------------------------------------------------
(* What a step of a push does.                                             *)

Aborted(t) ==
  /\ Finish(t, FALSE)
  /\ core_kind = "staging" => active' = active
  /\ UNCHANGED batch

Continues(t) ==
  /\ pc[t] = "send" /\ UNCHANGED <<pc, hub, outcome>>
  /\ batch' = [batch EXCEPT ![t] = @ + 1]
  /\ batch[t] + 1 \in DOMAIN list[t]
  /\ core_kind = "staging" => staging' = Sent(list[t], batch[t]) /\ active' = active
  /\ core_kind = "clear_only" => active' = Sent(list[t], batch[t])

Staged(t) ==
  /\ pc[t] = "send" /\ Goto(t, "commit") /\ UNCHANGED <<batch, hub, outcome>>
  /\ core_kind = "staging" /\ staging' = Contents(list[t]) /\ active' = active

Completed(t) == Finish(t, TRUE) /\ active' = Contents(list[t]) /\ UNCHANGED batch

PushStep(t) ==
  /\ pc[t] \in Leasing /\ list[t] \in Lists
  /\ Aborted(t) \/ Continues(t) \/ Staged(t) \/ Completed(t)
  /\ active' \subseteq Hosts /\ (staging' = NoStaging \/ staging' \subseteq Hosts)
  /\ UNCHANGED <<managed, latest, core_kind, list, via, publishes>>

LEMMA SendEffect ==
  ASSUME PushInv, NEW t \in Threads, SendBatch(t)
  PROVE  PushStep(t)
<1> DEFINE l == list[t]
           i == batch[t]
<1>1. /\ pc[t] = "send" /\ l \in Lists
      /\ UNCHANGED <<managed, latest, core_kind, list, via, publishes>>
  BY DEF SendBatch, PushInv, ListInHand, Locked
<1>2. /\ i \in 1..Len(l) /\ Len(l) \in Nat /\ l[i] \subseteq Hosts /\ DOMAIN l = 1..Len(l)
      /\ Contents(l) = Sent(l, Len(l)) /\ Sent(l, 1) = l[1]
      /\ i > 1 => Sent(l, i) = Sent(l, i - 1) \cup l[i] /\ Sent(l, i - 1) \subseteq Hosts
  <2>1. i \in DOMAIN l
    BY <1>1 DEF PushInv, TypeOK
  <2>2. i > 1 => i - 1 \in 1..Len(l)
    BY <1>1, <2>1, SentBatches
  <2> QED
    BY <1>1, <2>1, <2>2, SentBatches
<1>3. CASE Finish(t, FALSE) /\ UNCHANGED <<batch, active, staging>>
  BY <1>1, <1>3 DEF PushStep, Aborted, PushInv, TypeOK, Leasing
<1>4. CASE Deliver(l[i], Mode(l, i))
  <2>1. Mode(l, i) \in Modes /\ TypeOK
    BY DEF Mode, Modes, PushInv
  <2>2. active' \subseteq Hosts /\ (staging' = NoStaging \/ staging' \subseteq Hosts)
    BY <1>2, <1>4, <2>1, DeliverEffect
  <2>3. core_kind = "staging" /\ Len(l) > 1 => staging' = Sent(l, i) /\ active' = active
    <3>1. CASE i = 1 /\ Len(l) > 1
      <4>1. ASSUME NEW n \in Nat, n > 1 PROVE n # 1
        BY <4>1
      <4>2. Mode(l, i) = "begin"
        BY <1>2, <3>1, <4>1 DEF Mode
      <4> QED
        BY <1>2, <1>4, <2>1, <3>1, <4>2, DeliverEffect
    <3>2. CASE i > 1 /\ core_kind = "staging"
      <4>1. Mode(l, i) = "append" /\ staging = Sent(l, i - 1)
        BY <1>1, <3>2 DEF Mode, PushInv, SentSoFar
      <4>2. staging # NoStaging
        BY <1>2, <3>2, <4>1, HostDenylistAssumption
      <4>3. staging' = staging \cup l[i] /\ active' = active
        BY <1>2, <1>4, <2>1, <3>2, <4>1, <4>2, DeliverEffect
      <4> QED
        BY <1>2, <3>2, <4>1, <4>3
    <3> QED
      BY <1>2, <3>1, <3>2
  <2>4. core_kind = "clear_only" => active' = Sent(l, i)
    <3>1. CASE i = 1
      <4>1. Mode(l, i) # "append"
        BY <3>1 DEF Mode
      <4> QED
        BY <1>2, <1>4, <2>1, <3>1, <4>1, DeliverEffect
    <3>2. CASE i > 1 /\ core_kind = "clear_only"
      <4>1. Mode(l, i) = "append" /\ active = Sent(l, i - 1)
        BY <1>1, <3>2 DEF Mode, PushInv, SentSoFar
      <4> QED
        BY <1>2, <1>4, <2>1, <3>2, <4>1, DeliverEffect
    <3> QED
      BY <1>2, <3>1, <3>2
  <2>5. CASE i < Len(l) /\ batch' = [batch EXCEPT ![t] = @ + 1] /\ UNCHANGED pc /\ Stay
    <3>1. i + 1 \in DOMAIN l /\ Len(l) > 1
      BY <1>2, <2>5
    <3> QED
      BY <1>1, <2>2, <2>3, <2>4, <2>5, <3>1 DEF PushStep, Continues, Stay, Leasing
  <2>6. CASE /\ i = Len(l) /\ i > 1 /\ core_kind = "staging"
             /\ Goto(t, "commit") /\ UNCHANGED batch /\ Stay
    BY <1>1, <1>2, <2>2, <2>3, <2>6 DEF PushStep, Staged, Stay, Leasing
  <2>7. CASE core_kind = "two_arg" /\ Finish(t, FALSE) /\ UNCHANGED batch
    BY <1>1, <2>2, <2>7 DEF PushStep, Aborted, Leasing
  <2>8. CASE /\ i = Len(l) /\ (i = 1 \/ core_kind = "clear_only")
             /\ Finish(t, TRUE) /\ UNCHANGED batch
    <3>1. active' = Contents(l)
      <4>1. CASE i = 1
        <5>1. Mode(l, i) = "replace"
          BY <2>8, <4>1 DEF Mode
        <5> QED
          BY <1>2, <1>4, <2>1, <2>8, <4>1, <5>1, DeliverEffect
      <4>2. CASE core_kind = "clear_only"
        BY <1>2, <2>4, <2>8, <4>2
      <4> QED
        BY <2>8, <4>1, <4>2
    <3> QED
      BY <1>1, <2>2, <2>8, <3>1 DEF PushStep, Completed, Leasing
  <2> QED
    BY <1>3, <2>5, <2>6, <2>7, <2>8 DEF SendBatch
<1> QED
  BY <1>3, <1>4 DEF SendBatch

LEMMA CommitEffect ==
  ASSUME PushInv, NEW t \in Threads, Commit(t)
  PROVE  PushStep(t)
<1>1. /\ pc[t] = "commit" /\ list[t] \in Lists
      /\ UNCHANGED <<managed, latest, core_kind, list, via, batch, publishes>>
  BY DEF Commit, PushInv, ListInHand, Locked
<1>2. core_kind = "staging" /\ staging = Contents(list[t]) /\ staging # NoStaging
  BY <1>1, SentBatches, HostDenylistAssumption DEF PushInv, SentSoFar
<1>3. CASE Finish(t, FALSE) /\ UNCHANGED <<active, staging>>
  BY <1>1, <1>3 DEF PushStep, Aborted, PushInv, TypeOK, Leasing
<1>4. CASE Finish(t, staging # NoStaging) /\ Deliver({}, "commit")
  <2>1. active' = staging /\ (staging' = NoStaging \/ staging' \subseteq Hosts)
        /\ active' \subseteq Hosts
    BY <1>2, <1>4, DeliverEffect DEF Modes, PushInv
  <2>2. Finish(t, TRUE)
    BY <1>2, <1>4 DEF Finish
  <2> QED
    BY <1>1, <1>2, <2>1, <2>2 DEF PushStep, Completed, Leasing
<1> QED
  BY <1>3, <1>4 DEF Commit

-----------------------------------------------------------------------------
(* Each action keeps the invariant.                                        *)

LEMMA InitPush == Init => PushInv
<1> SUFFICES ASSUME Init PROVE PushInv
  OBVIOUS
<1>1. TypeOK
  <2>1. /\ pc \in [Threads -> {"idle", "announce", "queue", "dispose"} \cup Locked]
        /\ list \in [Threads -> Lists \cup {NoList}]
        /\ via \in [Threads -> Bridges \cup {NoBridge}] /\ batch \in [Threads -> Nat]
    BY DEF Init
  <2>2. outcome \in [list : Lists \cup {NoList}, ok : BOOLEAN, served : SUBSET Hosts]
    BY DEF Init, NoPush
  <2>3. /\ references \in 0..MaxWindows /\ created \in 0..MaxBridges
        /\ publishes \in 0..MaxPublishes
    BY DenylistPushAssumption DEF Init
  <2> QED
    BY <2>1, <2>2, <2>3, DenylistPushAssumption DEF Init, TypeOK
<1>2. \A t \in Threads : pc[t] = "idle"
  BY DEF Init
<1>3. OneAtTheGate /\ ListInHand /\ SentSoFar
  BY <1>2 DEF Init, OneAtTheGate, ListInHand, SentSoFar, Locked, NoPush
<1>4. BridgesInOrder
  BY <1>2 DEF Init, BridgesInOrder, Leasing, NoBridge
<1>5. NeverPartial /\ ServedBetweenPushes /\ OfferedOrPending
  BY <1>2 DEF Init, NeverPartial, ServedBetweenPushes, OfferedOrPending, Locked, NoBridge
<1> QED
  BY <1>1, <1>3, <1>4, <1>5 DEF PushInv

\* The actions, with the two that push as one.
Others(t) ==
  \/ \E l \in Lists : Publish(t, l)
  \/ ShareBridge(t) \/ CreateBridge(t) \/ ReleaseBridge(t)
  \/ Announce(t) \/ EnterPushGate(t) \/ FindBridge(t) \/ TakeLease(t) \/ DisposeBridge(t)

LEMMA NextCases ==
  ASSUME PushInv, Next
  PROVE  \E t \in Threads : Others(t) \/ PushStep(t)
BY SendEffect, CommitEffect DEF Next, Step, Others

LEMMA TypeStep ==
  ASSUME PushInv, NEW t \in Threads, Others(t) \/ PushStep(t)
  PROVE  TypeOK'
<1>0. TypeOK /\ \A u \in Threads : pc[u] \in Locked => list[u] \in Lists
  BY DEF PushInv, ListInHand
<1>1. ASSUME NEW l \in Lists, Publish(t, l) PROVE TypeOK'
  <2>1. publishes' \in 0..MaxPublishes
    <3>1. publishes \in 0..MaxPublishes /\ publishes < MaxPublishes
          /\ publishes' = publishes + 1
      BY <1>0, <1>1 DEF Publish, TypeOK
    <3> QED
      BY <3>1, DenylistPushAssumption
  <2> QED
    BY <1>0, <1>1, <2>1 DEF Publish, Goto, hub, core, TypeOK
<1>2. CASE ShareBridge(t)
  <2>1. references' \in 0..MaxWindows
    <3>1. references \in 0..MaxWindows /\ references < MaxWindows
          /\ references' = references + 1
      BY <1>0, <1>2 DEF ShareBridge, TypeOK
    <3> QED
      BY <3>1, DenylistPushAssumption
  <2> QED
    BY <1>0, <1>2, <2>1 DEF ShareBridge, calls, core, TypeOK
<1>3. CASE CreateBridge(t)
  <2>1. /\ created' \in 0..MaxBridges /\ created' \in Bridges /\ references' \in 0..MaxWindows
    BY <1>0, <1>3, DenylistPushAssumption DEF CreateBridge, TypeOK, Bridges
  <2>2. outcome' \in [list : Lists \cup {NoList}, ok : BOOLEAN, served : SUBSET Hosts]
    BY <1>3 DEF CreateBridge, NoPush
  <2> QED
    BY <1>0, <1>3, <2>1, <2>2 DEF CreateBridge, Goto, TypeOK
<1>4. CASE ReleaseBridge(t)
  <2>1. references' \in 0..MaxWindows
    <3>1. references \in 0..MaxWindows /\ references' = references - 1 /\ references >= 1
      BY <1>0, <1>4 DEF ReleaseBridge, TypeOK
    <3> QED
      BY <3>1, DenylistPushAssumption
  <2> QED
    BY <1>0, <1>4, <2>1 DEF ReleaseBridge, Goto, core, TypeOK
<1>5. CASE Announce(t)
  BY <1>0, <1>5 DEF Announce, Goto, hub, core, TypeOK
<1>6. CASE EnterPushGate(t)
  BY <1>0, <1>6 DEF EnterPushGate, Goto, hub, core, TypeOK, Locked
<1>7. CASE FindBridge(t)
  BY <1>0, <1>7 DEF FindBridge, Goto, hub, core, TypeOK, Locked
<1>8. CASE TakeLease(t)
  <2>1. list[t] \in Lists /\ 1 \in DOMAIN list[t]
    BY <1>0, <1>8, SentBatches DEF TakeLease, Locked
  <2> QED
    BY <1>0, <1>8, <2>1 DEF TakeLease, Goto, hub, core, TypeOK, Locked
<1>9. CASE DisposeBridge(t)
  <2>1. via[t] \in Bridges
    BY <1>0, <1>9 DEF DisposeBridge, PushInv, BridgesInOrder, TypeOK
  <2> QED
    BY <1>0, <1>9, <2>1 DEF DisposeBridge, Goto, core, TypeOK
<1>10. CASE PushStep(t)
  <2>1. outcome' \in [list : Lists \cup {NoList}, ok : BOOLEAN, served : SUBSET Hosts]
    <3>1. CASE UNCHANGED outcome
      BY <1>0, <3>1 DEF TypeOK
    <3>2. CASE \E ok \in BOOLEAN : Finish(t, ok)
      <4>1. list[t] \in Lists /\ outcome.served \subseteq Hosts
            /\ Contents(list[t]) \subseteq Hosts
        BY <1>0, <1>10, SentBatches DEF PushStep, TypeOK
      <4> QED
        BY <3>2, <4>1 DEF Finish
    <3> QED
      BY <1>10, <3>1, <3>2 DEF PushStep, Aborted, Completed, Continues, Staged
  <2>2. /\ pc' \in [Threads -> {"idle", "announce", "queue", "dispose"} \cup Locked]
        /\ live' \in Bridges \cup {NoBridge}
        /\ UNCHANGED <<shared, references, created, disposed>>
    BY <1>0, <1>10
       DEF PushStep, Aborted, Completed, Continues, Staged, Finish, Goto, hub, TypeOK, Locked
  <2>3. /\ batch' \in [Threads -> Nat]
        /\ \A u \in Threads : pc'[u] = "send" => batch'[u] \in DOMAIN list'[u]
    BY <1>0, <1>10
       DEF PushStep, Aborted, Completed, Continues, Staged, Finish, Goto, TypeOK, Locked
  <2> QED
    BY <1>0, <1>10, <2>1, <2>2, <2>3 DEF PushStep, TypeOK
<1> QED
  BY <1>1, <1>2, <1>3, <1>4, <1>5, <1>6, <1>7, <1>8, <1>9, <1>10 DEF Others

\* What an action does to the counters: it moves its own thread only.
LEMMA OwnCounter ==
  ASSUME PushInv, NEW t \in Threads, Others(t) \/ PushStep(t)
  PROVE  /\ \A u \in Threads : u # t =>
              /\ pc'[u] = pc[u] /\ list'[u] = list[u]
              /\ via'[u] = via[u] /\ batch'[u] = batch[u]
         /\ pc'[t] \in Leasing =>
              \/ pc[t] \in Leasing
              \/ TakeLease(t) /\ via[t] \notin disposed /\ pc'[t] = "send" /\ batch'[t] = 1
         /\ pc'[t] \in Locked =>
              pc[t] \in Locked \/ (EnterPushGate(t) /\ \A u \in Threads : pc[u] \notin Locked)
         /\ core_kind' = core_kind
<1>0. TypeOK
  BY DEF PushInv
<1>1. ASSUME NEW l \in Lists, Publish(t, l)
      PROVE  /\ \A u \in Threads : u # t =>
                  /\ pc'[u] = pc[u] /\ list'[u] = list[u]
                  /\ via'[u] = via[u] /\ batch'[u] = batch[u]
             /\ pc'[t] \notin Locked /\ pc'[t] \notin Leasing /\ core_kind' = core_kind
  BY <1>0, <1>1 DEF Publish, Goto, TypeOK, Locked, Leasing, core
<1>2. CASE ShareBridge(t)
  BY <1>0, <1>2 DEF ShareBridge, calls, core, TypeOK
<1>3. CASE CreateBridge(t) \/ ReleaseBridge(t) \/ DisposeBridge(t)
  BY <1>0, <1>3 DEF CreateBridge, ReleaseBridge, DisposeBridge, Goto, TypeOK, Locked, Leasing, core
<1>4. CASE Announce(t) \/ FindBridge(t)
  BY <1>0, <1>4 DEF Announce, FindBridge, Goto, TypeOK, Locked, Leasing, core
<1>5. CASE EnterPushGate(t)
  BY <1>0, <1>5 DEF EnterPushGate, Goto, TypeOK, Locked, Leasing, core
<1>6. CASE TakeLease(t)
  BY <1>0, <1>6 DEF TakeLease, Goto, TypeOK, Locked, Leasing, core
<1>7. CASE PushStep(t)
  BY <1>0, <1>7
     DEF PushStep, Aborted, Continues, Staged, Completed, Finish, Goto, TypeOK, Locked, Leasing
<1> QED
  BY <1>1, <1>2, <1>3, <1>4, <1>5, <1>6, <1>7 DEF Others

LEMMA GateStep ==
  ASSUME PushInv, NEW t \in Threads, Others(t) \/ PushStep(t)
  PROVE  OneAtTheGate'
BY OwnCounter DEF PushInv, OneAtTheGate

LEMMA BridgeStep ==
  ASSUME PushInv, NEW t \in Threads, Others(t) \/ PushStep(t)
  PROVE  BridgesInOrder'
<1>0. TypeOK /\ BridgesInOrder /\ created \in Nat /\ created \in 0..MaxBridges
  BY DenylistPushAssumption DEF PushInv, TypeOK
<1>1. CASE UNCHANGED hub /\ pc'[t] \in {"idle", "announce", "queue", "find"}
  BY <1>0, <1>1, OwnCounter DEF BridgesInOrder, hub, Leasing
<1>2. CASE ShareBridge(t)
  BY <1>0, <1>2 DEF ShareBridge, calls, BridgesInOrder
<1>3. CASE CreateBridge(t)
  <2>1. created' = created + 1 /\ live' = created' /\ shared' = created' /\ live = NoBridge
        /\ disposed' = disposed
    BY <1>3 DEF CreateBridge
  <2>2. 1..created' = 1..created \cup {created'} /\ created' \notin 1..created
        /\ created' # NoBridge
    BY <1>0, <2>1 DEF NoBridge
  <2>3. \A b \in 1..created : b \in disposed
    BY <1>0, <2>1 DEF BridgesInOrder, NoBridge
  <2>4. \A u \in Threads : pc'[u] \notin Leasing /\ pc'[u] # "dispose"
    BY <1>0, <1>3, <2>1 DEF CreateBridge, Goto, BridgesInOrder, Leasing, TypeOK
  <2>5. \A u \in Threads : pc'[u] = "lease" => via'[u] \in 1..created
    BY <1>0, <1>3 DEF CreateBridge, Goto, BridgesInOrder, TypeOK
  <2> QED
    BY <1>0, <2>1, <2>2, <2>3, <2>4, <2>5 DEF BridgesInOrder
<1>4. CASE ReleaseBridge(t)
  <2>1. CASE pc' = pc
    BY <1>0, <1>4, <2>1, OwnCounter DEF ReleaseBridge, BridgesInOrder, Goto, TypeOK, Leasing
  <2>2. CASE shared' = NoBridge /\ via' = [via EXCEPT ![t] = shared] /\ Goto(t, "dispose")
    BY <1>0, <1>4, <2>2, OwnCounter DEF ReleaseBridge, BridgesInOrder, Goto, TypeOK, Leasing
  <2> QED
    BY <1>4, <2>1, <2>2 DEF ReleaseBridge
<1>5. CASE FindBridge(t) /\ shared # NoBridge
  <2>1. via'[t] = live /\ live = created /\ live # NoBridge /\ pc'[t] = "lease" /\ UNCHANGED hub
    BY <1>0, <1>5 DEF FindBridge, BridgesInOrder, Goto, TypeOK
  <2>2. created \in 1..created
    BY <1>0, <2>1 DEF NoBridge
  <2> QED
    BY <1>0, <2>1, <2>2, OwnCounter DEF BridgesInOrder, hub, Leasing
<1>6. CASE TakeLease(t)
  <2>1. /\ UNCHANGED hub /\ via' = via /\ via[t] \in 1..created
        /\ pc'[t] = IF via[t] \in disposed THEN "idle" ELSE "send"
    BY <1>0, <1>6 DEF TakeLease, Goto, TypeOK, BridgesInOrder
  <2>2. via[t] # NoBridge
    BY <1>0, <2>1 DEF NoBridge
  <2> QED
    BY <1>0, <2>1, <2>2, OwnCounter DEF BridgesInOrder, hub, Leasing
<1>7. CASE DisposeBridge(t)
  <2>1. /\ via[t] = live /\ live # NoBridge /\ live \notin disposed /\ shared = NoBridge
        /\ live = created /\ pc'[t] = "idle"
        /\ disposed' = disposed \cup {live} /\ shared' = shared /\ created' = created
        /\ via' = via
    BY <1>0, <1>7 DEF DisposeBridge, Goto, TypeOK, BridgesInOrder
  <2>2. live \in 1..created
    BY <1>0, <2>1 DEF NoBridge
  <2>3. \A b \in 1..created : b \in disposed'
    BY <1>0, <2>1 DEF BridgesInOrder
  <2>4. /\ live' \in {live, NoBridge}
        /\ \A u \in Threads : pc[u] \in Leasing => live' = live
    BY <1>0, <1>7, <2>1 DEF DisposeBridge, BridgesInOrder
  <2>5. \A u \in Threads : u # t => pc[u] # "dispose"
    BY <1>0, <1>7 DEF DisposeBridge, BridgesInOrder
  <2>6. \A u \in Threads \ {t} : pc'[u] = pc[u] /\ via'[u] = via[u]
    BY OwnCounter
  <2>7. \A u \in Threads : pc'[u] # "dispose"
    BY <2>1, <2>5, <2>6
  <2>8. \A u \in Threads : pc'[u] = "lease" => via'[u] \in 1..created
    BY <1>0, <2>1, <2>6 DEF BridgesInOrder
  <2>9. \A u \in Threads : pc'[u] \in Leasing => via'[u] = live' /\ live' # NoBridge
    BY <1>0, <2>1, <2>4, <2>6 DEF BridgesInOrder, Leasing
  <2> QED
    BY <1>0, <2>1, <2>2, <2>3, <2>4, <2>7, <2>8, <2>9 DEF BridgesInOrder
<1>8. CASE PushStep(t) /\ UNCHANGED hub /\ pc'[t] \in Leasing
  <2>1. pc[t] \in Leasing /\ via' = via
    BY <1>8 DEF PushStep
  <2> QED
    BY <1>0, <1>8, <2>1, OwnCounter DEF BridgesInOrder, hub, Leasing
<1>9. CASE PushStep(t) /\ \E ok \in BOOLEAN : Finish(t, ok)
  <2>1. /\ via[t] = live /\ live # NoBridge /\ pc'[t] = "idle" /\ via' = via
        /\ live' = IF live \in disposed THEN NoBridge ELSE live
        /\ UNCHANGED <<shared, references, created, disposed>>
    BY <1>0, <1>9 DEF PushStep, Finish, Goto, TypeOK, BridgesInOrder
  <2>2. \A u \in Threads : u # t => pc[u] \notin Leasing
    BY <1>9 DEF PushStep, PushInv, OneAtTheGate, Locked, Leasing
  <2> QED
    BY <1>0, <2>1, <2>2, OwnCounter DEF BridgesInOrder, Leasing
<1> QED
  <2>1. ASSUME NEW l \in Lists, Publish(t, l)
        PROVE  UNCHANGED hub /\ pc'[t] \in {"idle", "announce", "queue", "find"}
    BY <1>0, <2>1 DEF Publish, Goto, TypeOK
  <2>2. CASE Announce(t) \/ EnterPushGate(t) \/ (FindBridge(t) /\ shared = NoBridge)
    BY <1>0, <1>1, <2>2 DEF Announce, EnterPushGate, FindBridge, Goto, TypeOK
  <2>3. CASE PushStep(t)
    BY <1>0, <1>8, <1>9, <2>3
       DEF PushStep, Aborted, Continues, Staged, Completed, Goto, TypeOK, Leasing
  <2> QED
    BY <1>1, <1>2, <1>3, <1>4, <1>5, <1>6, <1>7, <2>1, <2>2, <2>3 DEF Others

LEMMA ListStep ==
  ASSUME PushInv, NEW t \in Threads, Others(t) \/ PushStep(t)
  PROVE  ListInHand'
<1>0. TypeOK /\ ListInHand
  BY DEF PushInv
<1>1. ASSUME NEW l \in Lists, Publish(t, l) PROVE ListInHand'
  BY <1>0, <1>1 DEF Publish, Goto, TypeOK, ListInHand, Locked
<1>2. CASE ShareBridge(t)
  BY <1>0, <1>2 DEF ShareBridge, calls, ListInHand
<1>3. CASE CreateBridge(t) \/ ReleaseBridge(t) \/ DisposeBridge(t)
  BY <1>0, <1>3
     DEF CreateBridge, ReleaseBridge, DisposeBridge, Goto, TypeOK, ListInHand, Locked, NoPush
<1>4. CASE Announce(t)
  <2>1. latest' \in Lists /\ pc'[t] = "queue" /\ UNCHANGED outcome /\ list' = list
    BY <1>0, <1>4 DEF Announce, Goto, TypeOK, ListInHand
  <2> QED
    BY <1>0, <2>1, OwnCounter, DenylistPushAssumption DEF ListInHand, Locked
<1>5. CASE EnterPushGate(t)
  <2>1. UNCHANGED <<latest, outcome>> /\ list'[t] = latest
        /\ pc'[t] = IF latest = NoList THEN "idle" ELSE "find"
    BY <1>0, <1>5 DEF EnterPushGate, Goto, TypeOK
  <2> QED
    BY <1>0, <2>1, OwnCounter DEF ListInHand, Locked, TypeOK
<1>6. CASE FindBridge(t) \/ TakeLease(t)
  BY <1>0, <1>6 DEF FindBridge, TakeLease, Goto, TypeOK, ListInHand, Locked
<1>7. CASE PushStep(t)
  <2>1. pc[t] \in Locked /\ UNCHANGED <<latest, list>>
    BY <1>7 DEF PushStep, Locked, Leasing
  <2>2. pc'[t] \in Locked \cup {"idle"} /\ outcome'.list \in {outcome.list, list[t]}
    BY <1>0, <1>7
       DEF PushStep, Aborted, Continues, Staged, Completed, Finish, Goto, TypeOK, Locked, Leasing
  <2> QED
    BY <1>0, <2>1, <2>2, OwnCounter DEF ListInHand, Locked
<1> QED
  BY <1>1, <1>2, <1>3, <1>4, <1>5, <1>6, <1>7 DEF Others

LEMMA SentStep ==
  ASSUME PushInv, NEW t \in Threads, Others(t) \/ PushStep(t)
  PROVE  SentSoFar'
<1>0. TypeOK /\ SentSoFar
  BY DEF PushInv
<1>1. CASE \A u \in Threads : pc[u] \notin Leasing
  \* Nobody pushes: at most a first batch is due next.
  <2>1. ASSUME NEW u \in Threads, pc'[u] \in Leasing
        PROVE  pc'[u] = "send" /\ batch'[u] = 1
    BY <1>1, <2>1, OwnCounter DEF PushStep
  <2>2. ASSUME NEW u \in Threads, pc'[u] = "send" PROVE ~(batch'[u] > 1)
    BY <2>1, <2>2 DEF Leasing
  <2>3. ASSUME NEW u \in Threads PROVE pc'[u] # "commit"
    BY <2>1, <2>3 DEF Leasing
  <2> QED
    BY <2>2, <2>3 DEF SentSoFar
<1>2. CASE pc[t] \notin Leasing /\ \E v \in Threads : pc[v] \in Leasing
  \* Somebody else does: the core is left alone.
  <2>1. live # NoBridge /\ ~EnterPushGate(t)
    BY <1>2 DEF PushInv, BridgesInOrder, EnterPushGate, Leasing, Locked
  <2>2. UNCHANGED core
    BY <1>2, <2>1
       DEF Others, PushStep, Publish, ShareBridge, CreateBridge, ReleaseBridge, Announce,
           FindBridge, TakeLease, DisposeBridge, core
  <2>3. pc[t] \notin Locked
    BY <1>2 DEF PushInv, OneAtTheGate, Leasing, Locked
  <2>4. \A u \in Threads : pc'[u] \in Leasing =>
          pc'[u] = pc[u] /\ batch'[u] = batch[u] /\ list'[u] = list[u]
    BY <1>2, <2>1, <2>3, OwnCounter DEF Leasing, Locked
  <2> QED
    BY <1>0, <2>2, <2>4 DEF SentSoFar, core, Leasing
<1>3. CASE pc[t] \in Leasing
  <2>1. PushStep(t)
    BY <1>3 DEF Others, Publish, ShareBridge, CreateBridge, ReleaseBridge, Announce,
                EnterPushGate, FindBridge, TakeLease, DisposeBridge, Leasing
  <2>2. \A u \in Threads : u # t => pc'[u] \notin Leasing
    BY <1>3, OwnCounter DEF PushInv, OneAtTheGate, Leasing, Locked
  <2>3. CASE Aborted(t) \/ Completed(t)
    <3>1. pc'[t] = "idle"
      BY <1>0, <2>3 DEF Aborted, Completed, Finish, Goto, TypeOK
    <3> QED
      BY <2>2, <3>1 DEF SentSoFar, Leasing
  <2>4. CASE Continues(t)
    <3>1. /\ pc'[t] = "send" /\ batch[t] \in Nat /\ batch'[t] = batch[t] + 1
          /\ list' = list /\ core_kind' = core_kind
      BY <1>0, <2>1, <2>4 DEF Continues, PushStep, TypeOK
    <3>2. batch'[t] - 1 = batch[t]
      BY <3>1
    <3>3. /\ core_kind' = "staging" => staging' = Sent(list'[t], batch'[t] - 1)
          /\ core_kind' = "clear_only" => active' = Sent(list'[t], batch'[t] - 1)
      BY <2>4, <3>1, <3>2 DEF Continues
    <3> QED
      BY <2>2, <3>1, <3>3 DEF SentSoFar, Leasing
  <2>5. CASE Staged(t)
    <3>1. /\ pc'[t] = "commit" /\ list' = list /\ core_kind' = "staging"
          /\ staging' = Contents(list'[t])
      BY <1>0, <2>1, <2>5 DEF Staged, Goto, PushStep, TypeOK
    <3> QED
      BY <2>2, <3>1 DEF SentSoFar, Leasing
  <2> QED
    BY <2>1, <2>3, <2>4, <2>5 DEF PushStep
<1> QED
  BY <1>1, <1>2, <1>3

LEMMA WholeStep ==
  ASSUME PushInv, NEW t \in Threads, Others(t) \/ PushStep(t)
  PROVE  NeverPartial' /\ ServedBetweenPushes'
<1>0. TypeOK /\ NeverPartial /\ ServedBetweenPushes
  BY DEF PushInv
<1>1. CASE Others(t) /\ ~CreateBridge(t)
  <2>1. UNCHANGED <<core, outcome>>
    BY <1>1 DEF Others, Publish, ShareBridge, ReleaseBridge, Announce, EnterPushGate,
                FindBridge, TakeLease, DisposeBridge, core
  <2>2. live' # NoBridge => live' = live
    BY <1>1 DEF Others, Publish, ShareBridge, ReleaseBridge, Announce, EnterPushGate,
                FindBridge, TakeLease, DisposeBridge, hub
  <2>3. ASSUME NEW u \in Threads, pc[u] \in Leasing, live' # NoBridge
        PROVE  pc'[u] \in Leasing
    <3>1. pc[t] \notin Leasing
      BY <1>1 DEF Others, Publish, ShareBridge, ReleaseBridge, Announce, EnterPushGate,
                  FindBridge, TakeLease, DisposeBridge, Leasing
    <3> QED
      BY <2>3, <3>1, OwnCounter
  <2> QED
    BY <1>0, <2>1, <2>2, <2>3 DEF NeverPartial, ServedBetweenPushes, core
<1>2. CASE CreateBridge(t)
  BY <1>2 DEF CreateBridge, NoPush, NeverPartial, ServedBetweenPushes
<1>3. CASE PushStep(t)
  <2>1. pc[t] \in Leasing /\ core_kind' = core_kind /\ list' = list
        /\ live # NoBridge
    BY <1>3 DEF PushStep, PushInv, BridgesInOrder
  <2>2. CASE Aborted(t)
    <3>1. /\ core_kind = "staging" => active' = active
          /\ outcome'.served = outcome.served /\ ~outcome'.ok
      BY <2>2 DEF Aborted, Finish
    <3> QED
      BY <1>0, <2>1, <3>1 DEF NeverPartial, ServedBetweenPushes
  <2>3. CASE Completed(t)
    <3>1. /\ active' = Contents(list[t])
          /\ outcome'.served = Contents(list[t]) /\ outcome'.list = list[t]
      BY <2>3 DEF Completed, Finish
    <3> QED
      BY <3>1 DEF NeverPartial, ServedBetweenPushes
  <2>4. CASE Continues(t) \/ Staged(t)
    <3>1. /\ core_kind = "staging" => active' = active
          /\ UNCHANGED <<outcome, live>> /\ pc'[t] \in Leasing
      BY <1>0, <2>4 DEF Continues, Staged, Goto, hub, TypeOK, Leasing
    <3> QED
      BY <1>0, <2>1, <3>1 DEF NeverPartial, ServedBetweenPushes
  <2> QED
    BY <1>3, <2>2, <2>3, <2>4 DEF PushStep
<1> QED
  BY <1>1, <1>2, <1>3 DEF Others

LEMMA OfferStep ==
  ASSUME PushInv, NEW t \in Threads, Others(t) \/ PushStep(t)
  PROVE  OfferedOrPending'
<1>0. TypeOK /\ OfferedOrPending /\ BridgesInOrder /\ ListInHand /\ OneAtTheGate
  BY DEF PushInv
<1>1. CASE pc'[t] = "queue"
  <2>1. \E u \in Threads : pc'[u] = "queue"
    BY <1>1
  <2> QED
    BY <2>1 DEF OfferedOrPending, OfferPending
<1>2. CASE /\ UNCHANGED <<latest, outcome>> /\ shared' \in {shared, NoBridge}
           /\ pc[t] \notin Locked \cup {"queue"} /\ pc'[t] \notin Locked \cup {"queue"}
  <2>1. \A u \in Threads :
          /\ pc'[u] = "queue" <=> pc[u] = "queue"
          /\ pc'[u] \in Locked <=> pc[u] \in Locked
          /\ pc[u] \in Locked \cup {"queue"} =>
               pc'[u] = pc[u] /\ list'[u] = list[u] /\ via'[u] = via[u]
    BY <1>2, OwnCounter
  <2>2. \A u \in Threads : pc'[u] \in Locked /\ list'[u] # latest' =>
          \E v \in Threads : pc'[v] = "queue"
    BY <1>0, <1>2, <2>1 DEF OfferedOrPending
  <2>3. OfferPending /\ shared' = shared => OfferPending'
    BY <1>2, <2>1 DEF OfferPending, Locked
  <2> QED
    BY <1>0, <1>2, <2>2, <2>3 DEF OfferedOrPending
<1>3. CASE EnterPushGate(t)
  <2>1. /\ UNCHANGED <<latest, outcome, hub>> /\ list'[t] = latest
        /\ pc'[t] = IF latest = NoList THEN "idle" ELSE "find"
        /\ \A u \in Threads : pc[u] \notin Locked
    BY <1>0, <1>3 DEF EnterPushGate, Goto, TypeOK
  <2>2. \A u \in Threads : pc'[u] \in Locked => u = t
    BY <2>1, OwnCounter
  <2>3. CASE latest = NoList
    BY <1>0, <2>1, <2>2, <2>3 DEF OfferedOrPending, ListInHand
  <2>4. CASE latest # NoList
    BY <2>1, <2>2, <2>4 DEF OfferedOrPending, OfferPending
  <2> QED
    BY <2>3, <2>4
<1>4. CASE FindBridge(t) \/ TakeLease(t)
  <2>1. UNCHANGED <<latest, outcome, shared, list>> /\ pc[t] \in Locked
    BY <1>4 DEF FindBridge, TakeLease, hub, Locked
  <2>2. \A u \in Threads : pc[u] \in Locked => u = t
    BY <1>0, <2>1 DEF OneAtTheGate
  <2>3. \A u \in Threads : pc[u] = "queue" => pc'[u] = "queue"
    BY <2>1, OwnCounter DEF Locked
  <2>4. \A u \in Threads : pc'[u] \in Locked /\ list'[u] # latest' =>
          \E v \in Threads : pc'[v] = "queue"
    BY <1>0, <2>1, <2>2, <2>3, OwnCounter DEF OfferedOrPending
  <2>5. ASSUME shared # NoBridge, OfferPending PROVE OfferPending'
    <3>1. CASE \E u \in Threads : pc[u] = "queue"
      BY <2>3, <3>1 DEF OfferPending
    <3>2. CASE FindBridge(t) /\ list[t] = latest
      <4>1. via'[t] = shared' /\ pc'[t] = "lease" /\ list'[t] = latest'
        BY <1>0, <2>1, <2>5, <3>2 DEF FindBridge, Goto, TypeOK
      <4> QED
        BY <4>1 DEF OfferPending
    <3>3. CASE TakeLease(t) /\ list[t] = latest /\ via[t] = shared
      <4>1. pc'[t] = "send" /\ list'[t] = latest'
        BY <1>0, <2>1, <2>5, <3>3 DEF TakeLease, Goto, TypeOK, BridgesInOrder
      <4> QED
        BY <4>1 DEF OfferPending
    <3>4. FindBridge(t) => pc[t] = "find"
      BY DEF FindBridge
    <3>5. TakeLease(t) => pc[t] = "lease"
      BY DEF TakeLease
    <3> QED
      BY <1>4, <2>2, <2>5, <3>1, <3>2, <3>3, <3>4, <3>5 DEF OfferPending, Locked
  <2> QED
    BY <1>0, <2>1, <2>4, <2>5 DEF OfferedOrPending
<1>5. CASE PushStep(t)
  <2>1. /\ UNCHANGED <<latest, shared, list>> /\ pc[t] \in Locked /\ pc[t] \in Leasing
    BY <1>5 DEF PushStep, Aborted, Continues, Staged, Completed, Finish, hub, Leasing, Locked
  <2>2. \A u \in Threads : pc[u] \in Locked => u = t
    BY <1>0, <2>1 DEF OneAtTheGate
  <2>3. \A u \in Threads : pc[u] = "queue" => pc'[u] = "queue"
    BY <2>1, OwnCounter DEF Locked
  <2>4. \A u \in Threads : pc'[u] \in Locked /\ list'[u] # latest' =>
          \E v \in Threads : pc'[v] = "queue"
    BY <1>0, <2>1, <2>2, <2>3, OwnCounter DEF OfferedOrPending
  <2>5. CASE Aborted(t) \/ Completed(t)
    <3>1. outcome'.list = list[t]
      BY <2>5 DEF Aborted, Completed, Finish
    <3>2. list[t] # latest => OfferPending'
      BY <1>0, <2>1, <2>3 DEF OfferedOrPending, OfferPending
    <3> QED
      BY <2>1, <2>4, <3>1, <3>2 DEF OfferedOrPending
  <2>6. CASE Continues(t) \/ Staged(t)
    <3>1. UNCHANGED outcome /\ pc'[t] \in {"send", "commit"}
      BY <1>0, <2>6 DEF Continues, Staged, Goto, TypeOK
    <3>2. OfferPending => OfferPending'
      BY <2>1, <2>2, <2>3, <3>1 DEF OfferPending, Locked
    <3> QED
      BY <1>0, <2>1, <2>4, <3>1, <3>2 DEF OfferedOrPending
  <2> QED
    BY <1>5, <2>5, <2>6 DEF PushStep
<1> QED
  <2>1. CASE \E l \in Lists : Publish(t, l)
    <3>1. /\ UNCHANGED <<latest, outcome, shared>> /\ pc[t] = "idle" /\ pc'[t] = "announce"
      BY <1>0, <2>1 DEF Publish, Goto, TypeOK, hub
    <3> QED
      BY <1>2, <3>1 DEF Locked
  <2>2. CASE ShareBridge(t) \/ ReleaseBridge(t) \/ DisposeBridge(t)
    <3>1. /\ UNCHANGED <<latest, outcome>> /\ shared' \in {shared, NoBridge}
          /\ pc[t] \in {"idle", "dispose"} /\ pc'[t] \in {"idle", "dispose"}
      BY <1>0, <2>2 DEF ShareBridge, ReleaseBridge, DisposeBridge, Goto, TypeOK, calls
    <3> QED
      BY <1>2, <3>1 DEF Locked
  <2>3. CreateBridge(t) \/ Announce(t) => pc'[t] = "queue"
    BY <1>0 DEF CreateBridge, Announce, Goto, TypeOK
  <2> QED
    BY <1>1, <1>3, <1>4, <1>5, <2>1, <2>2, <2>3 DEF Others

LEMMA PushInvStep == PushInv /\ [Next]_vars => PushInv'
<1> SUFFICES ASSUME PushInv, [Next]_vars PROVE PushInv'
  OBVIOUS
<1>1. CASE UNCHANGED vars
  BY <1>1 DEF vars, hub, core, calls, PushInv, TypeOK, OneAtTheGate, BridgesInOrder,
              ListInHand, SentSoFar, NeverPartial, ServedBetweenPushes, OfferedOrPending,
              OfferPending
<1>2. CASE Next
  <2>1. PICK t \in Threads : Others(t) \/ PushStep(t)
    BY <1>2, NextCases
  <2> QED
    BY <2>1, TypeStep, GateStep, BridgeStep, ListStep, SentStep, WholeStep, OfferStep
       DEF PushInv
<1> QED
  BY <1>1, <1>2

-----------------------------------------------------------------------------
(* The theorems.                                                           *)

\* The strengthened invariant holds in every reachable state of a push.
THEOREM PushInvariant == Spec => []PushInv
BY InitPush, PushInvStep, PTL DEF Spec

\* The state keeps its shape: a batch that is sent is one of the list's.
THEOREM PushTypeCorrect == Spec => []TypeOK
<1>1. PushInv => TypeOK
  BY DEF PushInv
<1> QED
  BY <1>1, PushInvariant, PTL

\* With a core that knows sessions, decisions are made with whole lists only.
THEOREM WholeListsOnly == Spec => []NeverPartial
<1>1. PushInv => NeverPartial
  BY DEF PushInv
<1> QED
  BY <1>1, PushInvariant, PTL

\* A push that reports success has put its list in force, with every core.
THEOREM PublishedIsServed == Spec => []PublishedMeansServed
<1>1. PushInv => PublishedMeansServed
  BY DEF PushInv, ServedBetweenPushes, PublishedMeansServed, Quiet, Leasing
<1> QED
  BY <1>1, PushInvariant, PTL

\* When nothing runs, the shared bridge's core has been offered the latest list.
THEOREM LatestIsOffered == Spec => []CoreWasOfferedLatest
<1>1. PushInv => CoreWasOfferedLatest
  BY DEF PushInv, OfferedOrPending, OfferPending, CoreWasOfferedLatest, Quiet
<1> QED
  BY <1>1, PushInvariant, PTL

-----------------------------------------------------------------------------
(* OneListEverywhere does not hold of overlapping publications.  It holds  *)
(* of those that follow each other, whatever pushes run meanwhile.         *)

\* A list is published when the core was told of the one before.
PublishedInTurn == \A t, u \in Threads : pc[t] = "announce" /\ pc[u] = "announce" => t = u

\* The core's list is the windows' list, or the one of the thread about to tell.
DriftInv ==
  /\ \A t \in Threads : pc[t] = "announce" => list[t] = managed
  /\ (\A t \in Threads : pc[t] # "announce") => latest \in {managed, NoList}

\* The steps that concern neither list.
LEMMA DriftFrame ==
  ASSUME DriftInv, UNCHANGED <<managed, latest>>,
         \A t \in Threads : \/ pc'[t] = pc[t] /\ list'[t] = list[t]
                            \/ pc[t] # "announce" /\ pc'[t] # "announce"
  PROVE  DriftInv'
BY DEF DriftInv

LEMMA DriftStep ==
  TypeOK /\ DriftInv /\ PublishedInTurn /\ PublishedInTurn' /\ [Next]_vars => DriftInv'
<1> SUFFICES ASSUME TypeOK, DriftInv, PublishedInTurn, PublishedInTurn', [Next]_vars
             PROVE  DriftInv'
  OBVIOUS
<1> USE DEF TypeOK, Goto
<1>1. ASSUME NEW t \in Threads, NEW l \in Lists, Publish(t, l) PROVE DriftInv'
  <2>1. pc'[t] = "announce" /\ list'[t] = l /\ managed' = l
    BY <1>1 DEF Publish
  <2>2. \A u \in Threads : pc'[u] = "announce" => u = t
    BY <2>1 DEF PublishedInTurn
  <2> QED
    BY <2>1, <2>2 DEF DriftInv
<1>2. ASSUME NEW t \in Threads, Announce(t) PROVE DriftInv'
  <2>1. \A u \in Threads : pc'[u] # "announce"
    BY <1>2 DEF Announce, PublishedInTurn
  <2>2. latest' = managed'
    BY <1>2 DEF Announce, DriftInv
  <2> QED
    BY <2>1, <2>2 DEF DriftInv
<1>3. ASSUME NEW t \in Threads, EnterPushGate(t) PROVE DriftInv'
  BY <1>3, DriftFrame DEF EnterPushGate
<1>4. ASSUME NEW t \in Threads, FindBridge(t) \/ TakeLease(t) \/ DisposeBridge(t) PROVE DriftInv'
  BY <1>4, DriftFrame DEF FindBridge, TakeLease, DisposeBridge
<1>5. ASSUME NEW t \in Threads, SendBatch(t) \/ Commit(t) PROVE DriftInv'
  <2>1. UNCHANGED <<managed, latest, list>> /\ pc[t] \in {"send", "commit"}
        /\ (pc' = pc \/ pc' = [pc EXCEPT ![t] = "commit"] \/ pc' = [pc EXCEPT ![t] = "idle"])
    BY <1>5 DEF SendBatch, Commit, Finish
  <2> QED
    BY <2>1, DriftFrame
<1>6. ASSUME NEW t \in Threads, ShareBridge(t) \/ CreateBridge(t) \/ ReleaseBridge(t)
      PROVE  DriftInv'
  BY <1>6, DriftFrame DEF ShareBridge, CreateBridge, ReleaseBridge, calls
<1>7. CASE UNCHANGED vars
  BY <1>7, DriftFrame DEF vars, calls
<1> QED
  BY <1>1, <1>2, <1>3, <1>4, <1>5, <1>6, <1>7 DEF Next, Step

\* What SharedBlockedHosts.cs:27-28 says holds as long as each list was announced
\* to the core before the next one is published: windows and core have one list.
THEOREM ListsDriftByOverlap == Spec /\ []PublishedInTurn => []OneListEverywhere
<1>1. Init => DriftInv
  BY DEF Init, DriftInv
<1>2. DriftInv => OneListEverywhere
  BY DEF DriftInv, OneListEverywhere, Quiet
<1> QED
  BY <1>1, <1>2, DriftStep, PushTypeCorrect, PTL DEF Spec

-----------------------------------------------------------------------------
(* The emergency switch: who raised the flag has yet to look, or runs what *)
(* it found, whatever tab still waits for its reaction.                    *)

SwitchInv ==
  /\ SwitchTypeOK
  /\ \A t \in SwitchThreads : In(t, "snapshot") \/ In(t, "run") => engaged
  /\ engaged =>
       \A r \in Reactions : reaction[r] = "held" =>
         \/ r \in ran
         \/ \E t \in SwitchThreads :
              In(t, "snapshot") \/ (In(t, "run") /\ r \in switch_call[t].left)

(* The replay protection.                                                  *)

ClosedIsEmpty == closing \in {"cleared", "closed"} => \A s \in Sessions : host[s] = NoSession

AcceptedEarlier == \A x \in accepted : x.lifetime[2] <= registrations[x.lifetime[1]]

BurntInCore == native => \A x \in accepted : x.nonce \in consumed_nonces

\* A nonce clean-up that meets a session belongs to a lifetime before.
CleanUpIsLate ==
  \A t \in WinThreads :
    At(t, "forget") /\ host[call[t].session] # NoSession =>
      <<call[t].session, registrations[call[t].session]>> \in overtaken

Remembered ==
  \A x \in accepted :
    /\ host[x.lifetime[1]] # NoSession
    /\ x.lifetime[2] = registrations[x.lifetime[1]]
    => <<x.lifetime[1], x.nonce>> \in consumed \/ x.lifetime \in overtaken

ReplayInv == ClosedIsEmpty /\ AcceptedEarlier /\ BurntInCore /\ CleanUpIsLate /\ Remembered /\ AcceptedOnce

(* One truth with the core.                                                *)

OneEnds ==
  \A t, u \in WinThreads :
    /\ At(t, "destroy") \/ At(t, "forget")
    /\ At(u, "destroy") \/ At(u, "forget")
    /\ call[t].session = call[u].session
    => t = u

EndingInHost ==
  native /\ closing = "open" =>
    \A t \in WinThreads : At(t, "destroy") =>
      host[call[t].session] # NoSession /\ call[t].session \notin Pool

AgreeInv == OneEnds /\ EndingInHost /\ SessionsAgree

(* The switch and the broker.                                              *)

PastSwitch == {t \in WinThreads : At(t, "consume")}

LateInv == IF engaged THEN late + Cardinality(PastSwitch) <= Cardinality(WinThreads) ELSE late = 0

-----------------------------------------------------------------------------
(* Types.                                                                  *)

LEMMA ClampTtlRange == \A ttl \in Nat : ClampTtl(ttl) \in 0..MaxTtl
BY ContextBrokerAssumption DEF ClampTtl

LEMMA CreateSessionType ==
  ASSUME CoreTypeOK, NEW s \in Sessions, NEW tab \in Tabs, NEW g \in Generations,
         NEW ttl \in Nat, CreateSession(s, tab, g, ttl)
  PROVE  CoreTypeOK'
<1> DEFINE context == [tab |-> tab, generation |-> g, deadline |-> now + ClampTtl(ttl)]
<1>1. context \in SessionContext
  BY ClampTtlRange, ContextBrokerAssumption DEF CoreTypeOK, SessionContext
<1>2. sessions' \in [Sessions -> SessionContext \cup {NoSession}]
  BY <1>1 DEF CreateSession, CoreTypeOK
<1>3. lifetimes' \in [Sessions -> 0..MaxLifetimes]
  BY ContextBrokerAssumption DEF CreateSession, CoreTypeOK, Pool
<1> QED
  BY <1>2, <1>3 DEF CreateSession, CoreTypeOK

LEMMA AdvanceType ==
  ASSUME CoreTypeOK, NEW s \in Sessions, NEW tab \in Tabs, NEW g \in Generations,
         AdvanceGeneration(s, tab, g)
  PROVE  CoreTypeOK'
<1>1. [sessions[s] EXCEPT !.generation = g] \in SessionContext
  BY DEF AdvanceGeneration, MayAdvance, CoreTypeOK, SessionContext, Pool
<1> QED
  BY <1>1 DEF AdvanceGeneration, CoreTypeOK

LEMMA CoreFrame ==
  ASSUME CoreTypeOK, UNCHANGED coreVars
  PROVE  CoreTypeOK'
BY DEF CoreTypeOK, coreVars

LEMMA SwitchType ==
  ASSUME SwitchTypeOK, [SwitchNext]_switchVars
  PROVE  SwitchTypeOK'
<1> USE DEF SwitchTypeOK, SwitchCalls, MoveTo
<1>1. ASSUME NEW t \in SwitchThreads, NEW r \in Reactions, RegisterProcessReaction(t, r)
      PROVE  SwitchTypeOK'
  <2>1. [at |-> "look", reaction |-> r] \in SwitchCalls
    OBVIOUS
  <2> QED
    BY <1>1, <2>1 DEF RegisterProcessReaction
<1>2. ASSUME NEW t \in SwitchThreads, LookAtFlag(t) PROVE SwitchTypeOK'
  <2>1. switch_call[t].reaction \in Reactions
    BY <1>2 DEF LookAtFlag, In
  <2> QED
    BY <1>2, <2>1 DEF LookAtFlag
<1>3. ASSUME NEW r \in Reactions, Unregister(r) PROVE SwitchTypeOK'
  BY <1>3 DEF Unregister
<1>4. ASSUME NEW t \in SwitchThreads, Engage(t) \/ RaiseFlag(t) PROVE SwitchTypeOK'
  <2>1. [at |-> "engage"] \in SwitchCalls /\ [at |-> "snapshot"] \in SwitchCalls
    OBVIOUS
  <2> HIDE DEF SwitchCalls
  <2> QED
    BY <1>4, <2>1 DEF Engage, RaiseFlag
<1>5. ASSUME NEW t \in SwitchThreads, Snapshot(t) PROVE SwitchTypeOK'
  <2>1. [at |-> "run", left |-> Registered] \in SwitchCalls
    BY DEF Registered
  <2> QED
    BY <1>5, <2>1 DEF Snapshot
<1>6. ASSUME NEW t \in SwitchThreads, RunReaction(t) PROVE SwitchTypeOK'
  <2>1. switch_call[t].left \subseteq Reactions
    BY <1>6 DEF RunReaction, In
  <2>2. CASE switch_call[t].left = {}
    BY <1>6, <2>2 DEF RunReaction
  <2>3. CASE switch_call[t].left # {}
    <3>1. PICK r \in switch_call[t].left :
            /\ ran' = ran \cup {r}
            /\ MoveTo(t, [at |-> "run", left |-> switch_call[t].left \ {r}])
      BY <1>6, <2>3 DEF RunReaction
    <3>2. [at |-> "run", left |-> switch_call[t].left \ {r}] \in SwitchCalls
      BY <2>1
    <3> QED
      BY <1>6, <2>1, <3>1, <3>2 DEF RunReaction
  <2> QED
    BY <2>2, <2>3
<1>7. CASE UNCHANGED switchVars
  BY <1>7 DEF switchVars
<1> QED
  BY <1>1, <1>2, <1>3, <1>4, <1>5, <1>6, <1>7 DEF SwitchNext, EngageNext

-----------------------------------------------------------------------------
(* The emergency switch.                                                   *)

LEMMA SwitchInvInit == SwitchInit => SwitchInv
BY DEF SwitchInit, SwitchInv, SwitchTypeOK, In

LEMMA SwitchInvStep ==
  ASSUME SwitchInv, [SwitchNext]_switchVars
  PROVE  SwitchInv'
<1> DEFINE Running(r) == \E t \in SwitchThreads :
                           In(t, "snapshot") \/ (In(t, "run") /\ r \in switch_call[t].left)
           Cared(r) == reaction[r] = "held" => r \in ran \/ Running(r)
<1> USE KillSwitchAssumption DEF SwitchInv, SwitchTypeOK, SwitchCalls, MoveTo, In
<1>0. SwitchTypeOK'
  BY SwitchType DEF SwitchInv
<1>1. ASSUME NEW t \in SwitchThreads, NEW r \in Reactions, RegisterProcessReaction(t, r)
      PROVE  SwitchInv'
  <2>1. \A u \in SwitchThreads, at \in {"snapshot", "run"} :
          In(u, at) <=> (In(u, at))'
    BY <1>1 DEF RegisterProcessReaction
  <2>2. \A u \in SwitchThreads : In(u, "run") => switch_call'[u].left = switch_call[u].left
    BY <1>1 DEF RegisterProcessReaction
  <2>3. \A q \in Reactions : reaction'[q] = "held" => reaction[q] = "held"
    BY <1>1 DEF RegisterProcessReaction
  <2> QED
    BY <1>0, <1>1, <2>1, <2>2, <2>3 DEF RegisterProcessReaction
<1>2. ASSUME NEW t \in SwitchThreads, LookAtFlag(t) PROVE SwitchInv'
  <2>1. \A u \in SwitchThreads, at \in {"snapshot", "run"} :
          In(u, at) <=> (In(u, at))'
    BY <1>2 DEF LookAtFlag
  <2>2. \A u \in SwitchThreads : In(u, "run") => switch_call'[u].left = switch_call[u].left
    BY <1>2 DEF LookAtFlag
  <2>3. \A q \in Reactions : reaction'[q] = "held" /\ engaged =>
          reaction[q] = "held" \/ q \in ran'
    BY <1>2 DEF LookAtFlag
  <2>4. ran \subseteq ran' /\ engaged' = engaged
    BY <1>2 DEF LookAtFlag
  <2> QED
    BY <1>0, <2>1, <2>2, <2>3, <2>4
<1>3. ASSUME NEW r \in Reactions, Unregister(r) PROVE SwitchInv'
  BY <1>0, <1>3 DEF Unregister
<1>4. ASSUME NEW t \in SwitchThreads, Engage(t) PROVE SwitchInv'
  <2>1. \A u \in SwitchThreads, at \in {"snapshot", "run"} :
          In(u, at) <=> (In(u, at))'
    BY <1>4 DEF Engage
  <2> QED
    BY <1>0, <1>4, <2>1 DEF Engage
<1>5. ASSUME NEW t \in SwitchThreads, RaiseFlag(t) PROVE SwitchInv'
  <2>1. (In(t, "snapshot"))' /\ engaged'
    BY <1>5 DEF RaiseFlag
  <2> QED
    BY <1>0, <1>5, <2>1 DEF RaiseFlag
<1>6. ASSUME NEW t \in SwitchThreads, Snapshot(t) PROVE SwitchInv'
  <2>1. \A q \in Reactions : reaction[q] = "held" => q \in Registered
    BY DEF Registered
  <2>2. [at |-> "run", left |-> Registered] \in SwitchCalls
    BY DEF Registered
  <2>3. switch_call'[t] = [at |-> "run", left |-> Registered]
    BY <1>6 DEF Snapshot
  <2>4. (In(t, "run"))' /\ switch_call'[t].left = Registered
    BY <2>2, <2>3
  <2> QED
    BY <1>0, <1>6, <2>1, <2>4 DEF Snapshot
<1>7. ASSUME NEW t \in SwitchThreads, RunReaction(t) PROVE SwitchInv'
  <2>1. CASE switch_call[t].left = {}
    BY <1>0, <1>7, <2>1 DEF RunReaction
  <2>2. CASE switch_call[t].left # {}
    <3>1. PICK r \in switch_call[t].left :
            /\ ran' = ran \cup {r}
            /\ MoveTo(t, [at |-> "run", left |-> switch_call[t].left \ {r}])
      BY <1>7, <2>2 DEF RunReaction
    <3>2. ASSUME engaged, NEW q \in Reactions, reaction[q] = "held", q \notin ran'
          PROVE  (Running(q))'
      <4>1. PICK u \in SwitchThreads :
              In(u, "snapshot") \/ (In(u, "run") /\ q \in switch_call[u].left)
        BY <3>1, <3>2
      <4>2. CASE u = t
        BY <1>7, <3>1, <3>2, <4>1, <4>2 DEF RunReaction
      <4>3. CASE u # t
        BY <3>1, <4>1, <4>3
      <4> QED
        BY <4>2, <4>3
    <3>3. \A u \in SwitchThreads : (In(u, "snapshot") \/ In(u, "run"))' => engaged
      BY <1>7, <3>1 DEF RunReaction
    <3>4. reaction' = reaction /\ engaged' = engaged
      BY <1>7 DEF RunReaction
    <3> QED
      BY <1>0, <3>2, <3>3, <3>4
  <2> QED
    BY <2>1, <2>2
<1>8. CASE UNCHANGED switchVars
  BY <1>8 DEF switchVars
<1> QED
  BY <1>1, <1>2, <1>3, <1>4, <1>5, <1>6, <1>7, <1>8 DEF SwitchNext, EngageNext
-----------------------------------------------------------------------------
(* Types of the broker.                                                    *)

LEMMA SwitchFrame ==
  ASSUME SwitchTypeOK, UNCHANGED switchVars
  PROVE  SwitchTypeOK'
BY DEF SwitchTypeOK, switchVars

LEMMA RegisterType ==
  ASSUME WindowsTypeOK, NEW s \in Sessions, NEW tab \in Tabs, RegisterSession(s, tab)
  PROVE  WindowsTypeOK'
<1> USE WindowsBrokerAssumption DEF WindowsTypeOK, Ending
<1>0. 0 \in Generations
  BY ContextBrokerAssumption DEF Generations
<1>1. CoreTypeOK' /\ SwitchTypeOK'
  BY <1>0, CreateSessionType, CoreFrame, SwitchFrame DEF RegisterSession
<1>2. CASE UNCHANGED <<host, registrations, overtaken>>
  BY <1>1, <1>2 DEF RegisterSession
<1>3. CASE ~UNCHANGED <<host, registrations, overtaken>>
  <2>1. /\ host' = [host EXCEPT ![s] = [tab |-> tab, generation |-> 0]]
        /\ registrations' = [registrations EXCEPT ![s] = @ + 1]
        /\ overtaken' \in {overtaken, overtaken \cup {<<s, registrations'[s]>>}}
    BY <1>3 DEF RegisterSession
  <2>2. host' \in [Sessions -> HostSession \cup {NoSession}]
    BY <1>0, <2>1 DEF HostSession
  <2>3. registrations' \in [Sessions -> Nat]
    BY <2>1
  <2>4. overtaken' \subseteq Sessions \X Nat
    BY <2>1, <2>3
  <2> QED
    BY <1>1, <2>2, <2>3, <2>4 DEF RegisterSession
<1> QED
  BY <1>2, <1>3

LEMMA UpdateType ==
  ASSUME WindowsTypeOK, NEW s \in Sessions, NEW tab \in Tabs, NEW g \in Generations,
         UpdateDocumentGeneration(s, tab, g)
  PROVE  WindowsTypeOK'
<1> USE DEF WindowsTypeOK
<1>1. CoreTypeOK' /\ SwitchTypeOK'
  BY AdvanceType, CoreFrame, SwitchFrame DEF UpdateDocumentGeneration
<1>2. host' \in [Sessions -> HostSession \cup {NoSession}]
  BY DEF UpdateDocumentGeneration, HostSession
<1>3. issued' \subseteq authorized'
  BY DEF UpdateDocumentGeneration
<1> QED
  BY <1>1, <1>2, <1>3 DEF UpdateDocumentGeneration

LEMMA DestroyType ==
  ASSUME WindowsTypeOK, NEW t \in WinThreads, NEW s \in Sessions, DestroySession(t, s)
  PROVE  WindowsTypeOK'
<1> USE DEF WindowsTypeOK
<1>1. CoreTypeOK' /\ SwitchTypeOK'
  BY SwitchFrame, CoreFrame DEF DestroySession, EndInCore, RemoveSession, CoreTypeOK
<1>2. [at |-> "destroy", session |-> s] \in BrokerCalls
  BY DEF BrokerCalls
<1>3. issued' \subseteq authorized'
  BY DEF DestroySession, EndInCore
<1> QED
  BY <1>1, <1>2, <1>3 DEF DestroySession, Begin, brokerVars

LEMMA DestroyHostType ==
  ASSUME WindowsTypeOK, NEW t \in WinThreads, DestroyHostSession(t)
  PROVE  WindowsTypeOK'
<1> USE DEF WindowsTypeOK
<1>1. CoreTypeOK' /\ SwitchTypeOK'
  BY SwitchFrame, CoreFrame DEF DestroyHostSession
<1>2. [at |-> "forget", session |-> call[t].session] \in BrokerCalls
  BY DEF BrokerCalls, DestroyHostSession, At
<1> QED
  BY <1>1, <1>2 DEF DestroyHostSession, EndInHost

LEMMA ForgetType ==
  ASSUME WindowsTypeOK, NEW t \in WinThreads, ForgetNonces(t)
  PROVE  WindowsTypeOK'
<1> USE DEF WindowsTypeOK
<1>1. CoreTypeOK' /\ SwitchTypeOK'
  BY SwitchFrame, CoreFrame DEF ForgetNonces
<1>2. consumed' \subseteq consumed
  BY DEF ForgetNonces
<1>3. IsFiniteSet(consumed') /\ Cardinality(consumed') <= Cardinality(consumed)
  BY <1>2, FS_Subset
<1>4. Cardinality(consumed') <= LedgerSize
  BY <1>2, <1>3, FS_Subset, FS_CardinalityType, WindowsBrokerAssumption
<1> QED
  BY <1>1, <1>2, <1>3, <1>4 DEF ForgetNonces, End

LEMMA EvaluateType ==
  ASSUME WindowsTypeOK, NEW s \in Sessions, NEW tab \in Tabs, NEW g \in Generations,
         EvaluateNavigation(s, tab, g)
  PROVE  WindowsTypeOK'
<1> USE DEF WindowsTypeOK
<1>1. CoreTypeOK' /\ SwitchTypeOK'
  BY SwitchFrame, CoreFrame DEF EvaluateNavigation
<1>2. PICK n \in Nonces \ {a.nonce : a \in authorized} :
        LET a == [session |-> s, tab |-> tab, generation |-> g, nonce |-> n,
                  expires_at |-> now + SessionTtl]
        IN /\ authorized' = authorized \cup {a}
           /\ issued' = IF native THEN issued \cup {a} ELSE issued
  BY DEF EvaluateNavigation
<1>3. [session |-> s, tab |-> tab, generation |-> g, nonce |-> n,
       expires_at |-> now + SessionTtl] \in Authorization
  BY WindowsBrokerAssumption, ContextBrokerAssumption DEF Authorization, CoreTypeOK
<1> QED
  BY <1>1, <1>2, <1>3 DEF EvaluateNavigation, brokerVars

LEMMA TryConsumeType ==
  ASSUME WindowsTypeOK, NEW t \in WinThreads, NEW a \in authorized, TryConsumeNavigation(t, a)
  PROVE  WindowsTypeOK'
<1> USE DEF WindowsTypeOK
<1>1. CoreTypeOK' /\ SwitchTypeOK'
  BY SwitchFrame, CoreFrame DEF TryConsumeNavigation
<1>2. [at |-> "consume", action |-> a] \in BrokerCalls
  BY DEF BrokerCalls
<1> QED
  BY <1>1, <1>2 DEF TryConsumeNavigation, Begin, brokerVars

\* What a consumption in hand is about.
LEMMA ActionInHand ==
  ASSUME WindowsTypeOK, NEW t \in WinThreads, At(t, "consume")
  PROVE  call[t].action \in Authorization
BY DEF WindowsTypeOK, At, BrokerCalls

LEMMA ConsumeType ==
  ASSUME WindowsTypeOK, NEW t \in WinThreads, ConsumeSection(t)
  PROVE  WindowsTypeOK'
<1> DEFINE a == call[t].action
           key == <<a.session, a.nonce>>
           lifetime == <<a.session, registrations[a.session]>>
           again == \E x \in accepted : /\ x.nonce = a.nonce
                                        /\ native \/ x.lifetime = lifetime
           entry == [nonce |-> a.nonce, lifetime |-> lifetime, again |-> again]
<1>0. a \in Authorization
  BY ActionInHand DEF ConsumeSection
<1> USE DEF WindowsTypeOK
<1>1. CoreTypeOK'
  <2>1. CASE UNCHANGED coreVars
    BY <2>1, CoreFrame
  <2>2. CASE ConsumeNonce(a.nonce)
    BY <1>0, <2>2 DEF ConsumeNonce, CoreTypeOK, Authorization
  <2> QED
    BY <2>1, <2>2 DEF ConsumeSection
<1>2. SwitchTypeOK'
  BY SwitchFrame DEF ConsumeSection
<1>3. /\ consumed' \subseteq Sessions \X Nonces
      /\ IsFiniteSet(consumed') /\ Cardinality(consumed') <= LedgerSize
  <2>1. CASE UNCHANGED consumed
    BY <2>1
  <2>2. CASE consumed' = consumed \cup {key} /\ MayRecord(key)
    <3>1. Cardinality(consumed \cup {key}) = Cardinality(consumed) + 1
      BY <2>2, FS_AddElement DEF MayRecord
    <3>2. IsFiniteSet(consumed \cup {key})
      BY FS_AddElement
    <3> QED
      BY <1>0, <2>2, <3>1, <3>2, FS_CardinalityType, WindowsBrokerAssumption
         DEF MayRecord, Authorization
  <2> QED
    BY <2>1, <2>2 DEF ConsumeSection
<1>4. accepted' \subseteq [nonce : Nonces, lifetime : Sessions \X Nat, again : BOOLEAN]
  <2>1. entry \in [nonce : Nonces, lifetime : Sessions \X Nat, again : BOOLEAN]
    BY <1>0 DEF Authorization
  <2>2. accepted' \in {accepted, accepted \cup {entry}}
    BY DEF ConsumeSection
  <2> QED
    BY <2>1, <2>2
<1>5. late' \in Nat /\ call' \in [WinThreads -> BrokerCalls \cup {NoCall}]
  BY DEF ConsumeSection, End
<1> QED
  BY <1>1, <1>2, <1>3, <1>4, <1>5 DEF ConsumeSection

LEMMA WindowsTypeInit == WindowsInit => WindowsTypeOK
<1> SUFFICES ASSUME WindowsInit PROVE WindowsTypeOK
  OBVIOUS
<1>1. CoreTypeOK
  BY ContextBrokerAssumption DEF WindowsInit, CoreInit, CoreTypeOK
<1>2. SwitchTypeOK
  BY DEF WindowsInit, SwitchInit, SwitchTypeOK
<1>3. IsFiniteSet({}) /\ Cardinality({}) = 0
  BY FS_EmptySet
<1> QED
  BY <1>1, <1>2, <1>3, WindowsBrokerAssumption DEF WindowsInit, WindowsTypeOK

LEMMA WindowsTypeStep ==
  ASSUME WindowsTypeOK, [WindowsNext]_windowsVars
  PROVE  WindowsTypeOK'
<1>1. CASE Dispose
  BY <1>1, CoreFrame, SwitchFrame, FS_EmptySet, WindowsBrokerAssumption
     DEF Dispose, WindowsTypeOK
<1>2. CASE WindowsTick
  BY <1>2, SwitchFrame, ContextBrokerAssumption
     DEF WindowsTick, Tick, WindowsTypeOK, CoreTypeOK, brokerVars
<1>3. CASE SwitchNext /\ UNCHANGED brokerOnly
  BY <1>3, CoreFrame, SwitchType DEF WindowsTypeOK, brokerOnly, brokerVars
<1>4. CASE UNCHANGED windowsVars
  BY <1>4, CoreFrame, SwitchFrame DEF WindowsTypeOK, windowsVars, brokerOnly, brokerVars
<1> QED
  BY <1>1, <1>2, <1>3, <1>4, RegisterType, UpdateType, DestroyType, DestroyHostType, ForgetType,
     EvaluateType, TryConsumeType, ConsumeType
     DEF WindowsNext, BrokerNext
-----------------------------------------------------------------------------
(* The replay protection.  Of the core it needs that consumed nonces stay. *)

LEMMA RegisterReplay ==
  ASSUME WindowsTypeOK, ReplayInv, NEW s \in Sessions, NEW tab \in Tabs, RegisterSession(s, tab)
  PROVE  ReplayInv'
<1> USE DEF ReplayInv, WindowsTypeOK
<1>0. /\ UNCHANGED <<native, consumed, closing, call, accepted>>
      /\ consumed_nonces' = consumed_nonces
  BY DEF RegisterSession, CreateSession, coreVars
<1>1. CASE UNCHANGED <<host, registrations, overtaken>>
  BY <1>0, <1>1 DEF ClosedIsEmpty, AcceptedEarlier, BurntInCore, CleanUpIsLate, Remembered,
                    AcceptedOnce, At
<1>2. CASE ~UNCHANGED <<host, registrations, overtaken>>
  <2>1. /\ host[s] = NoSession
        /\ host' = [host EXCEPT ![s] = [tab |-> tab, generation |-> 0]]
        /\ registrations' = [registrations EXCEPT ![s] = @ + 1]
        /\ overtaken' = IF Ending(s) THEN overtaken \cup {<<s, registrations'[s]>>} ELSE overtaken
        /\ closing \in {"open", "flagged"}
    BY <1>2 DEF RegisterSession
  <2>2. registrations'[s] = registrations[s] + 1
    BY <2>1
  <2>3. ClosedIsEmpty'
    BY <1>0, <2>1 DEF ClosedIsEmpty
  <2>4. AcceptedEarlier'
    BY <1>0, <2>1 DEF AcceptedEarlier
  <2>5. BurntInCore' /\ AcceptedOnce'
    BY <1>0, <2>1 DEF BurntInCore, AcceptedOnce
  <2>6. CleanUpIsLate'
    <3> SUFFICES ASSUME NEW t \in WinThreads, (At(t, "forget"))',
                        host'[call[t].session] # NoSession
                 PROVE  <<call[t].session, registrations'[call[t].session]>> \in overtaken'
      BY <1>0 DEF CleanUpIsLate
    <3>1. At(t, "forget") /\ call[t].session \in Sessions
      BY <1>0 DEF At, BrokerCalls
    <3>2. CASE call[t].session = s
      BY <2>1, <3>1, <3>2 DEF Ending
    <3>3. CASE call[t].session # s
      BY <2>1, <3>1, <3>3 DEF CleanUpIsLate
    <3> QED
      BY <3>2, <3>3
  <2>7. Remembered'
    <3> SUFFICES ASSUME NEW x \in accepted, host'[x.lifetime[1]] # NoSession,
                        x.lifetime[2] = registrations'[x.lifetime[1]]
                 PROVE  <<x.lifetime[1], x.nonce>> \in consumed \/ x.lifetime \in overtaken'
      BY <1>0 DEF Remembered
    <3>1. x.lifetime[1] # s
      BY <2>2 DEF AcceptedEarlier
    <3> QED
      BY <2>1, <3>1 DEF Remembered
  <2> QED
    BY <2>3, <2>4, <2>5, <2>6, <2>7
<1> QED
  BY <1>1, <1>2

\* A step that ends no session, records no nonce and moves no clean-up.
LEMMA ReplayFrame ==
  ASSUME WindowsTypeOK, ReplayInv,
         UNCHANGED <<native, consumed, closing, registrations, overtaken, accepted>>,
         consumed_nonces \subseteq consumed_nonces',
         \A s \in Sessions : host'[s] # NoSession => host[s] # NoSession,
         \A t \in WinThreads : (At(t, "forget"))' => At(t, "forget") /\ call'[t] = call[t]
  PROVE  ReplayInv'
<1> USE DEF ReplayInv, WindowsTypeOK
<1>1. ClosedIsEmpty'
  BY DEF ClosedIsEmpty
<1>2. AcceptedEarlier' /\ BurntInCore' /\ AcceptedOnce'
  BY DEF AcceptedEarlier, BurntInCore, AcceptedOnce
<1>3. CleanUpIsLate'
  <2> SUFFICES ASSUME NEW t \in WinThreads, (At(t, "forget"))',
                      host'[call'[t].session] # NoSession
               PROVE  <<call'[t].session, registrations[call'[t].session]>> \in overtaken
    BY DEF CleanUpIsLate
  <2>1. At(t, "forget") /\ call'[t] = call[t] /\ call[t].session \in Sessions
    BY DEF At, BrokerCalls
  <2> QED
    BY <2>1 DEF CleanUpIsLate
<1>4. Remembered'
  BY DEF Remembered
<1> QED
  BY <1>1, <1>2, <1>3, <1>4

LEMMA DestroyHostReplay ==
  ASSUME WindowsTypeOK, ReplayInv, NEW t \in WinThreads, DestroyHostSession(t)
  PROVE  ReplayInv'
<1> USE DEF ReplayInv, WindowsTypeOK
<1> DEFINE s == call[t].session
<1>1. /\ s \in Sessions
      /\ host' = [host EXCEPT ![s] = NoSession]
      /\ call' = [call EXCEPT ![t] = [at |-> "forget", session |-> s]]
      /\ UNCHANGED <<native, consumed, closing, registrations, overtaken, accepted>>
      /\ consumed_nonces' = consumed_nonces
  BY DEF DestroyHostSession, EndInHost, At, BrokerCalls, coreVars
<1>2. ClosedIsEmpty' /\ AcceptedEarlier' /\ BurntInCore' /\ AcceptedOnce'
  BY <1>1 DEF ClosedIsEmpty, AcceptedEarlier, BurntInCore, AcceptedOnce
<1>3. CleanUpIsLate'
  <2> SUFFICES ASSUME NEW u \in WinThreads, (At(u, "forget"))',
                      host'[call'[u].session] # NoSession
               PROVE  <<call'[u].session, registrations[call'[u].session]>> \in overtaken
    BY <1>1 DEF CleanUpIsLate
  <2>1. u # t
    BY <1>1
  <2>2. At(u, "forget") /\ call'[u] = call[u] /\ call[u].session \in Sessions
    BY <1>1, <2>1 DEF At, BrokerCalls
  <2> QED
    BY <1>1, <2>2 DEF CleanUpIsLate
<1>4. Remembered'
  BY <1>1 DEF Remembered
<1> QED
  BY <1>2, <1>3, <1>4

LEMMA ForgetReplay ==
  ASSUME WindowsTypeOK, ReplayInv, NEW t \in WinThreads, ForgetNonces(t)
  PROVE  ReplayInv'
<1> USE DEF ReplayInv, WindowsTypeOK
<1> DEFINE s == call[t].session
<1>1. /\ s \in Sessions /\ At(t, "forget")
      /\ consumed' = {key \in consumed : key[1] # s}
      /\ call' = [call EXCEPT ![t] = NoCall]
      /\ UNCHANGED <<native, host, closing, registrations, overtaken, accepted>>
      /\ consumed_nonces' = consumed_nonces
  BY DEF ForgetNonces, End, At, BrokerCalls, coreVars
<1>2. ClosedIsEmpty' /\ AcceptedEarlier' /\ BurntInCore' /\ AcceptedOnce'
  BY <1>1 DEF ClosedIsEmpty, AcceptedEarlier, BurntInCore, AcceptedOnce
<1>3. CleanUpIsLate'
  BY <1>1 DEF CleanUpIsLate, At
<1>4. Remembered'
  <2> SUFFICES ASSUME NEW x \in accepted, host[x.lifetime[1]] # NoSession,
                      x.lifetime[2] = registrations[x.lifetime[1]]
               PROVE  <<x.lifetime[1], x.nonce>> \in consumed' \/ x.lifetime \in overtaken
    BY <1>1 DEF Remembered
  <2>1. CASE x.lifetime[1] = s
    <3>1. <<s, registrations[s]>> \in overtaken
      BY <1>1, <2>1 DEF CleanUpIsLate
    <3>2. x.lifetime = <<s, registrations[s]>>
      BY <2>1
    <3> QED
      BY <3>1, <3>2
  <2>2. CASE x.lifetime[1] # s
    BY <1>1, <2>2 DEF Remembered
  <2> QED
    BY <2>1, <2>2
<1> QED
  BY <1>2, <1>3, <1>4

LEMMA ConsumeReplay ==
  ASSUME WindowsTypeOK, ReplayInv, NEW t \in WinThreads, ConsumeSection(t)
  PROVE  ReplayInv'
<1> DEFINE a == call[t].action
           key == <<a.session, a.nonce>>
           lifetime == <<a.session, registrations[a.session]>>
           again == \E x \in accepted : /\ x.nonce = a.nonce
                                        /\ native \/ x.lifetime = lifetime
           entry == [nonce |-> a.nonce, lifetime |-> lifetime, again |-> again]
<1>0. /\ a.session \in Sessions /\ a.nonce \in Nonces
      /\ [tab |-> a.tab, generation |-> a.generation] \in HostSession
  BY ActionInHand DEF ConsumeSection, Authorization, HostSession
<1>1. /\ UNCHANGED <<native, host, closing, registrations, overtaken>>
      /\ call' = [call EXCEPT ![t] = NoCall]
      /\ consumed_nonces \subseteq consumed_nonces'
  BY DEF ConsumeSection, End, ConsumeNonce, coreVars
<1> USE DEF ReplayInv, WindowsTypeOK
<1>2. CASE UNCHANGED <<consumed, accepted>>
  BY <1>1, <1>2, ReplayFrame DEF At
<1>3. CASE /\ IsValidInCurrentSession(a) /\ MayRecord(key)
           /\ native => MayConsume(a.nonce) /\ ConsumeNonce(a.nonce)
           /\ consumed' = consumed \cup {key} /\ accepted' = accepted \cup {entry}
  <2>1. host[a.session] # NoSession
    BY <1>0, <1>3, WindowsBrokerAssumption DEF IsValidInCurrentSession
  <2>2. ClosedIsEmpty' /\ CleanUpIsLate'
    BY <1>1 DEF ClosedIsEmpty, CleanUpIsLate, At
  <2>3. AcceptedEarlier'
    BY <1>0, <1>1, <1>3 DEF AcceptedEarlier
  <2>4. BurntInCore'
    BY <1>1, <1>3 DEF BurntInCore, ConsumeNonce
  <2>5. Remembered'
    BY <1>1, <1>3 DEF Remembered
  <2>6. again => ~native /\ lifetime \in overtaken
    <3> SUFFICES ASSUME NEW x \in accepted, x.nonce = a.nonce, native \/ x.lifetime = lifetime
                 PROVE  ~native /\ lifetime \in overtaken
      OBVIOUS
    <3>1. ~native
      BY <1>3 DEF BurntInCore, MayConsume
    <3>2. lifetime \in overtaken
      BY <1>3, <2>1, <3>1 DEF Remembered, MayRecord
    <3> QED
      BY <3>1, <3>2
  <2>7. AcceptedOnce'
    BY <1>1, <1>3, <2>6 DEF AcceptedOnce
  <2> QED
    BY <2>2, <2>3, <2>4, <2>5, <2>7
<1> QED
  BY <1>2, <1>3 DEF ConsumeSection

LEMMA ReplayStep ==
  ASSUME WindowsTypeOK, ReplayInv, [WindowsNext]_windowsVars
  PROVE  ReplayInv'
<1>1. CASE Dispose
  <2> USE DEF ReplayInv, WindowsTypeOK
  <2>1. /\ UNCHANGED <<native, registrations, overtaken, call, accepted>>
        /\ consumed_nonces' = consumed_nonces
        /\ host' = host \/ host' = [s \in Sessions |-> NoSession]
        /\ closing' \in {"cleared", "closed"} => host' = [s \in Sessions |-> NoSession]
        /\ consumed' = consumed \/ host' = [s \in Sessions |-> NoSession]
    BY <1>1 DEF Dispose, coreVars, ClosedIsEmpty
  <2>2. ClosedIsEmpty'
    BY <2>1 DEF ClosedIsEmpty
  <2>3. AcceptedEarlier' /\ BurntInCore' /\ AcceptedOnce'
    BY <2>1 DEF AcceptedEarlier, BurntInCore, AcceptedOnce
  <2>4. CleanUpIsLate'
    BY <2>1 DEF CleanUpIsLate, At, BrokerCalls
  <2>5. Remembered'
    BY <2>1 DEF Remembered
  <2> QED
    BY <2>2, <2>3, <2>4, <2>5
<1>2. ASSUME NEW s \in Sessions, NEW tab \in Tabs, NEW g \in Generations,
             UpdateDocumentGeneration(s, tab, g)
      PROVE  ReplayInv'
  <2>1. \A x \in Sessions : host'[x] # NoSession => host[x] # NoSession
    BY <1>2 DEF UpdateDocumentGeneration, WindowsTypeOK
  <2> QED
    BY <1>2, <2>1, ReplayFrame DEF UpdateDocumentGeneration, AdvanceGeneration, coreVars, At
<1>3. ASSUME NEW s \in Sessions, NEW tab \in Tabs, NEW g \in Generations,
             EvaluateNavigation(s, tab, g)
      PROVE  ReplayInv'
  BY <1>3, ReplayFrame DEF EvaluateNavigation, coreVars, brokerVars, At
<1>4. ASSUME NEW t \in WinThreads, NEW s \in Sessions, DestroySession(t, s) PROVE ReplayInv'
  <2>1. \A u \in WinThreads : (At(u, "forget"))' => At(u, "forget") /\ call'[u] = call[u]
    BY <1>4 DEF DestroySession, Begin, At, WindowsTypeOK
  <2> QED
    BY <1>4, <2>1, ReplayFrame DEF DestroySession, EndInCore, RemoveSession, coreVars, brokerVars
<1>5. ASSUME NEW t \in WinThreads, NEW a \in authorized, TryConsumeNavigation(t, a)
      PROVE  ReplayInv'
  <2>1. \A u \in WinThreads : (At(u, "forget"))' => At(u, "forget") /\ call'[u] = call[u]
    BY <1>5 DEF TryConsumeNavigation, Begin, At, WindowsTypeOK
  <2> QED
    BY <1>5, <2>1, ReplayFrame DEF TryConsumeNavigation, coreVars, brokerVars
<1>6. CASE WindowsTick
  BY <1>6, ReplayFrame DEF WindowsTick, Tick, brokerVars, At
<1>7. CASE (SwitchNext /\ UNCHANGED brokerOnly) \/ UNCHANGED windowsVars
  BY <1>7, ReplayFrame DEF brokerOnly, windowsVars, brokerVars, coreVars, At
<1> QED
  BY <1>1, <1>2, <1>3, <1>4, <1>5, <1>6, <1>7, RegisterReplay, DestroyHostReplay, ForgetReplay,
     ConsumeReplay DEF WindowsNext, BrokerNext
-----------------------------------------------------------------------------
(* Host and core.                                                          *)

EndingCall(t) == At(t, "destroy") \/ At(t, "forget")

\* While the broker is open, a pool that holds what the host holds has room for
\* what the host has room for: no session is evicted.
LEMMA NothingEvicted ==
  ASSUME NEW s \in Sessions, NEW held \in SUBSET Sessions, Pool \subseteq held,
         Cardinality(held) < MaxSessions
  PROVE  Evicted(s) = {} /\ Cardinality(Pool \ Evicted(s)) < MaxSessions
<1>1. IsFiniteSet(held) /\ Cardinality(Pool) <= Cardinality(held)
  BY WindowsBrokerAssumption, FS_Subset
<1>2. Cardinality(Pool) \in Nat /\ Cardinality(held) \in Nat
  BY <1>1, FS_Subset, FS_CardinalityType
<1>3. ~(Cardinality(Pool) >= MaxSessions)
  BY <1>1, <1>2, ContextBrokerAssumption
<1>4. Evicted(s) = {}
  BY <1>3 DEF Evicted
<1>5. Pool \ Evicted(s) = Pool
  BY <1>4
<1> QED
  BY <1>1, <1>2, <1>4, <1>5, ContextBrokerAssumption

LEMMA RegisterAgree ==
  ASSUME WindowsTypeOK, AgreeInv, NEW s \in Sessions, NEW tab \in Tabs, RegisterSession(s, tab)
  PROVE  AgreeInv'
<1> USE DEF AgreeInv, WindowsTypeOK
<1>1. UNCHANGED <<native, closing, call>> /\ host[s] = NoSession
  BY DEF RegisterSession
<1>2. OneEnds'
  BY <1>1 DEF OneEnds, At
<1>3. CASE ~(native /\ closing = "open")
  BY <1>1, <1>2, <1>3 DEF EndingInHost, SessionsAgree
<1>4. CASE native /\ closing = "open"
  <2> DEFINE held == {x \in Sessions : host[x] # NoSession}
             context == [tab |-> tab, generation |-> 0, deadline |-> now + ClampTtl(SessionTtl)]
  <2>1. Pool \subseteq held
    BY <1>4 DEF SessionsAgree, EndingInHost, Pool
  <2>2. Evicted(s) = {} /\ Cardinality(Pool \ Evicted(s)) < MaxSessions
    BY <2>1, NothingEvicted DEF RegisterSession
  <2>3. sessions' = [sessions EXCEPT ![s] = context]
    BY <1>4, <2>2 DEF RegisterSession, CreateSession, CoreTypeOK
  <2>4. context \in SessionContext
    BY ClampTtlRange, ContextBrokerAssumption, WindowsBrokerAssumption
       DEF CoreTypeOK, SessionContext, Generations
  <2>5. sessions'[s] = context /\ sessions'[s] # NoSession
    BY <2>3, <2>4, ContextBrokerAssumption DEF CoreTypeOK
  <2>6. host' = [host EXCEPT ![s] = [tab |-> tab, generation |-> 0]]
    BY <1>4, <2>5 DEF RegisterSession
  <2>7. [tab |-> tab, generation |-> 0] # NoSession
    BY ContextBrokerAssumption, WindowsBrokerAssumption DEF HostSession, Generations
  <2>8. \A t \in WinThreads : At(t, "destroy") => call[t].session # s
    BY <1>1, <1>4 DEF EndingInHost
  <2>9. EndingInHost'
    <3> SUFFICES ASSUME NEW t \in WinThreads, At(t, "destroy")
                 PROVE  host'[call[t].session] # NoSession /\ call[t].session \notin Pool'
      BY <1>1, <1>4 DEF EndingInHost, At
    <3>1. call[t].session # s /\ call[t].session \in Sessions
      BY <2>8 DEF At, BrokerCalls
    <3> QED
      BY <1>4, <2>3, <2>6, <3>1 DEF EndingInHost, Pool, CoreTypeOK
  <2>10. SessionsAgree'
    <3> SUFFICES ASSUME NEW x \in Sessions
                 PROVE  \/ \E t \in WinThreads : At(t, "destroy") /\ call[t].session = x
                        \/ /\ (host'[x] = NoSession) = (x \notin Pool')
                           /\ x \in Pool' => host'[x] = [tab |-> sessions'[x].tab,
                                                         generation |-> sessions'[x].generation]
      BY <1>1 DEF SessionsAgree, At
    <3>1. CASE x = s
      BY <2>5, <2>6, <2>7, <3>1 DEF Pool
    <3>2. CASE x # s
      <4>1. host'[x] = host[x] /\ sessions'[x] = sessions[x] /\ (x \in Pool' <=> x \in Pool)
        BY <2>3, <2>6, <3>2 DEF Pool, CoreTypeOK
      <4> QED
        BY <1>4, <4>1 DEF SessionsAgree
    <3> QED
      BY <3>1, <3>2
  <2> QED
    BY <1>2, <2>9, <2>10
<1> QED
  BY <1>3, <1>4

LEMMA UpdateAgree ==
  ASSUME WindowsTypeOK, AgreeInv, NEW s \in Sessions, NEW tab \in Tabs, NEW g \in Generations,
         UpdateDocumentGeneration(s, tab, g)
  PROVE  AgreeInv'
<1> USE DEF AgreeInv, WindowsTypeOK
<1>1. /\ UNCHANGED <<native, closing, call>> /\ host[s] # NoSession
      /\ host' = [host EXCEPT ![s].generation = g]
  BY DEF UpdateDocumentGeneration
<1>2. OneEnds'
  BY <1>1 DEF OneEnds, At
<1>3. CASE ~(native /\ closing = "open")
  BY <1>1, <1>2, <1>3 DEF EndingInHost, SessionsAgree
<1>4. CASE native /\ closing = "open"
  <2>1. s \in Pool /\ sessions' = [sessions EXCEPT ![s].generation = g]
    BY <1>4 DEF UpdateDocumentGeneration, AdvanceGeneration, MayAdvance
  <2>2. [sessions[s] EXCEPT !.generation = g] \in SessionContext
    BY <2>1 DEF Pool, CoreTypeOK, SessionContext
  <2>3. [host[s] EXCEPT !.generation = g] \in HostSession
    BY <1>1 DEF HostSession
  <2>4. Pool' = Pool /\ \A x \in Sessions : (host'[x] = NoSession) = (host[x] = NoSession)
    BY <1>1, <2>1, <2>2, <2>3, ContextBrokerAssumption, WindowsBrokerAssumption
       DEF Pool, CoreTypeOK
  <2>5. EndingInHost'
    BY <1>1, <1>4, <2>4 DEF EndingInHost, At, BrokerCalls
  <2>6. SessionsAgree'
    <3> SUFFICES ASSUME NEW x \in Sessions,
                        ~ \E t \in WinThreads : At(t, "destroy") /\ call[t].session = x
                 PROVE  /\ (host'[x] = NoSession) = (x \notin Pool)
                        /\ x \in Pool => host'[x] = [tab |-> sessions'[x].tab,
                                                     generation |-> sessions'[x].generation]
      BY <1>1, <2>4 DEF SessionsAgree, At
    <3>1. /\ (host[x] = NoSession) = (x \notin Pool)
          /\ x \in Pool => host[x] = [tab |-> sessions[x].tab,
                                      generation |-> sessions[x].generation]
      BY <1>4 DEF SessionsAgree
    <3>2. CASE x = s
      <4>1. /\ host'[s] = [host[s] EXCEPT !.generation = g]
            /\ sessions'[s] = [sessions[s] EXCEPT !.generation = g]
        BY <1>1, <2>1 DEF CoreTypeOK
      <4>2. host[s] = [tab |-> sessions[s].tab, generation |-> sessions[s].generation]
        BY <2>1, <3>1, <3>2
      <4>3. sessions[s] \in SessionContext
        BY <2>1 DEF Pool, CoreTypeOK
      <4>4. host'[s] = [tab |-> sessions'[s].tab, generation |-> sessions'[s].generation]
        BY <4>1, <4>2, <4>3 DEF SessionContext
      <4> QED
        BY <2>4, <3>1, <3>2, <4>4
    <3>3. CASE x # s
      BY <1>1, <2>1, <3>1, <3>3 DEF CoreTypeOK
    <3> QED
      BY <3>2, <3>3
  <2> QED
    BY <1>2, <2>5, <2>6
<1> QED
  BY <1>3, <1>4

LEMMA DestroyAgree ==
  ASSUME WindowsTypeOK, AgreeInv, NEW t \in WinThreads, NEW s \in Sessions, DestroySession(t, s)
  PROVE  AgreeInv'
<1> USE DEF AgreeInv, WindowsTypeOK
<1>1. /\ UNCHANGED <<native, closing, host>> /\ call[t] = NoCall
      /\ call' = [call EXCEPT ![t] = [at |-> "destroy", session |-> s]]
      /\ \A u \in WinThreads : EndingCall(u) => call[u].session # s
      /\ closing = "open" => host[s] # NoSession
  BY DEF DestroySession, Begin, Ending, EndingCall, brokerVars
<1>2. \A u \in WinThreads : u # t => call'[u] = call[u]
  BY <1>1
<1>3. /\ call'[t] = [at |-> "destroy", session |-> s]
      /\ [at |-> "destroy", session |-> s] # NoCall
  BY <1>1, WindowsBrokerAssumption DEF BrokerCalls
<1>4. OneEnds'
  BY <1>1, <1>2, <1>3 DEF OneEnds, EndingCall, At
<1>5. CASE ~(native /\ closing = "open")
  BY <1>1, <1>4, <1>5 DEF EndingInHost, SessionsAgree
<1>6. CASE native /\ closing = "open"
  <2>1. sessions' = [sessions EXCEPT ![s] = NoSession]
    BY <1>6 DEF DestroySession, EndInCore, RemoveSession
  <2>2. Pool' = Pool \ {s}
    BY <2>1 DEF Pool, CoreTypeOK
  <2>3. EndingInHost'
    BY <1>1, <1>2, <1>3, <1>6, <2>2 DEF EndingInHost, At
  <2>4. \A x \in Sessions : x # s => sessions'[x] = sessions[x]
    BY <2>1 DEF CoreTypeOK
  <2>5. \A u \in WinThreads : At(u, "destroy") => (At(u, "destroy"))' /\ call'[u] = call[u]
    BY <1>1, <1>2 DEF At
  <2>6. SessionsAgree'
    <3> SUFFICES ASSUME NEW x \in Sessions,
                        ~ \E u \in WinThreads : (At(u, "destroy"))' /\ call'[u].session = x
                 PROVE  /\ (host[x] = NoSession) = (x \notin Pool')
                        /\ x \in Pool' => host[x] = [tab |-> sessions'[x].tab,
                                                     generation |-> sessions'[x].generation]
      BY <1>1 DEF SessionsAgree
    <3>1. x # s
      BY <1>3 DEF At
    <3>2. /\ (host[x] = NoSession) = (x \notin Pool)
          /\ x \in Pool => host[x] = [tab |-> sessions[x].tab,
                                      generation |-> sessions[x].generation]
      BY <1>6, <2>5 DEF SessionsAgree
    <3> QED
      BY <2>2, <2>4, <3>1, <3>2
  <2> QED
    BY <1>4, <2>3, <2>6
<1> QED
  BY <1>5, <1>6

LEMMA DestroyHostAgree ==
  ASSUME WindowsTypeOK, AgreeInv, NEW t \in WinThreads, DestroyHostSession(t)
  PROVE  AgreeInv'
<1> USE DEF AgreeInv, WindowsTypeOK
<1> DEFINE s == call[t].session
<1>1. /\ UNCHANGED <<native, closing, sessions>> /\ At(t, "destroy") /\ s \in Sessions
      /\ call' = [call EXCEPT ![t] = [at |-> "forget", session |-> s]]
      /\ host' = [host EXCEPT ![s] = NoSession]
  BY DEF DestroyHostSession, EndInHost, At, BrokerCalls, coreVars
<1>2. \A u \in WinThreads : u # t => call'[u] = call[u]
  BY <1>1
<1>3. call'[t].session = s /\ (At(t, "forget"))' /\ ~(At(t, "destroy"))'
  BY <1>1, WindowsBrokerAssumption DEF At, BrokerCalls
<1>4. \A u \in WinThreads : u # t /\ EndingCall(u) => call[u].session # s
  BY <1>1 DEF OneEnds, EndingCall
<1>5. OneEnds'
  BY <1>1, <1>2, <1>3, <1>4 DEF OneEnds, EndingCall, At
<1>6. CASE ~(native /\ closing = "open")
  BY <1>1, <1>5, <1>6 DEF EndingInHost, SessionsAgree
<1>7. CASE native /\ closing = "open"
  <2>1. Pool' = Pool /\ s \notin Pool
    BY <1>1, <1>7 DEF EndingInHost, Pool
  <2>2. EndingInHost'
    <3> SUFFICES ASSUME NEW u \in WinThreads, (At(u, "destroy"))'
                 PROVE  host'[call'[u].session] # NoSession /\ call'[u].session \notin Pool
      BY <1>1, <2>1 DEF EndingInHost
    <3>1. u # t /\ At(u, "destroy") /\ call'[u] = call[u]
      BY <1>2, <1>3 DEF At
    <3>2. call[u].session # s /\ call[u].session \in Sessions
      BY <1>4, <3>1 DEF EndingCall, At, BrokerCalls
    <3> QED
      BY <1>1, <1>7, <3>1, <3>2 DEF EndingInHost
  <2>3. SessionsAgree'
    <3> SUFFICES ASSUME NEW x \in Sessions,
                        ~ \E u \in WinThreads : (At(u, "destroy"))' /\ call'[u].session = x
                 PROVE  /\ (host'[x] = NoSession) = (x \notin Pool)
                        /\ x \in Pool => host'[x] = [tab |-> sessions[x].tab,
                                                     generation |-> sessions[x].generation]
      BY <1>1, <2>1 DEF SessionsAgree
    <3>1. CASE x = s
      BY <1>1, <2>1, <3>1
    <3>2. CASE x # s
      <4>1. ~ \E u \in WinThreads : At(u, "destroy") /\ call[u].session = x
        BY <1>1, <1>2, <3>2 DEF At
      <4> QED
        BY <1>1, <1>7, <3>2, <4>1 DEF SessionsAgree
    <3> QED
      BY <3>1, <3>2
  <2> QED
    BY <1>5, <2>2, <2>3
<1> QED
  BY <1>6, <1>7

\* A step that changes no session and neither begins nor moves an ending.
LEMMA AgreeFrame ==
  ASSUME WindowsTypeOK, AgreeInv, UNCHANGED <<native, sessions>>,
         closing' = "open" => closing = "open" /\ host' = host,
         \A t \in WinThreads :
           /\ EndingCall(t)' => EndingCall(t) /\ call'[t] = call[t]
           /\ At(t, "destroy") => (At(t, "destroy"))' /\ call'[t] = call[t]
  PROVE  AgreeInv'
<1> USE DEF AgreeInv, WindowsTypeOK
<1>1. OneEnds'
  BY DEF OneEnds, EndingCall
<1>2. \A t \in WinThreads : (At(t, "destroy"))' => At(t, "destroy") /\ call'[t] = call[t]
  BY DEF EndingCall, At
<1>3. EndingInHost'
  BY <1>2 DEF EndingInHost, Pool
<1>4. SessionsAgree'
  BY DEF SessionsAgree, Pool
<1> QED
  BY <1>1, <1>3, <1>4

LEMMA AgreeStep ==
  ASSUME WindowsTypeOK, AgreeInv, [WindowsNext]_windowsVars
  PROVE  AgreeInv'
<1>1. CASE Dispose
  <2>1. closing' # "open"
    BY <1>1 DEF Dispose, WindowsTypeOK
  <2> QED
    BY <1>1, <2>1, AgreeFrame DEF Dispose, coreVars, EndingCall, At
<1>2. ASSUME NEW s \in Sessions, NEW tab \in Tabs, NEW g \in Generations,
             EvaluateNavigation(s, tab, g)
      PROVE  AgreeInv'
  BY <1>2, AgreeFrame DEF EvaluateNavigation, coreVars, brokerVars, EndingCall, At
<1>3. ASSUME NEW t \in WinThreads, ForgetNonces(t) PROVE AgreeInv'
  <2>1. call' = [call EXCEPT ![t] = NoCall] /\ ~At(t, "destroy")
    BY <1>3 DEF ForgetNonces, End, At
  <2>2. \A u \in WinThreads :
          /\ EndingCall(u)' => EndingCall(u) /\ call'[u] = call[u]
          /\ At(u, "destroy") => (At(u, "destroy"))' /\ call'[u] = call[u]
    BY <2>1 DEF EndingCall, At, WindowsTypeOK
  <2> QED
    BY <1>3, <2>2, AgreeFrame DEF ForgetNonces, coreVars
<1>4. ASSUME NEW t \in WinThreads, ConsumeSection(t) PROVE AgreeInv'
  <2>1. call' = [call EXCEPT ![t] = NoCall] /\ ~At(t, "destroy")
    BY <1>4 DEF ConsumeSection, End, At
  <2>2. \A u \in WinThreads :
          /\ EndingCall(u)' => EndingCall(u) /\ call'[u] = call[u]
          /\ At(u, "destroy") => (At(u, "destroy"))' /\ call'[u] = call[u]
    BY <2>1 DEF EndingCall, At, WindowsTypeOK
  <2>3. sessions' = sessions
    BY <1>4 DEF ConsumeSection, ConsumeNonce, coreVars
  <2> QED
    BY <1>4, <2>2, <2>3, AgreeFrame DEF ConsumeSection
<1>5. ASSUME NEW t \in WinThreads, NEW a \in authorized, TryConsumeNavigation(t, a)
      PROVE  AgreeInv'
  <2>1. \A u \in WinThreads :
          /\ EndingCall(u)' => EndingCall(u) /\ call'[u] = call[u]
          /\ At(u, "destroy") => (At(u, "destroy"))' /\ call'[u] = call[u]
    BY <1>5 DEF TryConsumeNavigation, Begin, EndingCall, At, WindowsTypeOK
  <2> QED
    BY <1>5, <2>1, AgreeFrame DEF TryConsumeNavigation, coreVars, brokerVars
<1>6. CASE WindowsTick
  BY <1>6, AgreeFrame DEF WindowsTick, Tick, brokerVars, EndingCall, At
<1>7. CASE (SwitchNext /\ UNCHANGED brokerOnly) \/ UNCHANGED windowsVars
  BY <1>7, AgreeFrame DEF brokerOnly, windowsVars, brokerVars, coreVars, EndingCall, At
<1> QED
  BY <1>1, <1>2, <1>3, <1>4, <1>5, <1>6, <1>7, RegisterAgree, UpdateAgree, DestroyAgree,
     DestroyHostAgree DEF WindowsNext, BrokerNext
-----------------------------------------------------------------------------
(* Calls past the switch.                                                  *)

\* A step that lets nobody past the switch, and raises no flag but on the way.
LEMMA LateFrame ==
  ASSUME WindowsTypeOK, LateInv, late' = late, engaged' \in {engaged, TRUE},
         \A t \in WinThreads : (At(t, "consume"))' => At(t, "consume")
  PROVE  LateInv'
<1>1. PastSwitch' \subseteq PastSwitch /\ PastSwitch \subseteq WinThreads
  BY DEF PastSwitch
<1>2. IsFiniteSet(WinThreads)
  BY WindowsBrokerAssumption
<1>3. /\ IsFiniteSet(PastSwitch) /\ IsFiniteSet(PastSwitch')
      /\ Cardinality(PastSwitch) <= Cardinality(WinThreads)
      /\ Cardinality(PastSwitch') <= Cardinality(PastSwitch)
  <2>1. IsFiniteSet(PastSwitch) /\ Cardinality(PastSwitch) <= Cardinality(WinThreads)
    BY <1>1, <1>2, FS_Subset
  <2> QED
    BY <1>1, <2>1, FS_Subset
<1>4. /\ Cardinality(PastSwitch) \in Nat /\ Cardinality(PastSwitch') \in Nat
      /\ Cardinality(WinThreads) \in Nat
  BY <1>2, <1>3, FS_CardinalityType
<1>5. late \in Nat /\ engaged \in BOOLEAN
  BY DEF WindowsTypeOK, SwitchTypeOK
<1>6. CASE engaged
  <2>1. engaged'
    BY <1>6
  <2>2. late + Cardinality(PastSwitch) <= Cardinality(WinThreads)
    BY <1>6 DEF LateInv
  <2>3. late + Cardinality(PastSwitch') <= Cardinality(WinThreads)
    BY <1>3, <1>4, <1>5, <2>2
  <2> QED
    BY <2>1, <2>3 DEF LateInv
<1>7. CASE ~engaged
  <2>1. late = 0
    BY <1>7 DEF LateInv
  <2>2. late + Cardinality(PastSwitch') <= Cardinality(WinThreads)
    BY <1>3, <1>4, <2>1
  <2> QED
    BY <2>1, <2>2 DEF LateInv
<1> QED
  BY <1>5, <1>6, <1>7

LEMMA LateConsume ==
  ASSUME WindowsTypeOK, LateInv, NEW t \in WinThreads, ConsumeSection(t)
  PROVE  LateInv'
<1>1. /\ call' = [call EXCEPT ![t] = NoCall] /\ At(t, "consume") /\ engaged' = engaged
      /\ late' = late \/ (engaged /\ late' = late + 1)
  BY DEF ConsumeSection, End, switchVars
<1>2. PastSwitch' = PastSwitch \ {t} /\ t \in PastSwitch /\ PastSwitch \subseteq WinThreads
  BY <1>1 DEF PastSwitch, At, WindowsTypeOK
<1>3. IsFiniteSet(PastSwitch)
  BY <1>2, WindowsBrokerAssumption, FS_Subset
<1>4. Cardinality(PastSwitch') = Cardinality(PastSwitch) - 1
  BY <1>2, <1>3, FS_RemoveElement
<1>5. Cardinality(PastSwitch) \in Nat /\ Cardinality(WinThreads) \in Nat
  BY <1>3, WindowsBrokerAssumption, FS_CardinalityType
<1> QED
  BY <1>1, <1>4, <1>5 DEF LateInv, WindowsTypeOK

LEMMA LateStep ==
  ASSUME WindowsTypeOK, LateInv, [WindowsNext]_windowsVars
  PROVE  LateInv'
<1>1. CASE SwitchNext /\ UNCHANGED brokerOnly
  <2>1. engaged' \in {engaged, TRUE}
    BY <1>1 DEF SwitchNext, EngageNext, RegisterProcessReaction, LookAtFlag, Unregister, Engage,
                RaiseFlag, Snapshot, RunReaction
  <2> QED
    BY <1>1, <2>1, LateFrame DEF brokerOnly, At
<1>2. CASE UNCHANGED windowsVars
  BY <1>2, LateFrame DEF windowsVars, brokerOnly, switchVars, At
<1>3. ASSUME NEW t \in WinThreads, NEW a \in authorized, TryConsumeNavigation(t, a)
      PROVE  LateInv'
  BY <1>3 DEF TryConsumeNavigation, LateInv, switchVars
<1>4. CASE Dispose \/ WindowsTick
  BY <1>4, LateFrame DEF Dispose, WindowsTick, switchVars, brokerVars, At
<1>5. ASSUME NEW s \in Sessions, NEW tab \in Tabs, RegisterSession(s, tab) PROVE LateInv'
  BY <1>5, LateFrame DEF RegisterSession, switchVars, At
<1>6. ASSUME NEW s \in Sessions, NEW tab \in Tabs, NEW g \in Generations,
             UpdateDocumentGeneration(s, tab, g) \/ EvaluateNavigation(s, tab, g)
      PROVE  LateInv'
  BY <1>6, LateFrame DEF UpdateDocumentGeneration, EvaluateNavigation, switchVars, At
<1>7. ASSUME NEW t \in WinThreads, NEW s \in Sessions, DestroySession(t, s) PROVE LateInv'
  <2>1. \A u \in WinThreads : (At(u, "consume"))' => At(u, "consume")
    BY <1>7 DEF DestroySession, Begin, At, WindowsTypeOK
  <2> QED
    BY <1>7, <2>1, LateFrame DEF DestroySession, switchVars
<1>8. ASSUME NEW t \in WinThreads, DestroyHostSession(t) \/ ForgetNonces(t) PROVE LateInv'
  <2>1. \A u \in WinThreads : (At(u, "consume"))' => At(u, "consume")
    BY <1>8 DEF DestroyHostSession, ForgetNonces, EndInHost, End, At, WindowsTypeOK
  <2> QED
    BY <1>8, <2>1, LateFrame DEF DestroyHostSession, ForgetNonces, switchVars
<1> QED
  BY <1>1, <1>2, <1>3, <1>4, <1>5, <1>6, <1>7, <1>8, LateConsume DEF WindowsNext, BrokerNext

-----------------------------------------------------------------------------

WindowsInv == WindowsTypeOK /\ SwitchInv /\ ReplayInv /\ AgreeInv /\ LateInv

LEMMA WindowsInvInit == WindowsInit => WindowsInv
<1> SUFFICES ASSUME WindowsInit PROVE WindowsInv
  OBVIOUS
<1>1. WindowsTypeOK
  BY WindowsTypeInit
<1>2. SwitchInv
  BY SwitchInvInit DEF WindowsInit
<1>3. ReplayInv
  BY DEF WindowsInit, ReplayInv, ClosedIsEmpty, AcceptedEarlier, BurntInCore, CleanUpIsLate,
         Remembered, AcceptedOnce, At
<1>4. AgreeInv
  BY DEF WindowsInit, CoreInit, AgreeInv, OneEnds, EndingInHost, SessionsAgree, Pool, At
<1>5. LateInv
  BY DEF WindowsInit, SwitchInit, LateInv
<1> QED
  BY <1>1, <1>2, <1>3, <1>4, <1>5 DEF WindowsInv

LEMMA WindowsInvStep == WindowsInv /\ [WindowsNext]_windowsVars => WindowsInv'
<1> SUFFICES ASSUME WindowsInv, [WindowsNext]_windowsVars PROVE WindowsInv'
  OBVIOUS
<1>1. [SwitchNext]_switchVars
  <2>1. CASE BrokerNext
    BY <2>1, ZenonT(60) DEF BrokerNext, RegisterSession, UpdateDocumentGeneration,
         EvaluateNavigation, DestroySession, DestroyHostSession, ForgetNonces,
         ConsumeSection, TryConsumeNavigation, Dispose, WindowsTick
  <2> QED
    BY <2>1 DEF WindowsNext, windowsVars
<1> QED
  BY <1>1, WindowsTypeStep, SwitchInvStep, ReplayStep, AgreeStep, LateStep DEF WindowsInv

\* The calls past the switch are calls of different threads.
LEMMA LateHolds == WindowsInv => SwitchHolds
<1> SUFFICES ASSUME WindowsInv PROVE SwitchHolds
  OBVIOUS
<1>1. IsFiniteSet(PastSwitch)
  BY WindowsBrokerAssumption, FS_Subset DEF PastSwitch
<1>2. Cardinality(PastSwitch) \in Nat /\ Cardinality(WinThreads) \in Nat
  BY <1>1, WindowsBrokerAssumption, FS_CardinalityType
<1> QED
  BY <1>2 DEF WindowsInv, LateInv, WindowsTypeOK, SwitchHolds

LEMMA WindowsInvHolds == WindowsSpec => []WindowsInv
<1>1. WindowsInv /\ [WindowsNext]_windowsVars => WindowsInv'
  BY WindowsInvStep
<1> QED
  BY <1>1, WindowsInvInit, PTL DEF WindowsSpec

\* What the Windows host promises by itself (BrowserPolicyBroker.cs,
\* KillSwitch.cs), however its calls interleave and whatever its bounds:
\* a nonce is accepted once, but for the clean-up of one lifetime of a session
\* that comes late and only without the native core; host and core have the same
\* sessions at the same generation; no more calls get past the engaged switch
\* than there are threads; and every wired tab's reaction has run once whoever
\* engaged the switch is through.
THEOREM WindowsBrokerKept == WindowsSpec => []WindowsKept
<1>1. WindowsInv => WindowsKept
  <2>1. SwitchInv => EverythingStopped
    BY DEF SwitchInv, EverythingStopped
  <2> QED
    BY <2>1, LateHolds DEF WindowsInv, ReplayInv, AgreeInv, WindowsKept
<1> QED
  BY <1>1, WindowsInvHolds, PTL
=============================================================================
