--------------------------- MODULE TabShellProofs ---------------------------
(***************************************************************************)
(* Proofs about TabShell for any number of threads, URLs, tabs and calls:  *)
(* the type of the state, the order of the tabs and their number, what an  *)
(* agent can load, what it takes to garble the session file, and what the  *)
(* window shows and the file holds once all is done.                       *)
(***************************************************************************)
EXTENDS TabShell, ListProofs

(* Lists of tabs and sessions.                                             *)

TabListOK(ts) == ts \in Seq(Tabs) /\ PinnedInFront(ts)

GoodSessions == {s \in Sessions : PinnedInFront(s.tabs)}
Usable == {s \in GoodSessions : s.current \in DOMAIN s.tabs}

LEMMA OnlyTabs ==
  ASSUME NEW ts, TabListOK(ts), NEW some
  PROVE  TabListOK(Only(ts, some)) /\ Len(Only(ts, some)) <= Len(ts)
<1> DEFINE r == Only(ts, some)
<1>1. r \in Seq(Tabs) /\ OnlyOf(r, ts, Len(ts), some)
  BY OnlyKeeps DEF TabListOK
<1> HIDE DEF r
<1>2. ASSUME NEW j \in DOMAIN r, NEW k \in DOMAIN r, j < k, r[k].pinned PROVE r[j].pinned
  <2>1. PICK a \in 1..Len(ts), b \in 1..Len(ts) : a < b /\ r[j] = ts[a] /\ r[k] = ts[b]
    <3>1. j \in 1..Len(r) /\ k \in 1..Len(r)
      BY <1>1
    <3> QED
      BY <1>1, <1>2, <3>1, OnlyInOrder
  <2>2. a \in DOMAIN ts /\ b \in DOMAIN ts
    BY DEF TabListOK
  <2> QED
    BY <1>2, <2>1, <2>2 DEF TabListOK, PinnedInFront
<1> QED
  BY <1>1, <1>2 DEF TabListOK, PinnedInFront, OnlyOf, r

LEMMA TabUrl ==
  ASSUME NEW ts, TabListOK(ts), NEW i \in DOMAIN ts
  PROVE  ts[i].url \in Urls
<1>1. ts[i] \in Tabs
  BY DEF TabListOK
<1> QED
  BY <1>1 DEF Tabs

LEMMA FirstTabsOK ==
  ASSUME NEW ts, TabListOK(ts)
  PROVE  TabListOK(FirstTabs(ts)) /\ Len(FirstTabs(ts)) <= MaxTabs
<1> DEFINE n == IF Len(ts) < MaxTabs THEN Len(ts) ELSE MaxTabs
           r == SubSeq(ts, 1, n)
<1>1. n \in Nat /\ n <= Len(ts) /\ n <= MaxTabs
  BY TabShellAssumption DEF TabListOK
<1> HIDE DEF n
<1>2. r \in Seq(Tabs) /\ Len(r) = n /\ \A i \in 1..n : r[i] = ts[i]
  BY <1>1 DEF TabListOK
<1> HIDE DEF r
<1>3. PinnedInFront(r)
  <2>1. DOMAIN r = 1..n /\ 1..n \subseteq DOMAIN ts
    BY <1>1, <1>2 DEF TabListOK
  <2> QED
    BY <1>2, <2>1 DEF PinnedInFront, TabListOK
<1>4. FirstTabs(ts) = r
  BY DEF FirstTabs, r, n
<1> QED
  BY <1>1, <1>2, <1>3, <1>4 DEF TabListOK

LEMMA ClampRange ==
  ASSUME NEW n \in Nat, NEW lo \in Nat, NEW hi \in Nat, lo <= hi
  PROVE  Clamp(n, lo, hi) \in lo..hi
BY DEF Clamp

\* A session of some tabs, with its index brought into range.
LEMMA SessionOfSome ==
  ASSUME NEW ts, TabListOK(ts), ts # <<>>, NEW n \in Nat
  PROVE  [tabs |-> ts, current |-> Clamp(n, 1, Len(ts))] \in Usable
<1>1. Len(ts) \in Nat /\ 1 <= Len(ts) /\ DOMAIN ts = 1..Len(ts)
  BY DEF TabListOK
<1>2. Clamp(n, 1, Len(ts)) \in 1..Len(ts)
  BY <1>1, ClampRange
<1> QED
  BY <1>1, <1>2 DEF Usable, GoodSessions, Sessions, TabListOK

LEMMA SanitizedOK ==
  ASSUME NEW snap \in GoodSessions
  PROVE  Sanitized(snap) \in Usable \cup {NoSession}
<1> DEFINE clean == Only(snap.tabs, {i \in DOMAIN snap.tabs : snap.tabs[i].url \notin Unsavable})
<1>1. TabListOK(snap.tabs) /\ snap.current \in Nat
  BY DEF GoodSessions, Sessions, TabListOK
<1>2. TabListOK(clean)
  BY <1>1, OnlyTabs
<1>3. Sanitized(snap) = IF clean = <<>> THEN NoSession
                        ELSE [tabs |-> clean, current |-> Clamp(snap.current, 1, Len(clean))]
  BY DEF Sanitized
<1> HIDE DEF clean
<1> QED
  BY <1>1, <1>2, <1>3, SessionOfSome

LEMMA LoadedOK ==
  ASSUME NEW file \in GoodSessions \cup {NoSession, Garbled}
  PROVE  Loaded(file) \in Usable \cup {NoSession}
<1>1. CASE file \in {NoSession, Garbled}
  BY <1>1 DEF Loaded
<1>2. CASE file \notin {NoSession, Garbled}
  <2>1. file \in GoodSessions /\ file \in Sessions /\ TabListOK(file.tabs)
    BY <1>2 DEF GoodSessions, Sessions, TabListOK
  <2>2. TabListOK(FirstTabs(file.tabs))
    BY <2>1, FirstTabsOK
  <2>3. /\ [file EXCEPT !.tabs = FirstTabs(@)] \in Sessions
        /\ [file EXCEPT !.tabs = FirstTabs(@)].tabs = FirstTabs(file.tabs)
    BY <2>1, <2>2 DEF Sessions, TabListOK
  <2>4. [file EXCEPT !.tabs = FirstTabs(@)] \in GoodSessions
    BY <2>2, <2>3 DEF GoodSessions, TabListOK
  <2> QED
    BY <1>2, <2>4, SanitizedOK DEF Loaded
<1> QED
  BY <1>1, <1>2

\* What a start or a restore puts into the tab list.
LEMMA SavedSessionOK ==
  ASSUME sessionFile \in GoodSessions \cup {NoSession, Garbled}, NEW agent \in BOOLEAN,
         SavedSession(agent) # NoSession
  PROVE  SavedSession(agent) \in Usable /\ Len(SavedSession(agent).tabs) <= MaxTabs
<1>1. PICK snap : snap = Loaded(sessionFile)
  OBVIOUS
<1>2. snap \in Usable /\ SavedSession(agent) = Seeded(snap, agent)
  BY <1>1, LoadedOK DEF SavedSession
<1> DEFINE first == FirstTabs(snap.tabs)
           clean == Only(first, {i \in DOMAIN first : /\ first[i].url \notin Unsafe
                                                      /\ agent => first[i].url \in AgentHosts})
<1>3. TabListOK(snap.tabs) /\ snap.current \in Nat
  BY <1>2 DEF Usable, GoodSessions, Sessions, TabListOK
<1>4. TabListOK(first) /\ Len(first) <= MaxTabs
  BY <1>3, FirstTabsOK
<1>5. Seeded(snap, agent) = IF clean = <<>> THEN NoSession
                            ELSE [tabs |-> clean, current |-> Clamp(snap.current, 1, Len(clean))]
  BY DEF Seeded
<1>6. TabListOK(clean) /\ Len(clean) <= Len(first)
  <2> HIDE DEF first
  <2> QED
    BY <1>4, OnlyTabs
<1>7. Len(clean) <= MaxTabs
  <2>1. Len(clean) \in Nat /\ Len(first) \in Nat
    <3> HIDE DEF clean, first
    <3> QED
      BY <1>4, <1>6 DEF TabListOK
  <2> HIDE DEF clean, first
  <2> QED
    BY <1>4, <1>6, <2>1, TabShellAssumption
<1> HIDE DEF clean
<1>8. clean # <<>>
  BY <1>2, <1>5
<1>9. [tabs |-> clean, current |-> Clamp(snap.current, 1, Len(clean))] \in Usable
  BY <1>3, <1>6, <1>8, SessionOfSome
<1> QED
  BY <1>2, <1>5, <1>7, <1>8, <1>9

-----------------------------------------------------------------------------
(* What the calls do to the tab list.                                      *)

\* Where the pinned tabs end.
LEMMA PinnedPrefix ==
  ASSUME NEW ts, TabListOK(ts)
  PROVE  /\ PinnedCount(ts) \in 0..Len(ts)
         /\ \A i \in DOMAIN ts : ts[i].pinned <=> i <= PinnedCount(ts)
<1> DEFINE P == {i \in DOMAIN ts : ts[i].pinned}
           Above == {m \in Nat : \A i \in P : i <= m}
<1>1. Len(ts) \in Nat /\ DOMAIN ts = 1..Len(ts) /\ P \subseteq 1..Len(ts)
  BY DEF TabListOK
<1>2. \A j \in P : \A i \in 1..Len(ts) : i < j => i \in P
  BY <1>1 DEF TabListOK, PinnedInFront
<1> HIDE DEF P
<1>3. Len(ts) \in Above
  BY <1>1
<1>4. PICK m \in Above : \A k \in Above : m <= k
  <2>1. Above \subseteq Nat /\ Above # {}
    BY <1>3
  <2> HIDE DEF Above
  <2> QED
    BY <2>1, LeastElement
<1>5. m \in 0..Len(ts) /\ \A i \in P : i <= m
  BY <1>1, <1>3, <1>4
<1>6. m # 0 => m \in P
  <2> SUFFICES ASSUME m # 0, m \notin P PROVE FALSE
    OBVIOUS
  <2>1. m - 1 \in Nat /\ \A i \in P : i <= m - 1
    BY <1>1, <1>5
  <2>2. m - 1 \in Above
    BY <2>1
  <2>3. m <= m - 1
    <3> HIDE DEF Above
    <3> QED
      BY <1>4, <2>2
  <2> QED
    BY <1>5, <2>3
<1>7. P = 1..m
  <2>1. P \subseteq 1..m
    BY <1>1, <1>5
  <2>2. ASSUME NEW i \in 1..m PROVE i \in P
    <3>1. m # 0 /\ m \in P /\ i \in 1..Len(ts)
      BY <1>5, <1>6
    <3>2. i = m \/ i < m
      BY <1>5
    <3> QED
      BY <1>2, <3>1, <3>2
  <2> QED
    BY <2>1, <2>2
<1>8. Cardinality(P) = m
  BY <1>5, <1>7, FS_Interval
<1>9. PinnedCount(ts) = Cardinality(P)
  BY DEF PinnedCount, P
<1>10. \A i \in DOMAIN ts : ts[i].pinned <=> i \in P
  BY DEF P
<1> QED
  BY <1>1, <1>5, <1>7, <1>8, <1>9, <1>10

LEMMA MovedOK ==
  ASSUME NEW ts, TabListOK(ts), NEW from \in DOMAIN ts, NEW to \in DOMAIN ts,
         NEW i \in DOMAIN ts
  PROVE  LET t == MoveTarget(ts, from, to) IN
         /\ TabListOK(Moved(ts, from, t)) /\ Len(Moved(ts, from, t)) = Len(ts)
         /\ MovedIndex(i, from, t) \in DOMAIN Moved(ts, from, t)
<1> DEFINE n == PinnedCount(ts)
<1>1. /\ Len(ts) \in Nat /\ DOMAIN ts = 1..Len(ts) /\ ts \in Seq(Tabs)
      /\ n \in 0..Len(ts)
      /\ \A j \in 1..Len(ts) : ts[j].pinned <=> j <= n
  BY PinnedPrefix DEF TabListOK
<1>2. MoveTarget(ts, from, to) = IF ts[from].pinned THEN Clamp(to, 1, n)
                                 ELSE Clamp(to, n + 1, Len(ts))
  BY DEF MoveTarget
<1> HIDE DEF n
<1>3. PICK t : t = MoveTarget(ts, from, to)
  OBVIOUS
<1>4. t \in 1..Len(ts) /\ (from <= n <=> t <= n)
  <2>1. CASE ts[from].pinned
    BY <1>1, <1>2, <1>3, <2>1 DEF Clamp
  <2>2. CASE ~ts[from].pinned
    BY <1>1, <1>2, <1>3, <2>2 DEF Clamp
  <2> QED
    BY <2>1, <2>2
<1>5. /\ Moved(ts, from, t) \in Seq(Tabs) /\ Len(Moved(ts, from, t)) = Len(ts)
      /\ \A j \in 1..Len(ts) : /\ CameFrom(j, from, t) \in 1..Len(ts)
                               /\ Moved(ts, from, t)[j] = ts[CameFrom(j, from, t)]
  <2>1. from \in 1..Len(ts)
    BY <1>1
  <2>2. Moved(ts, from, t) \in Seq(Tabs) /\ Len(Moved(ts, from, t)) = Len(ts)
    BY <1>1, <1>4, <2>1, MovedFrom
  <2>3. \A j \in 1..Len(ts) : /\ CameFrom(j, from, t) \in 1..Len(ts)
                              /\ Moved(ts, from, t)[j] = ts[CameFrom(j, from, t)]
    BY <1>1, <1>4, <2>1, MovedFrom, SMTT(30)
  <2> QED
    BY <2>2, <2>3
<1>6. \A j \in 1..Len(ts) : CameFrom(j, from, t) <= n <=> j <= n
  BY <1>1, <1>4 DEF CameFrom
<1>7. PICK r : r = Moved(ts, from, t)
  OBVIOUS
<1>8. /\ r \in Seq(Tabs) /\ Len(r) = Len(ts) /\ DOMAIN r = 1..Len(ts)
      /\ \A j \in 1..Len(ts) : r[j].pinned <=> j <= n
  BY <1>1, <1>5, <1>6, <1>7, SMTT(30)
<1>9. PinnedInFront(r)
  BY <1>1, <1>8 DEF PinnedInFront
<1>10. MovedIndex(i, from, t) \in 1..Len(ts)
  BY <1>1, <1>4 DEF MovedIndex
<1> QED
  BY <1>3, <1>7, <1>8, <1>9, <1>10 DEF TabListOK

LEMMA RemovedOK ==
  ASSUME NEW ts, TabListOK(ts), NEW i \in DOMAIN ts
  PROVE  /\ TabListOK(RemoveAt(ts, i))
         /\ DOMAIN RemoveAt(ts, i) = 1..(Len(ts) - 1)
         /\ Len(RemoveAt(ts, i)) = Len(ts) - 1
<1>1. Len(ts) \in Nat /\ DOMAIN ts = 1..Len(ts) /\ ts \in Seq(Tabs)
  BY DEF TabListOK
<1>2. PICK r : r = RemoveAt(ts, i)
  OBVIOUS
<1>3. /\ r \in Seq(Tabs) /\ Len(r) = Len(ts) - 1
      /\ \A j \in 1..(Len(ts) - 1) : r[j] = IF j < i THEN ts[j] ELSE ts[j + 1]
  BY <1>1, <1>2, Removed
<1>4. DOMAIN r = 1..(Len(ts) - 1)
  BY <1>1, <1>3
<1>5. ASSUME NEW j \in DOMAIN r, NEW k \in DOMAIN r, j < k, r[k].pinned PROVE r[j].pinned
  <2>1. PICK a \in DOMAIN ts : a = (IF j < i THEN j ELSE j + 1)
    BY <1>1, <1>4
  <2>2. PICK b \in DOMAIN ts : b = (IF k < i THEN k ELSE k + 1)
    BY <1>1, <1>4
  <2>3. r[j] = ts[a] /\ r[k] = ts[b]
    BY <1>3, <1>4, <2>1, <2>2
  <2>4. a < b
    BY <1>1, <1>4, <1>5, <2>1, <2>2
  <2> QED
    BY <1>5, <2>3, <2>4 DEF TabListOK, PinnedInFront
<1> QED
  BY <1>2, <1>3, <1>4, <1>5 DEF TabListOK, PinnedInFront

\* _reorder_pinned puts any list in order.
LEMMA ReorderedOK ==
  ASSUME NEW ts \in Seq(Tabs), NEW i \in DOMAIN ts
  PROVE  /\ TabListOK(Reordered(ts)) /\ Len(Reordered(ts)) = Len(ts)
         /\ ReorderedIndex(ts, i) \in DOMAIN Reordered(ts)
<1> DEFINE P == {j \in DOMAIN ts : ts[j].pinned}
           Q == {j \in DOMAIN ts : ~ts[j].pinned}
           p == Only(ts, P)
           q == Only(ts, Q)
<1>1. Len(ts) \in Nat /\ DOMAIN ts = 1..Len(ts) /\ P \subseteq 1..Len(ts) /\ Q \subseteq 1..Len(ts)
  OBVIOUS
<1>2. Reordered(ts) = p \o q
  BY DEF Reordered
<1>3. \A j \in 1..Len(ts) : j \in Q <=> j \notin P
  BY <1>1
<1>4. (\A j \in P : ts[j].pinned) /\ (\A j \in Q : ~ts[j].pinned)
  OBVIOUS
<1>a. PinnedCount(ts) = Cardinality(P)
  BY DEF PinnedCount
<1>b. \A k \in DOMAIN ts : {j \in 1..k : ts[j].pinned} \subseteq P /\ {j \in 1..k : ~ts[j].pinned} \subseteq Q
  BY <1>1
<1> HIDE DEF P, Q
<1>5. p \in Seq(Tabs) /\ OnlyOf(p, ts, Len(ts), P)
  BY OnlyKeeps
<1>6. q \in Seq(Tabs) /\ OnlyOf(q, ts, Len(ts), Q)
  BY OnlyKeeps
<1>7. Len(p) + Len(q) = Len(ts)
  BY <1>3, OnlySplits
<1>8. \A j \in 1..Len(p) : p[j].pinned
  <2>1. ASSUME NEW j \in 1..Len(p) PROVE p[j].pinned
    <3>1. PICK a \in 1..Len(ts) : a \in P /\ p[j] = ts[a]
      BY <1>5, <2>1 DEF OnlyOf
    <3> QED
      BY <1>4, <3>1, Zenon
  <2> QED
    BY <2>1, Zenon
<1>9. \A j \in 1..Len(q) : ~q[j].pinned
  <2>1. ASSUME NEW j \in 1..Len(q) PROVE ~q[j].pinned
    <3>1. PICK a \in 1..Len(ts) : a \in Q /\ q[j] = ts[a]
      BY <1>6, <2>1 DEF OnlyOf
    <3> QED
      BY <1>4, <3>1, Zenon
  <2> QED
    BY <2>1, Zenon
<1> HIDE DEF p, q
<1>10. PICK r : r = p \o q
  OBVIOUS
<1>11. /\ r \in Seq(Tabs) /\ Len(r) = Len(ts) /\ DOMAIN r = 1..Len(ts)
       /\ \A j \in 1..Len(p) : r[j] = p[j]
       /\ \A j \in 1..Len(r) : j > Len(p) => r[j] = q[j - Len(p)]
  BY <1>5, <1>6, <1>7, <1>10
<1>12. ASSUME NEW j \in DOMAIN r, NEW k \in DOMAIN r, j < k, r[k].pinned PROVE r[j].pinned
  <2>1. k <= Len(p)
    <3> SUFFICES ASSUME k > Len(p) PROVE FALSE
      BY <1>5, <1>11
    <3>1. k - Len(p) \in 1..Len(q)
      BY <1>1, <1>5, <1>6, <1>7, <1>11
    <3> QED
      BY <1>9, <1>11, <1>12, <3>1
  <2>2. j \in 1..Len(p)
    BY <1>5, <1>11, <1>12, <2>1
  <2> QED
    BY <1>8, <1>11, <2>2
<1>13. ReorderedIndex(ts, i) \in 1..Len(ts)
  <2>1. IsFiniteSet(P) /\ IsFiniteSet(Q) /\ Cardinality(P) \in Nat /\ Cardinality(Q) \in Nat
    <3>1. IsFiniteSet(1..Len(ts))
      BY <1>1, FS_Interval
    <3>2. IsFiniteSet(P) /\ IsFiniteSet(Q)
      BY <1>1, <3>1, FS_Subset
    <3> QED
      BY <3>2, FS_CardinalityType
  <2>2. Cardinality(P) + Cardinality(Q) = Len(ts)
    <3>1. P \cup Q = 1..Len(ts) /\ P \cap Q = {}
      BY <1>1, <1>3
    <3>2. Cardinality(1..Len(ts)) = Len(ts)
      <4>1. 1 \in Int /\ Len(ts) \in Int /\ Len(ts) >= 0
        BY <1>1
      <4>2. Cardinality(1..Len(ts)) = IF 1 > Len(ts) THEN 0 ELSE Len(ts) - 1 + 1
        BY <4>1, FS_Interval, Zenon
      <4> QED
        BY <4>1, <4>2
    <3>3. Cardinality(P \cup Q) = Cardinality(P) + Cardinality(Q) - Cardinality(P \cap Q)
      BY <2>1, FS_Union
    <3>4. Cardinality(P \cap Q) = 0
      BY <3>1, FS_EmptySet
    <3>5. Len(ts) = Cardinality(P) + Cardinality(Q) - 0
      BY <3>1, <3>2, <3>3, <3>4, Zenon
    <3>6. \A x, y \in Nat : x + y - 0 = x + y
      OBVIOUS
    <3> QED
      BY <2>1, <3>5, <3>6, Zenon
  <2>3. CASE ts[i].pinned
    <3> DEFINE A == {j \in 1..i : ts[j].pinned}
    <3>1. A \subseteq P /\ i \in A
      BY <1>1, <1>b, <2>3
    <3> HIDE DEF A
    <3>2. IsFiniteSet(A) /\ Cardinality(A) \in Nat /\ Cardinality(A) <= Cardinality(P) /\ Cardinality(A) # 0
      BY <2>1, <3>1, FS_Subset, FS_CardinalityType, FS_EmptySet
    <3>3. ReorderedIndex(ts, i) = Cardinality(A)
      BY <2>3 DEF ReorderedIndex, A
    <3> QED
      BY <1>1, <2>1, <2>2, <3>2, <3>3
  <2>4. CASE ~ts[i].pinned
    <3> DEFINE A == {j \in 1..i : ~ts[j].pinned}
    <3>1. A \subseteq Q /\ i \in A
      BY <1>1, <1>b, <2>4
    <3> HIDE DEF A
    <3>2. IsFiniteSet(A) /\ Cardinality(A) \in Nat /\ Cardinality(A) <= Cardinality(Q) /\ Cardinality(A) # 0
      BY <2>1, <3>1, FS_Subset, FS_CardinalityType, FS_EmptySet
    <3>3. ReorderedIndex(ts, i) = Cardinality(P) + Cardinality(A)
      BY <1>a, <2>4 DEF ReorderedIndex, A
    <3> QED
      BY <1>1, <2>1, <2>2, <3>2, <3>3
  <2> QED
    BY <2>3, <2>4
<1> QED
  BY <1>2, <1>10, <1>11, <1>12, <1>13 DEF TabListOK, PinnedInFront
-----------------------------------------------------------------------------
(* What a thread has still to do.                                          *)

PlainSteps ==
  {Persist, Notify, [do |-> "eval", what |-> "history"]}
    \cup {Update(url) : url \in Urls} \cup {Load(url) : url \in Urls}
    \cup {CheckedLoad(url, TRUE) : url \in Urls \cap AgentHosts}

ToolSteps == {x \in [do : {"tool"}, method : AgentTools, arg : Nat \cup Urls \cup {NoUrl}] :
                x.method \in UrlMethods => x.arg \in Urls}
OpenSteps == [do : {"open"}, url : Urls, agent : BOOLEAN]
AppendSteps == {x \in [do : {"append"}, url : Urls, agent : BOOLEAN] :
                  x.agent => x.url \in AgentHosts \cup {Start}}
FetchSteps == [do : {"fetch"}, url : Urls]
SaveSteps == [do : {"save"}, snap : GoodSessions]
WriteSteps == [do : {"write"}, snap : GoodSessions]
ReplaceStep == [do |-> "replace"]

\* Only the threads of calls have tools to run and tabs to open.
LeadSteps(c) == FetchSteps \cup IF c \in Callers THEN ToolSteps \cup OpenSteps \cup AppendSteps ELSE {}

TodoOK(c, q) ==
  \/ q \in Seq(PlainSteps)
  \/ /\ q # <<>>
     /\ \/ Head(q) \in LeadSteps(c) /\ Tail(q) = <<>>
        \/ Head(q) \in SaveSteps \cup {ReplaceStep} /\ Tail(q) \in Seq(PlainSteps)
        \/ /\ Head(q) \in WriteSteps
           /\ Tail(q) # <<>> /\ Head(Tail(q)) = ReplaceStep /\ Tail(Tail(q)) \in Seq(PlainSteps)

LEMMA HeadTail ==
  ASSUME NEW U, NEW r \in Seq(U), NEW x
  PROVE  <<x>> \o r # <<>> /\ Head(<<x>> \o r) = x /\ Tail(<<x>> \o r) = r
<1>1. r \in Seq(U \cup {x}) /\ x \in U \cup {x}
  OBVIOUS
<1>2. PICK V : V = U \cup {x}
  OBVIOUS
<1>3. r \in Seq(V) /\ <<x>> \in Seq(V)
  BY <1>1, <1>2
<1>4. /\ <<x>> \o r \in Seq(V) /\ Len(<<x>> \o r) = Len(r) + 1
      /\ (<<x>> \o r)[1] = x
      /\ \A i \in 1..Len(r) : (<<x>> \o r)[i + 1] = r[i]
  BY <1>3
<1>5. Tail(<<x>> \o r) = r
  <2>1. /\ Tail(<<x>> \o r) \in Seq(V) /\ Len(Tail(<<x>> \o r)) = Len(r)
        /\ \A i \in 1..Len(r) : Tail(<<x>> \o r)[i] = r[i]
    BY <1>3, <1>4
  <2> QED
    BY <1>3, <2>1
<1> QED
  BY <1>3, <1>4, <1>5

LEMMA Single == ASSUME NEW x PROVE <<x>> # <<>> /\ Head(<<x>>) = x /\ Tail(<<x>>) = <<>>
OBVIOUS

LEMMA PlainKinds ==
  ASSUME NEW x \in PlainSteps
  PROVE  /\ x.do \in {"persist", "update", "eval", "load"}
         /\ x.do = "update" => x.url \in Urls
         /\ x.do = "eval" => x.what \in {"inject", "history"}
         /\ x.do = "load" => /\ x.url \in Urls /\ x.agent \in BOOLEAN
                             /\ x.agent => x.url \in AgentHosts
<1>1. CASE x \in {Persist, Notify, [do |-> "eval", what |-> "history"]}
  BY <1>1 DEF Persist, Notify
<1>2. CASE \E url \in Urls : x = Update(url)
  BY <1>2 DEF Update
<1>3. CASE \E url \in Urls : x = Load(url)
  BY <1>3 DEF Load, CheckedLoad
<1>4. CASE \E url \in Urls \cap AgentHosts : x = CheckedLoad(url, TRUE)
  BY <1>4 DEF CheckedLoad
<1> QED
  BY <1>1, <1>2, <1>3, <1>4 DEF PlainSteps

LEMMA PlainMembers ==
  /\ Persist \in PlainSteps /\ Notify \in PlainSteps
  /\ [do |-> "eval", what |-> "history"] \in PlainSteps
  /\ \A url \in Urls : Update(url) \in PlainSteps /\ Load(url) \in PlainSteps
  /\ \A url \in Urls \cap AgentHosts : CheckedLoad(url, TRUE) \in PlainSteps
  /\ \A url \in Urls : CheckedLoad(url, FALSE) \in PlainSteps
BY DEF PlainSteps, Load

\* The first step says which list it is.
LEMMA TodoHead ==
  ASSUME NEW c, NEW q, TodoOK(c, q), q # <<>>
  PROVE  /\ Head(q).do = "tool" => c \in Callers /\ Head(q) \in ToolSteps /\ Tail(q) = <<>>
         /\ Head(q).do = "open" => c \in Callers /\ Head(q) \in OpenSteps /\ Tail(q) = <<>>
         /\ Head(q).do = "append" => c \in Callers /\ Head(q) \in AppendSteps /\ Tail(q) = <<>>
         /\ Head(q).do = "fetch" => Head(q) \in FetchSteps /\ Tail(q) = <<>>
         /\ Head(q).do = "save" => Head(q) \in SaveSteps /\ Tail(q) \in Seq(PlainSteps)
         /\ Head(q).do = "write" => /\ Head(q) \in WriteSteps /\ Tail(q) # <<>>
                                    /\ Head(Tail(q)) = ReplaceStep
                                    /\ Tail(Tail(q)) \in Seq(PlainSteps)
         /\ Head(q).do = "replace" => Tail(q) \in Seq(PlainSteps)
         /\ Head(q).do \in {"persist", "update", "eval", "load"}
              => Head(q) \in PlainSteps /\ Tail(q) \in Seq(PlainSteps)
<1> PICK x, r : x = Head(q) /\ r = Tail(q)
  OBVIOUS
<1>1. \/ x \in PlainSteps /\ r \in Seq(PlainSteps)
      \/ x \in LeadSteps(c) /\ r = <<>>
      \/ x \in SaveSteps \cup {ReplaceStep} /\ r \in Seq(PlainSteps)
      \/ x \in WriteSteps /\ r # <<>> /\ Head(r) = ReplaceStep /\ Tail(r) \in Seq(PlainSteps)
  <2>1. q \in Seq(PlainSteps) => x \in PlainSteps /\ r \in Seq(PlainSteps)
    OBVIOUS
  <2> QED
    BY <2>1 DEF TodoOK
<1>2. CASE x \in PlainSteps /\ r \in Seq(PlainSteps)
  BY <1>2, PlainKinds
<1>3. CASE x \in LeadSteps(c) /\ r = <<>>
  BY <1>3 DEF LeadSteps, FetchSteps, ToolSteps, OpenSteps, AppendSteps
<1>4. CASE x \in SaveSteps \cup {ReplaceStep} /\ r \in Seq(PlainSteps)
  BY <1>4 DEF SaveSteps, ReplaceStep
<1>5. CASE x \in WriteSteps /\ r # <<>> /\ Head(r) = ReplaceStep /\ Tail(r) \in Seq(PlainSteps)
  BY <1>5 DEF WriteSteps
<1> QED
  BY <1>1, <1>2, <1>3, <1>4, <1>5

-----------------------------------------------------------------------------
(* What a bridge method does to the shell.                                 *)

TabsOK ==
  /\ TabListOK(tabs) /\ current \in DOMAIN tabs
  /\ recent \subseteq {"new_tab", "view_source"} /\ agentActive \in BOOLEAN
  /\ sourceReturn \in Urls \cup {NoUrl}

FilesOK ==
  /\ sessionFile \in GoodSessions \cup {NoSession, Garbled}
  /\ tmpFile \in GoodSessions \cup {NoSession, Garbled}

\* What a method starts: plain steps, a fetch, or the opening of a tab when there
\* was room for one.
Starts(q, agent) ==
  \/ q \in Seq(PlainSteps)
  \/ \E x \in FetchSteps : q = <<x>>
  \/ \E x \in OpenSteps : q = <<x>> /\ x.agent = agent /\ Len(tabs) < MaxTabs /\ tabs' = tabs

Effect(c, agent) ==
  /\ TabsOK'
  /\ agentActive' = agentActive
  /\ Len(tabs') <= Len(tabs) \/ Len(tabs') <= MaxTabs
  /\ \E q : Starts(q, agent) /\ todo' = [todo EXCEPT ![c] = q]

LEMMA ReturnsEffect ==
  ASSUME TabsOK, NEW c, NEW agent, Returns(c), UNCHANGED <<recent, agentActive, sourceReturn>>
  PROVE  Effect(c, agent)
<1>1. TabsOK' /\ agentActive' = agentActive
  BY DEF TabsOK, Returns
<1>2. Len(tabs') <= Len(tabs)
  BY DEF TabsOK, TabListOK, Returns
<1>3. Starts(<<>>, agent)
  BY DEF Starts
<1> QED
  BY <1>1, <1>2, <1>3 DEF Effect, Returns

LEMMA MoveTabEffect ==
  ASSUME TabsOK, NEW c, NEW agent, NEW from, NEW to, MoveTab(c, from, to)
  PROVE  Effect(c, agent)
<1>1. CASE Returns(c)
  BY <1>1, ReturnsEffect DEF MoveTab
<1>2. CASE ~Returns(c)
  <2> PICK t : t = MoveTarget(tabs, from, to)
    OBVIOUS
  <2>1. /\ from \in DOMAIN tabs /\ to \in DOMAIN tabs
        /\ tabs' = Moved(tabs, from, t)
        /\ current' = MovedIndex(current, from, t)
        /\ todo' = [todo EXCEPT ![c] = <<Persist>>]
        /\ UNCHANGED <<recent, agentActive, sourceReturn>>
    BY <1>2 DEF MoveTab
  <2>2. TabListOK(tabs') /\ Len(tabs') = Len(tabs) /\ current' \in DOMAIN tabs'
    BY <2>1, MovedOK DEF TabsOK
  <2>3. TabsOK'
    BY <2>1, <2>2 DEF TabsOK
  <2>4. Starts(<<Persist>>, agent)
    BY PlainMembers DEF Starts
  <2>5. Len(tabs') <= Len(tabs)
    BY <2>2 DEF TabsOK, TabListOK
  <2> QED
    BY <2>1, <2>3, <2>4, <2>5 DEF Effect
<1> QED
  BY <1>1, <1>2

LEMMA CloseTabEffect ==
  ASSUME TabsOK, NEW c, NEW agent, NEW i, CloseTab(c, i)
  PROVE  Effect(c, agent)
<1>1. CASE Returns(c)
  BY <1>1, ReturnsEffect DEF CloseTab
<1>2. CASE ~Returns(c)
  <2>1. /\ i \in DOMAIN tabs /\ Len(tabs) # 1
        /\ tabs' = RemoveAt(tabs, i)
        /\ current' = IF current >= i /\ current > 1 THEN current - 1 ELSE current
        /\ todo' = [todo EXCEPT ![c] = <<Load(tabs'[current'].url), Persist>>]
        /\ UNCHANGED <<recent, agentActive, sourceReturn>>
    BY <1>2 DEF CloseTab, RemoveTab
  <2>2. TabListOK(tabs') /\ Len(tabs') = Len(tabs) - 1 /\ DOMAIN tabs' = 1..(Len(tabs) - 1)
    BY <2>1, RemovedOK DEF TabsOK
  <2>3. Len(tabs) \in Nat /\ DOMAIN tabs = 1..Len(tabs) /\ current \in 1..Len(tabs)
    BY DEF TabsOK, TabListOK
  <2>4. current' \in DOMAIN tabs'
    BY <2>1, <2>2, <2>3
  <2>5. TabsOK'
    BY <2>1, <2>2, <2>4 DEF TabsOK
  <2>6. tabs'[current'].url \in Urls
    BY <2>2, <2>4, TabUrl
  <2>7. Load(tabs'[current'].url) \in PlainSteps /\ Persist \in PlainSteps
    BY <2>6, PlainMembers
  <2>8. Starts(<<Load(tabs'[current'].url), Persist>>, agent)
    BY <2>7 DEF Starts
  <2>9. Len(tabs') <= Len(tabs)
    BY <2>2, <2>3
  <2> QED
    BY <2>1, <2>5, <2>8, <2>9 DEF Effect
<1> QED
  BY <1>1, <1>2

LEMMA SwitchTabEffect ==
  ASSUME TabsOK, NEW c, NEW agent, NEW i, SwitchTab(c, i)
  PROVE  Effect(c, agent)
<1>1. i \in DOMAIN tabs /\ tabs[i].url \in Urls
  BY TabUrl DEF TabsOK, SwitchTab
<1>2. <<Persist, Load(tabs[i].url)>> \in Seq(PlainSteps)
  BY <1>1, PlainMembers
<1>3. Starts(<<Persist, Load(tabs[i].url)>>, agent)
  BY <1>2 DEF Starts
<1>4. TabsOK'
  BY <1>1 DEF TabsOK, SwitchTab
<1>5. Len(tabs') <= Len(tabs)
  BY DEF TabsOK, TabListOK, SwitchTab
<1> QED
  BY <1>3, <1>4, <1>5 DEF Effect, SwitchTab

LEMMA SetPinnedEffect ==
  ASSUME TabsOK, NEW c, NEW agent, NEW i, NEW pinned \in BOOLEAN, SetPinned(c, i, pinned)
  PROVE  Effect(c, agent)
<1>1. CASE Returns(c)
  BY <1>1, ReturnsEffect DEF SetPinned
<1>2. CASE ~Returns(c)
  <2> PICK flipped : flipped = [tabs EXCEPT ![i].pinned = pinned]
    OBVIOUS
  <2>1. /\ i \in DOMAIN tabs
        /\ tabs' = Reordered(flipped)
        /\ current' = ReorderedIndex(flipped, i)
        /\ todo' = [todo EXCEPT ![c] = <<Persist>>]
        /\ UNCHANGED <<recent, agentActive, sourceReturn>>
    BY <1>2 DEF SetPinned
  <2>2. flipped \in Seq(Tabs) /\ Len(flipped) = Len(tabs) /\ i \in DOMAIN flipped
    <3>1. tabs \in Seq(Tabs) /\ i \in 1..Len(tabs) /\ tabs[i] \in Tabs
      BY <2>1 DEF TabsOK, TabListOK
    <3>2. [tabs[i] EXCEPT !.pinned = pinned] \in Tabs
      BY <3>1 DEF Tabs
    <3>3. flipped = [tabs EXCEPT ![i] = [tabs[i] EXCEPT !.pinned = pinned]]
      BY <3>1
    <3> QED
      BY <3>1, <3>2, <3>3
  <2>3. TabListOK(tabs') /\ Len(tabs') = Len(tabs) /\ current' \in DOMAIN tabs'
    BY <2>1, <2>2, ReorderedOK
  <2>4. TabsOK'
    BY <2>1, <2>3 DEF TabsOK
  <2>5. Starts(<<Persist>>, agent)
    BY PlainMembers DEF Starts
  <2>6. Len(tabs') <= Len(tabs)
    BY <2>3 DEF TabsOK, TabListOK
  <2> QED
    BY <2>1, <2>4, <2>5, <2>6 DEF Effect
<1> QED
  BY <1>1, <1>2

\* The methods that leave the tabs as they are.
LEMMA SteadyEffect ==
  ASSUME TabsOK, NEW c, NEW agent, NEW q, Starts(q, agent),
         todo' = [todo EXCEPT ![c] = q], UNCHANGED <<tabs, current, agentActive>>,
         recent' \subseteq {"new_tab", "view_source"}, sourceReturn' \in Urls \cup {NoUrl}
  PROVE  Effect(c, agent)
<1>1. TabsOK'
  BY DEF TabsOK
<1>2. Len(tabs') <= Len(tabs)
  BY DEF TabsOK, TabListOK
<1> QED
  BY <1>1, <1>2 DEF Effect

LEMMA NewTabEffect ==
  ASSUME TabsOK, NEW c, NEW agent \in BOOLEAN, NEW url \in Urls, NewTab(c, url, agent)
  PROVE  Effect(c, agent)
<1>1. PICK q : /\ todo' = [todo EXCEPT ![c] = q]
               /\ q = IF "new_tab" \in recent \/ Len(tabs) >= MaxTabs THEN <<Notify>>
                      ELSE <<[do |-> "open", url |-> url, agent |-> agent]>>
  BY DEF NewTab
<1>2. Starts(q, agent)
  <2>1. CASE "new_tab" \in recent \/ Len(tabs) >= MaxTabs
    BY <1>1, <2>1, PlainMembers DEF Starts
  <2>2. CASE ~("new_tab" \in recent \/ Len(tabs) >= MaxTabs)
    <3> PICK x : x = [do |-> "open", url |-> url, agent |-> agent]
      OBVIOUS
    <3>1. x \in OpenSteps /\ x.agent = agent
      BY DEF OpenSteps
    <3>2. Len(tabs) < MaxTabs
      BY <2>2, TabShellAssumption DEF TabsOK, TabListOK
    <3>3. q = <<x>> /\ tabs' = tabs
      BY <1>1, <2>2 DEF NewTab
    <3> QED
      BY <3>1, <3>2, <3>3 DEF Starts
  <2> QED
    BY <2>1, <2>2
<1> QED
  BY <1>1, <1>2, SteadyEffect DEF NewTab, TabsOK

LEMMA NavigateEffect ==
  ASSUME TabsOK, NEW c, NEW agent \in BOOLEAN, agent => agentActive, NEW url \in Urls,
         Navigate(c, url, agent)
  PROVE  Effect(c, agent)
<1>1. PICK q : /\ todo' = [todo EXCEPT ![c] = q]
               /\ q = IF IsNavigationSafe(url)
                      THEN <<Update(url), Persist, CheckedLoad(url, agent)>> ELSE <<Notify>>
  BY DEF Navigate
<1>2. Starts(q, agent)
  <2>1. CASE ~IsNavigationSafe(url)
    BY <1>1, <2>1, PlainMembers DEF Starts
  <2>2. CASE IsNavigationSafe(url)
    <3>1. CheckedLoad(url, agent) \in PlainSteps
      <4>1. CASE agent
        <5>1. url \in Urls \cap AgentHosts /\ agent = TRUE
          BY <2>2, <4>1 DEF IsNavigationSafe
        <5> QED
          BY <5>1, PlainMembers
      <4>2. CASE ~agent
        <5>1. agent = FALSE
          BY <4>2
        <5> QED
          BY <5>1, PlainMembers
      <4> QED
        BY <4>1, <4>2
    <3>2. Update(url) \in PlainSteps /\ Persist \in PlainSteps
      BY PlainMembers
    <3>3. q \in Seq(PlainSteps)
      BY <1>1, <2>2, <3>1, <3>2
    <3> QED
      BY <3>3 DEF Starts
  <2> QED
    BY <2>1, <2>2
<1> QED
  BY <1>1, <1>2, SteadyEffect DEF Navigate, TabsOK

LEMMA RestoreSessionEffect ==
  ASSUME TabsOK, FilesOK, NEW c, NEW agent, RestoreSession(c)
  PROVE  Effect(c, agent)
<1>1. CASE ~IsTrustedSource \/ SavedSession(agentActive) = NoSession
  <2>1. Starts(<<Notify>>, agent)
    BY PlainMembers DEF Starts
  <2> QED
    BY <1>1, <2>1, SteadyEffect DEF RestoreSession, TabsOK
<1>2. CASE ~(~IsTrustedSource \/ SavedSession(agentActive) = NoSession)
  <2> PICK data : data = SavedSession(agentActive)
    OBVIOUS
  <2>1. /\ tabs' = data.tabs /\ current' = data.current
        /\ todo' = [todo EXCEPT ![c] = <<Load(data.tabs[data.current].url)>>]
        /\ UNCHANGED <<recent, agentActive, sourceReturn>>
    BY <1>2 DEF RestoreSession
  <2>2. data \in Usable /\ Len(data.tabs) <= MaxTabs
    BY <1>2, SavedSessionOK DEF TabsOK, FilesOK
  <2>3. TabListOK(data.tabs) /\ data.current \in DOMAIN data.tabs
    BY <2>2 DEF Usable, GoodSessions, Sessions, TabListOK
  <2>4. TabsOK'
    BY <2>1, <2>3 DEF TabsOK
  <2>5. data.tabs[data.current].url \in Urls
    BY <2>3, TabUrl
  <2>6. Starts(<<Load(data.tabs[data.current].url)>>, agent)
    BY <2>5, PlainMembers DEF Starts
  <2> QED
    BY <2>1, <2>2, <2>4, <2>6 DEF Effect
<1> QED
  BY <1>1, <1>2

LEMMA ViewSourceEffect ==
  ASSUME TabsOK, page \in Pages, NEW c, NEW agent, ViewSource(c)
  PROVE  Effect(c, agent)
<1> DEFINE refused == \/ "view_source" \in recent
                      \/ CurrentUrl \in {NoUrl, Start}
                      \/ ~IsNavigationSafe(CurrentUrl)
<1>1. CASE refused
  <2>1. Starts(<<Notify>>, agent)
    BY PlainMembers DEF Starts
  <2> QED
    BY <1>1, <2>1, SteadyEffect DEF ViewSource, TabsOK
<1>2. CASE ~refused
  <2> PICK x : x = [do |-> "fetch", url |-> CurrentUrl]
    OBVIOUS
  <2>1. CurrentUrl \in Urls
    BY <1>2 DEF CurrentUrl, Urls
  <2>2. x \in FetchSteps
    BY <2>1 DEF FetchSteps
  <2>3. Starts(<<x>>, agent)
    BY <2>2 DEF Starts
  <2>4. /\ todo' = [todo EXCEPT ![c] = <<x>>]
        /\ recent' = recent \cup {"view_source"}
        /\ UNCHANGED <<tabs, current, agentActive, sourceReturn>>
    BY <1>2 DEF ViewSource
  <2> QED
    BY <2>3, <2>4, SteadyEffect DEF TabsOK
<1> QED
  BY <1>1, <1>2

LEMMA MethodEffect ==
  ASSUME TabsOK, FilesOK, page \in Pages, NEW c, NEW agent \in BOOLEAN, agent => agentActive,
         NEW m, NEW a, m \in UrlMethods => a \in Urls, Method(c, m, a, agent)
  PROVE  Effect(c, agent)
<1>1. CASE m = "move_tab" /\ \E from, to \in DOMAIN tabs : MoveTab(c, from, to)
  BY <1>1, MoveTabEffect
<1>2. CASE m = "close_current_tab" /\ CloseCurrentTab(c)
  BY <1>2, CloseTabEffect DEF CloseCurrentTab
<1>3. CASE m = "close_tab" /\ CloseTab(c, a)
  BY <1>3, CloseTabEffect
<1>4. CASE m = "switch_tab" /\ SwitchTab(c, a)
  BY <1>4, SwitchTabEffect
<1>5. CASE m = "pin_tab" /\ PinTab(c, a)
  BY <1>5, SetPinnedEffect DEF PinTab
<1>6. CASE m = "unpin_tab" /\ UnpinTab(c, a)
  BY <1>6, SetPinnedEffect DEF UnpinTab
<1>7. CASE m = "set_tab_group" /\ SetTabGroup(c, a)
  <2>1. Starts(<<Persist>>, agent)
    BY PlainMembers DEF Starts
  <2> QED
    BY <1>7, <2>1, SteadyEffect DEF SetTabGroup, TabsOK
<1>8. CASE m = "new_tab" /\ NewTab(c, a, agent)
  BY <1>8, NewTabEffect DEF UrlMethods
<1>9. CASE m = "navigate" /\ Navigate(c, a, agent)
  BY <1>9, NavigateEffect DEF UrlMethods
<1>10. CASE m = "go_back" /\ GoBack(c)
  <2>1. Starts(<<[do |-> "eval", what |-> "history"]>>, agent)
    BY PlainMembers DEF Starts
  <2> QED
    BY <1>10, <2>1, SteadyEffect DEF GoBack, TabsOK
<1>11. CASE m = "go_home" /\ GoHome(c)
  <2>1. Starts(<<Load(Start)>>, agent)
    BY PlainMembers, TabShellAssumption DEF Starts, Urls
  <2> QED
    BY <1>11, <2>1, SteadyEffect DEF GoHome, TabsOK
<1>12. CASE m = "restore_session" /\ RestoreSession(c)
  BY <1>12, RestoreSessionEffect
<1>13. CASE m = "view_source" /\ ViewSource(c)
  BY <1>13, ViewSourceEffect
<1>14. CASE m = "close_source_view" /\ CloseSourceView(c)
  <2>1. PICK q : /\ todo' = [todo EXCEPT ![c] = q]
                 /\ q = IF sourceReturn = NoUrl THEN <<>> ELSE <<Load(sourceReturn)>>
    BY <1>14 DEF CloseSourceView
  <2>2. q \in Seq(PlainSteps)
    BY <2>1, PlainMembers DEF TabsOK
  <2>3. Starts(q, agent)
    BY <2>2 DEF Starts
  <2> QED
    BY <1>14, <2>1, <2>3, SteadyEffect DEF CloseSourceView, TabsOK
<1> QED
  BY <1>1, <1>2, <1>3, <1>4, <1>5, <1>6, <1>7, <1>8, <1>9, <1>10, <1>11, <1>12, <1>13, <1>14
  DEF Method
-----------------------------------------------------------------------------
(* The navigation queue: types, and a thread that waits for a worker has   *)
(* an operation to give up.                                                *)

BusyWithOp == \A t \in NavThreads : nav[t] = "busy" => working[t] \in WindowOps
NavInv == NavTypeOK /\ BusyWithOp

LEMMA NavTail ==
  ASSUME NavTypeOK, queue # <<>>
  PROVE  Head(queue) \in WindowOps /\ Tail(queue) \in Seq(WindowOps)
BY DEF NavTypeOK

LEMMA EnsureThreadType ==
  ASSUME NavInv, EnsureThread
  PROVE  /\ navThread' \in NavThreads \cup {NoThread} /\ navStop' \in BOOLEAN
         /\ nav' \in [NavThreads -> {"none", "get", "busy"}]
         /\ \A t \in NavThreads : nav'[t] = "busy" => working[t] \in WindowOps
<1>1. CASE IsAlive(navThread)
  BY <1>1 DEF EnsureThread, NavInv, NavTypeOK, BusyWithOp
<1>2. CASE ~IsAlive(navThread)
  <2>1. PICK t \in NavThreads : /\ nav' = [nav EXCEPT ![t] = "get"]
                               /\ navThread' = t /\ navStop' = FALSE
    BY <1>2 DEF EnsureThread
  <2> QED
    BY <2>1 DEF NavInv, NavTypeOK, BusyWithOp
<1> QED
  BY <1>1, <1>2

LEMMA PostType ==
  ASSUME NavInv, NEW op \in WindowOps, Post(op)
  PROVE  NavInv'
<1>1. queue' \in Seq(WindowOps)
  BY DEF Post, NavInv, NavTypeOK
<1>2. UNCHANGED <<working, late, watchdog, page, loads>>
  BY DEF Post
<1>3. /\ navThread' \in NavThreads \cup {NoThread} /\ navStop' \in BOOLEAN
      /\ nav' \in [NavThreads -> {"none", "get", "busy"}]
      /\ \A t \in NavThreads : nav'[t] = "busy" => working[t] \in WindowOps
  BY EnsureThreadType DEF Post
<1> QED
  BY <1>1, <1>2, <1>3 DEF NavInv, NavTypeOK, BusyWithOp

LEMMA ApplyType ==
  ASSUME NavTypeOK, NEW op \in WindowOps \cup {NoOp}, Apply(op)
  PROVE  page' \in Pages /\ loads' \in 0..LoadBound
<1>1. LoadBound \in Nat /\ loads \in 0..LoadBound /\ page \in Pages /\ SourceView \in Pages
  BY NavQueueAssumption DEF NavTypeOK
<1>2. op.do \in {"load", "load_html"} => op.arg \in Pages
  BY <1>1 DEF WindowOps, NoOp
<1>3. CASE op.do = "eval" /\ op.arg = "inject" /\ UNCHANGED <<page, loads>>
  BY <1>1, <1>3
<1>4. CASE op.do \in {"load", "load_html"} /\ loads < LoadBound /\ page' = op.arg /\ loads' = loads + 1
  BY <1>1, <1>2, <1>4
<1>5. CASE loads < LoadBound /\ page' \in Pages /\ loads' = loads + 1
  BY <1>1, <1>5
<1> QED
  BY <1>3, <1>4, <1>5 DEF Apply

LEMMA NavType ==
  ASSUME NavInv, NavNext
  PROVE  NavInv'
<1>1. ASSUME NEW t \in NavThreads, GetTimeout(t) PROVE NavInv'
  BY <1>1 DEF GetTimeout, NextTurn, NavInv, NavTypeOK, BusyWithOp
<1>2. ASSUME NEW t \in NavThreads, Take(t) PROVE NavInv'
  <2>1. Head(queue) \in WindowOps /\ Tail(queue) \in Seq(WindowOps)
    BY <1>2, NavTail DEF Take, NavInv
  <2>2. working' \in [NavThreads -> WindowOps \cup {NoOp}]
    BY <1>2, <2>1 DEF Take, NavInv, NavTypeOK, BusyWithOp
  <2> QED
    BY <1>2, <2>1, <2>2 DEF Take, NavInv, NavTypeOK, BusyWithOp
<1>3. ASSUME NEW t \in NavThreads, WorkerDone(t) PROVE NavInv'
  <2>1. working[t] \in WindowOps \cup {NoOp}
    BY DEF NavInv, NavTypeOK
  <2>2. page' \in Pages /\ loads' \in 0..LoadBound
    BY <1>3, <2>1, ApplyType DEF WorkerDone, NavInv
  <2>3. working' \in [NavThreads -> WindowOps \cup {NoOp}]
    BY <1>3 DEF WorkerDone, NavInv, NavTypeOK, BusyWithOp
  <2> QED
    BY <1>3, <2>2, <2>3 DEF WorkerDone, NextTurn, NavInv, NavTypeOK, BusyWithOp
<1>4. ASSUME NEW t \in NavThreads, GiveUp(t) PROVE NavInv'
  <2>1. working[t] \in WindowOps
    BY <1>4 DEF GiveUp, NavInv, NavTypeOK, BusyWithOp
  <2>2. working' \in [NavThreads -> WindowOps \cup {NoOp}] /\ late' \subseteq WindowOps
    BY <1>4, <2>1 DEF GiveUp, NavInv, NavTypeOK, BusyWithOp
  <2> QED
    BY <1>4, <2>2 DEF GiveUp, NextTurn, NavInv, NavTypeOK, BusyWithOp
<1>5. ASSUME NEW op \in late, LateDone(op) PROVE NavInv'
  <2>1. op \in WindowOps
    BY DEF NavInv, NavTypeOK
  <2>2. page' \in Pages /\ loads' \in 0..LoadBound
    BY <1>5, <2>1, ApplyType DEF LateDone, NavInv
  <2> QED
    BY <1>5, <2>2 DEF LateDone, NavInv, NavTypeOK, BusyWithOp
<1>6. CASE WatchdogCheck
  BY <1>6 DEF WatchdogCheck, NavInv, NavTypeOK, BusyWithOp
<1>7. CASE Drain
  BY <1>7 DEF Drain, NavInv, NavTypeOK, BusyWithOp
<1>8. CASE Stop
  BY <1>8 DEF Stop, NavInv, NavTypeOK, BusyWithOp
<1>9. CASE Restart
  <2>1. /\ navThread' \in NavThreads \cup {NoThread} /\ navStop' \in BOOLEAN
        /\ nav' \in [NavThreads -> {"none", "get", "busy"}]
        /\ \A t \in NavThreads : nav'[t] = "busy" => working[t] \in WindowOps
    BY <1>9, EnsureThreadType DEF Restart
  <2> QED
    BY <1>9, <2>1 DEF Restart, NavInv, NavTypeOK, BusyWithOp
<1> QED
  BY <1>1, <1>2, <1>3, <1>4, <1>5, <1>6, <1>7, <1>8, <1>9 DEF NavNext, NavStep, Recover
-----------------------------------------------------------------------------
(* The types of the whole shell.                                           *)

TodosOK == DOMAIN todo = Threads /\ \A c \in Threads : TodoOK(c, todo[c])

TypeInv ==
  /\ NavInv /\ TabsOK /\ FilesOK /\ TodosOK
  /\ tmpThere \in BOOLEAN /\ tmpOpen \subseteq Savers

LEMMA TypeInvTypes == TypeInv => TypeOK
BY DEF TypeInv, TypeOK, NavInv, TabsOK, TabListOK, TodosOK

LEMMA TodoSet ==
  ASSUME TodosOK, NEW c \in Threads, NEW q, todo' = [todo EXCEPT ![c] = q]
  PROVE  /\ DOMAIN todo' = Threads /\ todo'[c] = q
         /\ \A d \in Threads \ {c} : todo'[d] = todo[d]
         /\ TodoOK(c, q) => TodosOK'
BY DEF TodosOK

LEMMA PlainTodo == ASSUME NEW c, NEW q \in Seq(PlainSteps) PROVE TodoOK(c, q)
BY DEF TodoOK

LEMMA LeadTodo == ASSUME NEW c, NEW x \in LeadSteps(c) PROVE TodoOK(c, <<x>>)
BY Single DEF TodoOK

LEMMA StartsTodo ==
  ASSUME NEW c \in Callers, NEW q, NEW agent, Starts(q, agent)
  PROVE  TodoOK(c, q)
<1>1. CASE q \in Seq(PlainSteps)
  BY <1>1, PlainTodo
<1>2. ASSUME NEW x \in FetchSteps \cup OpenSteps, q = <<x>> PROVE TodoOK(c, q)
  <2>1. x \in LeadSteps(c)
    BY DEF LeadSteps
  <2> QED
    BY <1>2, <2>1, LeadTodo
<1> QED
  BY <1>1, <1>2 DEF Starts

LEMMA EffectType ==
  ASSUME TypeInv, NEW c \in Callers, NEW agent, Effect(c, agent), UNCHANGED <<navVars, sessionVars>>
  PROVE  TypeInv'
<1>1. PICK q : Starts(q, agent) /\ todo' = [todo EXCEPT ![c] = q]
  BY DEF Effect
<1>2. TodosOK'
  BY <1>1, StartsTodo, TodoSet DEF TypeInv, Threads
<1>3. NavInv' /\ FilesOK' /\ tmpThere' \in BOOLEAN /\ tmpOpen' \subseteq Savers
  BY DEF TypeInv, NavInv, NavTypeOK, BusyWithOp, navVars, FilesOK, sessionVars
<1> QED
  BY <1>2, <1>3 DEF Effect, TypeInv

LEMMA CallType ==
  ASSUME TypeInv, NEW c \in Callers, Call(c)
  PROVE  Effect(c, FALSE)
<1>1. PICK m \in IndexMethods \cup UrlMethods \cup PlainMethods : \E a \in Args(m) : Method(c, m, a, FALSE)
  BY DEF Call
<1>2. PICK a \in Args(m) : Method(c, m, a, FALSE)
  BY <1>1
<1>3. m \in UrlMethods => a \in Urls
  BY <1>2 DEF Args, IndexMethods, UrlMethods
<1>4. page \in Pages
  BY DEF TypeInv, NavInv, NavTypeOK
<1> QED
  BY <1>2, <1>3, <1>4, MethodEffect DEF TypeInv

\* What the rest of an invariant sees of a thread's step: the list it leaves.
Leaves(c, q) == TodoOK(c, q) /\ todo' = [todo EXCEPT ![c] = q]

\* An agent's tool is a call like the others, or has nothing to do.
LEMMA RunToolType ==
  ASSUME TypeInv, NEW c \in Threads, RunTool(c), agentActive
  PROVE  c \in Callers /\ Effect(c, TRUE)
<1> PICK x : x = Now(c)
  OBVIOUS
<1>1. todo[c] # <<>> /\ x = Head(todo[c]) /\ x.do = "tool" /\ TodoOK(c, todo[c])
  BY DEF RunTool, At, Now, TypeInv, TodosOK
<1>2. c \in Callers /\ x \in ToolSteps /\ Tail(todo[c]) = <<>>
  BY <1>1, TodoHead
<1>3. CASE Method(c, x.method, x.arg, TRUE)
  <2>1. x.method \in UrlMethods => x.arg \in Urls
    BY <1>2 DEF ToolSteps
  <2>2. page \in Pages
    BY DEF TypeInv, NavInv, NavTypeOK
  <2> QED
    BY <1>2, <1>3, <2>1, <2>2, MethodEffect DEF TypeInv
<1>4. CASE Done(c) /\ UNCHANGED <<tabs, current, recent, agentActive, sourceReturn>>
  <2>1. Returns(c)
    BY <1>2, <1>4 DEF Returns, Done, TypeInv, TodosOK
  <2> QED
    BY <1>2, <1>4, <2>1, ReturnsEffect DEF TypeInv
<1> QED
  BY <1>3, <1>4 DEF RunTool

LEMMA HandleRequestType ==
  ASSUME TypeInv, NEW c \in Callers, HandleRequest(c)
  PROVE  TypeInv' /\ \E q : Leaves(c, q) /\ Head(q).do = "tool"
<1>1. PICK m \in AgentTools : \E a \in Args(m) :
         todo' = [todo EXCEPT ![c] = <<[do |-> "tool", method |-> m, arg |-> a]>>]
  BY DEF HandleRequest
<1>2. PICK a \in Args(m) :
         todo' = [todo EXCEPT ![c] = <<[do |-> "tool", method |-> m, arg |-> a]>>]
  BY <1>1
<1> PICK x : x = [do |-> "tool", method |-> m, arg |-> a]
  OBVIOUS
<1>3. a \in Nat \cup Urls \cup {NoUrl} /\ (m \in UrlMethods => a \in Urls)
  BY <1>2 DEF Args, IndexMethods, UrlMethods, TypeInv, TabsOK, TabListOK
<1>4. x \in ToolSteps
  BY <1>3 DEF ToolSteps
<1>5. Leaves(c, <<x>>) /\ Head(<<x>>).do = "tool"
  BY <1>2, <1>4, LeadTodo DEF LeadSteps, Leaves
<1>6. TodosOK'
  BY <1>5, TodoSet DEF TypeInv, Threads, Leaves
<1>7. TabsOK'
  BY DEF HandleRequest, TypeInv, TabsOK
<1>8. NavInv' /\ FilesOK' /\ tmpThere' \in BOOLEAN /\ tmpOpen' \subseteq Savers
  BY DEF HandleRequest, TypeInv, NavInv, NavTypeOK, BusyWithOp, navVars, FilesOK, sessionVars
<1> QED
  BY <1>5, <1>6, <1>7, <1>8 DEF TypeInv
-----------------------------------------------------------------------------
(* The steps of a thread: what each leaves to do, and the types it keeps.  *)

\* While an agent's tool has not been through its check, its session is marked.
AgentMarked ==
  \A c \in Threads : todo[c] # <<>> =>
    /\ Head(todo[c]).do = "tool" => agentActive
    /\ Head(todo[c]).do = "open" /\ Head(todo[c]).agent => agentActive

LEMMA HeadNow ==
  ASSUME TypeInv, NEW c \in Threads, NEW step, At(c, step)
  PROVE  todo[c] # <<>> /\ Now(c) = Head(todo[c]) /\ Now(c).do = step /\ TodoOK(c, todo[c])
BY DEF At, Now, TypeInv, TodosOK

\* What is common to the steps that leave the window and the tabs alone.
LEMMA StepType ==
  ASSUME TypeInv, NEW c \in Threads, NEW q, Leaves(c, q), TabsOK', NavInv', FilesOK',
         tmpThere' \in BOOLEAN, tmpOpen' \subseteq Savers
  PROVE  TypeInv'
BY TodoSet DEF TypeInv, Leaves

LEMMA NavSame == ASSUME TypeInv, UNCHANGED navVars PROVE NavInv'
BY DEF TypeInv, NavInv, NavTypeOK, BusyWithOp, navVars

LEMMA FilesSame ==
  ASSUME TypeInv, UNCHANGED sessionVars
  PROVE  FilesOK' /\ tmpThere' \in BOOLEAN /\ tmpOpen' \subseteq Savers
BY DEF TypeInv, FilesOK, sessionVars

LEMMA NothingBehind == ASSUME NEW U, NEW q \in Seq(U) PROVE q \o <<>> = q
<1>1. q \o <<>> \in Seq(U) /\ Len(q \o <<>>) = Len(q) /\ \A i \in 1..Len(q) : (q \o <<>>)[i] = q[i]
  OBVIOUS
<1> QED
  BY <1>1

LEMMA OpenTabType ==
  ASSUME TypeInv, AgentMarked, NEW c \in Threads, OpenTab(c)
  PROVE  /\ TypeInv'
         /\ \E q : /\ Leaves(c, q) /\ q # <<>>
                   /\ Head(q).do \in {"append", "eval"}
<1> PICK x : x = Now(c)
  OBVIOUS
<1>1. todo[c] # <<>> /\ x = Head(todo[c]) /\ x.do = "open" /\ TodoOK(c, todo[c])
  BY HeadNow DEF OpenTab
<1>2. c \in Callers /\ x \in OpenSteps /\ Tail(todo[c]) = <<>>
  BY <1>1, TodoHead
<1>3. PICK y : /\ y = IF x.url = Start \/ IsNavigationSafe(x.url)
                     THEN [x EXCEPT !.do = "append"] ELSE Notify
               /\ todo' = [todo EXCEPT ![c] = <<y>>]
  <2> PICK y : y = IF x.url = Start \/ IsNavigationSafe(x.url)
                   THEN [x EXCEPT !.do = "append"] ELSE Notify
    OBVIOUS
  <2>1. Then(c, <<y>>)
    BY DEF OpenTab
  <2>2. <<y>> \o Tail(todo[c]) = <<y>>
    <3>1. <<y>> \in Seq({y})
      OBVIOUS
    <3> QED
      BY <1>2, <3>1, NothingBehind
  <2> QED
    BY <2>1, <2>2 DEF Then, TypeInv, TodosOK
<1>4. y \in AppendSteps \/ y = Notify
  <2> SUFFICES ASSUME x.url = Start \/ IsNavigationSafe(x.url) PROVE y \in AppendSteps
    BY <1>3
  <2>1. y = [do |-> "append", url |-> x.url, agent |-> x.agent]
    BY <1>2, <1>3 DEF OpenSteps
  <2>2. x.agent => agentActive
    BY <1>1 DEF AgentMarked
  <2>3. x.agent => x.url \in AgentHosts \cup {Start}
    BY <2>2 DEF IsNavigationSafe
  <2> QED
    BY <1>2, <2>1, <2>3 DEF AppendSteps, OpenSteps
<1>5. Leaves(c, <<y>>) /\ Head(<<y>>).do \in {"append", "eval"}
  <2>1. CASE y \in AppendSteps
    BY <1>2, <1>3, <2>1, LeadTodo DEF LeadSteps, Leaves, AppendSteps
  <2>2. CASE y = Notify
    <3>1. <<y>> \in Seq(PlainSteps)
      BY <2>2, PlainMembers
    <3>2. TodoOK(c, <<y>>)
      BY <3>1, PlainTodo
    <3>3. Head(<<y>>).do = "eval"
      BY <2>2 DEF Notify
    <3> QED
      BY <1>3, <3>2, <3>3 DEF Leaves
  <2> QED
    BY <1>4, <2>1, <2>2
<1>6. TabsOK'
  BY DEF OpenTab, TypeInv, TabsOK
<1>7. TypeInv'
  BY <1>5, <1>6, StepType, NavSame, FilesSame DEF OpenTab
<1> QED
  BY <1>5, <1>7, Single

LEMMA AppendTabType ==
  ASSUME TypeInv, NEW c \in Threads, AppendTab(c)
  PROVE  /\ TypeInv' /\ Len(tabs') = Len(tabs) + 1
         /\ \E q \in Seq(PlainSteps) : Leaves(c, q)
<1> PICK x : x = Now(c)
  OBVIOUS
<1>1. todo[c] # <<>> /\ x = Head(todo[c]) /\ x.do = "append" /\ TodoOK(c, todo[c])
  BY HeadNow DEF AppendTab
<1>2. c \in Callers /\ x \in AppendSteps /\ Tail(todo[c]) = <<>>
  BY <1>1, TodoHead
<1>3. x.url \in Urls /\ x.agent \in BOOLEAN /\ (x.agent => x.url \in AgentHosts \cup {Start})
  BY <1>2 DEF AppendSteps
<1> PICK q : q = <<Persist, CheckedLoad(x.url, x.agent /\ x.url # Start)>>
  OBVIOUS
<1>4. q \in Seq(PlainSteps)
  <2>1. CASE x.agent /\ x.url # Start
    <3>1. x.url \in Urls \cap AgentHosts /\ (x.agent /\ x.url # Start) = TRUE
      BY <1>3, <2>1
    <3>2. CheckedLoad(x.url, x.agent /\ x.url # Start) \in PlainSteps
      BY <3>1, PlainMembers
    <3> QED
      BY <3>2, PlainMembers
  <2>2. CASE ~(x.agent /\ x.url # Start)
    <3>1. (x.agent /\ x.url # Start) = FALSE
      BY <2>2
    <3>2. CheckedLoad(x.url, x.agent /\ x.url # Start) \in PlainSteps
      BY <1>3, <3>1, PlainMembers
    <3> QED
      BY <3>2, PlainMembers
  <2> QED
    BY <2>1, <2>2
<1>5. Leaves(c, q)
  <2>1. q \o Tail(todo[c]) = q
    BY <1>2, <1>4, NothingBehind
  <2>2. todo' = [todo EXCEPT ![c] = q]
    BY <2>1 DEF AppendTab, Then, TypeInv, TodosOK
  <2> QED
    BY <1>4, <2>2, PlainTodo DEF Leaves
<1>6. TabListOK(tabs') /\ Len(tabs') = Len(tabs) + 1 /\ current' \in DOMAIN tabs'
  <2>1. tabs \in Seq(Tabs) /\ PinnedInFront(tabs) /\ Tab(x.url) \in Tabs /\ Tab(x.url).pinned = FALSE
    BY <1>3 DEF TypeInv, TabsOK, TabListOK, Tab, Tabs
  <2>2. /\ tabs' \in Seq(Tabs) /\ Len(tabs') = Len(tabs) + 1
        /\ tabs'[Len(tabs) + 1] = Tab(x.url)
        /\ \A i \in 1..Len(tabs) : tabs'[i] = tabs[i]
    BY <2>1 DEF AppendTab
  <2>3. Len(tabs) \in Nat /\ DOMAIN tabs = 1..Len(tabs) /\ DOMAIN tabs' = 1..(Len(tabs) + 1)
    BY <2>1, <2>2
  <2>4. ASSUME NEW i \in DOMAIN tabs', NEW j \in DOMAIN tabs', i < j, tabs'[j].pinned
        PROVE  tabs'[i].pinned
    <3>1. j \in 1..Len(tabs) /\ i \in 1..Len(tabs)
      BY <2>1, <2>2, <2>3, <2>4
    <3> QED
      BY <2>1, <2>2, <2>3, <2>4, <3>1 DEF PinnedInFront
  <2>5. current' = Len(tabs')
    BY DEF AppendTab
  <2> QED
    BY <2>2, <2>3, <2>4, <2>5 DEF TabListOK, PinnedInFront
<1>7. TabsOK'
  BY <1>6 DEF AppendTab, TypeInv, TabsOK
<1>8. TypeInv'
  BY <1>5, <1>7, StepType, NavSame, FilesSame DEF AppendTab
<1> QED
  BY <1>4, <1>5, <1>6, <1>8

\* The plain steps end and leave plain steps.
LEMMA PlainRest ==
  ASSUME TypeInv, NEW c \in Threads, NEW step \in {"persist", "update", "eval", "load"}, At(c, step)
  PROVE  Now(c) \in PlainSteps /\ Now(c).do = step /\ Tail(todo[c]) \in Seq(PlainSteps)
BY HeadNow, TodoHead

LEMMA UpdateCurrentType ==
  ASSUME TypeInv, NEW c \in Threads, UpdateCurrent(c)
  PROVE  /\ TypeInv' /\ Len(tabs') = Len(tabs)
         /\ \E q \in Seq(PlainSteps) : Leaves(c, q)
<1>1. /\ Now(c) \in PlainSteps /\ Now(c).do = "update" /\ Tail(todo[c]) \in Seq(PlainSteps)
  BY PlainRest DEF UpdateCurrent
<1> PICK url : url = Now(c).url
  OBVIOUS
<1>2. url \in Urls
  BY <1>1, PlainKinds
<1>3. Leaves(c, Tail(todo[c]))
  BY <1>1, PlainTodo DEF Leaves, UpdateCurrent, Done, TypeInv, TodosOK
<1>4. /\ tabs \in Seq(Tabs) /\ current \in 1..Len(tabs) /\ tabs[current] \in Tabs
      /\ PinnedInFront(tabs)
  BY DEF TypeInv, TabsOK, TabListOK
<1> PICK tab : tab = [tabs[current] EXCEPT !.url = url]
  OBVIOUS
<1>5. tab \in Tabs /\ tab.pinned = tabs[current].pinned
  BY <1>2, <1>4 DEF Tabs
<1>6. tabs' = [tabs EXCEPT ![current] = tab]
  BY <1>4 DEF UpdateCurrent
<1>7. tabs' \in Seq(Tabs) /\ Len(tabs') = Len(tabs) /\ DOMAIN tabs' = DOMAIN tabs
  BY <1>4, <1>5, <1>6
<1>8. \A i \in DOMAIN tabs' : tabs'[i].pinned = tabs[i].pinned
  BY <1>4, <1>5, <1>6, <1>7
<1>9. PinnedInFront(tabs')
  BY <1>4, <1>7, <1>8 DEF PinnedInFront
<1>10. TabsOK'
  BY <1>4, <1>7, <1>9 DEF UpdateCurrent, TypeInv, TabsOK, TabListOK
<1>11. TypeInv'
  BY <1>3, <1>10, StepType, NavSame, FilesSame DEF UpdateCurrent
<1> QED
  BY <1>1, <1>3, <1>7, <1>11

LEMMA PersistSessionType ==
  ASSUME TypeInv, NEW c \in Threads, PersistSession(c)
  PROVE  /\ TypeInv'
         /\ \E q : /\ Leaves(c, q)
                   /\ \/ q \in Seq(PlainSteps)
                      \/ q # <<>> /\ Head(q).do = "save"
<1>1. Tail(todo[c]) \in Seq(PlainSteps)
  BY PlainRest DEF PersistSession
<1> PICK x : x = [do |-> "save", snap |-> Snapshot]
  OBVIOUS
<1>2. x \in SaveSteps
  <2>1. Snapshot \in GoodSessions
    BY DEF Snapshot, TypeInv, TabsOK, TabListOK, GoodSessions, Sessions
  <2> QED
    BY <2>1 DEF SaveSteps
<1>3. PICK q : /\ todo' = [todo EXCEPT ![c] = q]
               /\ q = (IF Sanitized(Snapshot) = NoSession THEN <<>> ELSE <<x>>) \o Tail(todo[c])
  BY DEF PersistSession, Then, TypeInv, TodosOK
<1>4. Leaves(c, q) /\ (q \in Seq(PlainSteps) \/ (q # <<>> /\ Head(q).do = "save"))
  <2>1. CASE Sanitized(Snapshot) = NoSession
    <3>1. q \in Seq(PlainSteps)
      BY <1>1, <1>3, <2>1
    <3> QED
      BY <1>3, <3>1, PlainTodo DEF Leaves
  <2>2. CASE Sanitized(Snapshot) # NoSession
    <3>1. q = <<x>> \o Tail(todo[c])
      BY <1>3, <2>2
    <3>2. q # <<>> /\ Head(q) = x /\ Tail(q) = Tail(todo[c])
      BY <1>1, <3>1, HeadTail
    <3>3. TodoOK(c, q)
      BY <1>1, <1>2, <3>2 DEF TodoOK
    <3>4. x.do = "save"
      OBVIOUS
    <3> QED
      BY <1>3, <3>2, <3>3, <3>4 DEF Leaves
  <2> QED
    BY <2>1, <2>2
<1>5. TabsOK'
  BY DEF PersistSession, TypeInv, TabsOK
<1>6. TypeInv'
  BY <1>4, <1>5, StepType, NavSame, FilesSame DEF PersistSession
<1> QED
  BY <1>4, <1>6

LEMMA TwoBefore ==
  ASSUME NEW U, NEW r \in Seq(U), NEW x, NEW y
  PROVE  <<x, y>> \o r # <<>> /\ Head(<<x, y>> \o r) = x /\ Tail(<<x, y>> \o r) = <<y>> \o r
<1>1. PICK V : V = U \cup {x, y}
  OBVIOUS
<1>2. r \in Seq(V) /\ <<y>> \o r \in Seq(V) /\ <<x, y>> \in Seq(V)
  BY <1>1
<1>3. /\ <<x, y>> \o r \in Seq(V) /\ Len(<<x, y>> \o r) = Len(r) + 2
      /\ (<<x, y>> \o r)[1] = x /\ (<<x, y>> \o r)[2] = y
      /\ \A i \in 1..Len(r) : (<<x, y>> \o r)[i + 2] = r[i]
  BY <1>2
<1>4. /\ Len(<<y>> \o r) = Len(r) + 1 /\ (<<y>> \o r)[1] = y
      /\ \A i \in 1..Len(r) : (<<y>> \o r)[i + 1] = r[i]
  BY <1>2
<1> PICK s, t : s = <<x, y>> \o r /\ t = <<y>> \o r
  OBVIOUS
<1>5. /\ Tail(s) \in Seq(V) /\ Len(Tail(s)) = Len(r) + 1
      /\ \A i \in 1..(Len(r) + 1) : Tail(s)[i] = s[i + 1]
  BY <1>2, <1>3
<1>6. \A i \in 1..(Len(r) + 1) : Tail(s)[i] = t[i]
  <2> SUFFICES ASSUME NEW i \in 1..(Len(r) + 1) PROVE Tail(s)[i] = t[i]
    OBVIOUS
  <2>1. CASE i = 1
    BY <1>3, <1>4, <1>5, <2>1
  <2>2. CASE i # 1
    <3>1. i - 1 \in 1..Len(r)
      BY <1>2, <2>2
    <3>2. s[(i - 1) + 2] = r[i - 1] /\ t[(i - 1) + 1] = r[i - 1]
      BY <1>3, <1>4, <3>1
    <3>3. (i - 1) + 2 = i + 1 /\ (i - 1) + 1 = i
      BY <1>2
    <3> QED
      BY <1>5, <3>2, <3>3
  <2> QED
    BY <2>1, <2>2
<1>7. Tail(s) = t
  BY <1>2, <1>4, <1>5, <1>6
<1> QED
  BY <1>2, <1>3, <1>7

\* A list that starts no tool, opens no tab and is in no save.
Quiet(q) == q = <<>> \/ Head(q).do \notin {"tool", "open", "append", "write", "replace"}

LEMMA PlainQuiet == ASSUME NEW q \in Seq(PlainSteps) PROVE Quiet(q)
<1> SUFFICES ASSUME q # <<>> PROVE Head(q).do \notin {"tool", "open", "append", "write", "replace"}
  BY DEF Quiet
<1>1. Head(q) \in PlainSteps
  OBVIOUS
<1> QED
  BY <1>1, PlainKinds

LEMMA SaveOpenType ==
  ASSUME TypeInv, NEW c \in Threads, At(c, "save"), SaveOpen(c),
         Then(c, <<[Now(c) EXCEPT !.do = "write"], [do |-> "replace"]>>),
         UNCHANGED <<navVars, tabs, current, recent, agentActive, sourceReturn>>
  PROVE  TypeInv' /\ \E q : Leaves(c, q) /\ q # <<>> /\ Head(q).do = "write"
<1> PICK x, r, y : x = Now(c) /\ r = Tail(todo[c]) /\ y = [x EXCEPT !.do = "write"]
  OBVIOUS
<1>1. x \in SaveSteps /\ r \in Seq(PlainSteps)
  BY HeadNow, TodoHead
<1>2. y \in WriteSteps /\ y.do = "write"
  BY <1>1 DEF SaveSteps, WriteSteps
<1> PICK q : q = <<y, ReplaceStep>> \o r
  OBVIOUS
<1>3. q # <<>> /\ Head(q) = y /\ Tail(q) = <<ReplaceStep>> \o r
  <2>1. /\ <<y, ReplaceStep>> \o r # <<>> /\ Head(<<y, ReplaceStep>> \o r) = y
        /\ Tail(<<y, ReplaceStep>> \o r) = <<ReplaceStep>> \o r
    BY <1>1, TwoBefore
  <2> QED
    BY <2>1
<1>4. Tail(q) # <<>> /\ Head(Tail(q)) = ReplaceStep /\ Tail(Tail(q)) = r
  <2>1. /\ <<ReplaceStep>> \o r # <<>> /\ Head(<<ReplaceStep>> \o r) = ReplaceStep
        /\ Tail(<<ReplaceStep>> \o r) = r
    BY <1>1, HeadTail
  <2> QED
    BY <1>3, <2>1
<1>5. TodoOK(c, q)
  BY <1>1, <1>2, <1>3, <1>4 DEF TodoOK
<1>6. Leaves(c, q)
  BY <1>5 DEF Leaves, Then, TypeInv, TodosOK, ReplaceStep
<1>7. TabsOK'
  BY DEF TypeInv, TabsOK
<1>8. FilesOK' /\ tmpThere' \in BOOLEAN /\ tmpOpen' \subseteq Savers
  BY TabShellAssumption DEF TypeInv, FilesOK, SaveOpen, Threads
<1> QED
  BY <1>2, <1>3, <1>6, <1>7, <1>8, StepType, NavSame

LEMMA SaveWriteType ==
  ASSUME TypeInv, NEW c \in Threads, At(c, "write"), SaveWrite(c, Now(c).snap), Done(c),
         UNCHANGED <<navVars, tabs, current, recent, agentActive, sourceReturn>>
  PROVE  /\ TypeInv' /\ Sanitized(Now(c).snap) \in Usable \cup {NoSession}
         /\ \E q : Leaves(c, q) /\ q # <<>> /\ Head(q).do = "replace"
<1> PICK x, q : x = Now(c) /\ q = Tail(todo[c])
  OBVIOUS
<1>1. x \in WriteSteps /\ q # <<>> /\ Head(q) = ReplaceStep /\ Tail(q) \in Seq(PlainSteps)
  BY HeadNow, TodoHead
<1>2. Leaves(c, q)
  BY <1>1 DEF Leaves, TodoOK, Done, TypeInv, TodosOK
<1>3. Sanitized(x.snap) \in Usable \cup {NoSession}
  BY <1>1, SanitizedOK DEF WriteSteps
<1>4. FilesOK' /\ tmpThere' \in BOOLEAN /\ tmpOpen' \subseteq Savers
  BY <1>3 DEF TypeInv, FilesOK, SaveWrite, Usable
<1>5. TabsOK'
  BY DEF TypeInv, TabsOK
<1>6. TypeInv'
  BY <1>2, <1>4, <1>5, StepType, NavSame
<1>7. Head(q).do = "replace"
  BY <1>1 DEF ReplaceStep
<1> QED
  BY <1>1, <1>2, <1>3, <1>6, <1>7

LEMMA SaveReplaceType ==
  ASSUME TypeInv, NEW c \in Threads, At(c, "replace"), SaveReplace(c), Done(c),
         UNCHANGED <<navVars, tabs, current, recent, agentActive, sourceReturn>>
  PROVE  TypeInv' /\ \E q \in Seq(PlainSteps) : Leaves(c, q)
<1>1. Tail(todo[c]) \in Seq(PlainSteps)
  BY HeadNow, TodoHead
<1>2. Leaves(c, Tail(todo[c]))
  BY <1>1, PlainTodo DEF Leaves, Done, TypeInv, TodosOK
<1>3. FilesOK' /\ tmpThere' \in BOOLEAN /\ tmpOpen' \subseteq Savers
  BY DEF TypeInv, FilesOK, SaveReplace, sessionVars
<1>4. TabsOK'
  BY DEF TypeInv, TabsOK
<1> QED
  BY <1>1, <1>2, <1>3, <1>4, StepType, NavSame

LEMMA PostLoadType ==
  ASSUME TypeInv, NEW c \in Threads, PostLoad(c)
  PROVE  /\ TypeInv' /\ \E q \in Seq(PlainSteps) : Leaves(c, q)
         /\ Now(c).agent => Now(c).url \in AgentHosts
<1>1. Now(c) \in PlainSteps /\ Now(c).do = "load" /\ Tail(todo[c]) \in Seq(PlainSteps)
  BY PlainRest DEF PostLoad
<1>2. Now(c).url \in Urls /\ (Now(c).agent => Now(c).url \in AgentHosts)
  BY <1>1, PlainKinds
<1>3. [do |-> "load", arg |-> Now(c).url] \in WindowOps
  BY <1>2 DEF WindowOps, Urls
<1>4. NavInv'
  BY <1>3, PostType DEF PostLoad, TypeInv
<1>5. Leaves(c, Tail(todo[c]))
  BY <1>1, PlainTodo DEF Leaves, Done, TypeInv, TodosOK, PostLoad
<1>6. TabsOK'
  BY DEF PostLoad, TypeInv, TabsOK
<1> QED
  BY <1>1, <1>2, <1>4, <1>5, <1>6, StepType, FilesSame DEF PostLoad

LEMMA PostEvalType ==
  ASSUME TypeInv, NEW c \in Threads, PostEval(c)
  PROVE  TypeInv' /\ \E q \in Seq(PlainSteps) : Leaves(c, q)
<1>1. Now(c) \in PlainSteps /\ Now(c).do = "eval" /\ Tail(todo[c]) \in Seq(PlainSteps)
  BY PlainRest DEF PostEval
<1>2. [do |-> "eval", arg |-> Now(c).what] \in WindowOps
  BY <1>1, PlainKinds DEF WindowOps
<1>3. NavInv'
  BY <1>2, PostType DEF PostEval, TypeInv
<1>4. Leaves(c, Tail(todo[c]))
  BY <1>1, PlainTodo DEF Leaves, Done, TypeInv, TodosOK, PostEval
<1>5. TabsOK'
  BY DEF PostEval, TypeInv, TabsOK
<1> QED
  BY <1>1, <1>3, <1>4, <1>5, StepType, FilesSame DEF PostEval

LEMMA FetchSourceType ==
  ASSUME TypeInv, NEW c \in Threads, FetchSource(c)
  PROVE  TypeInv' /\ \E q \in Seq(PlainSteps) : Leaves(c, q)
<1>1. Now(c) \in FetchSteps /\ Tail(todo[c]) = <<>>
  BY HeadNow, TodoHead DEF FetchSource
<1>2. CASE Then(c, <<Notify>>) /\ UNCHANGED <<navVars, sourceReturn>>
  <2>1. <<Notify>> \in Seq(PlainSteps)
    BY PlainMembers
  <2>2. <<Notify>> \o Tail(todo[c]) = <<Notify>>
    BY <1>1, <2>1, NothingBehind
  <2>3. Leaves(c, <<Notify>>)
    BY <1>2, <2>1, <2>2, PlainTodo DEF Then, Leaves, TypeInv, TodosOK
  <2>4. TabsOK'
    BY <1>2 DEF FetchSource, TypeInv, TabsOK
  <2> QED
    BY <1>2, <2>1, <2>3, <2>4, StepType, NavSame, FilesSame DEF FetchSource
<1>3. CASE /\ sourceReturn' = Now(c).url
           /\ Post([do |-> "load_html", arg |-> SourceView]) /\ Done(c)
  <2>1. [do |-> "load_html", arg |-> SourceView] \in WindowOps
    BY DEF WindowOps
  <2>2. NavInv'
    BY <1>3, <2>1, PostType DEF TypeInv
  <2>3. <<>> \in Seq(PlainSteps)
    OBVIOUS
  <2>4. Leaves(c, <<>>)
    BY <1>1, <1>3, <2>3, PlainTodo DEF Done, Leaves, TypeInv, TodosOK
  <2>5. sourceReturn' \in Urls
    BY <1>1, <1>3 DEF FetchSteps
  <2>6. TabsOK'
    BY <2>5 DEF FetchSource, TypeInv, TabsOK
  <2> QED
    BY <2>2, <2>3, <2>4, <2>6, StepType, FilesSame DEF FetchSource
<1> QED
  BY <1>2, <1>3 DEF FetchSource

LEMMA OnLoadedType ==
  ASSUME TypeInv, NEW c \in Loaders, OnLoaded(c)
  PROVE  TypeInv' /\ \E q \in Seq(PlainSteps) : Leaves(c, q)
<1> PICK q : q = (IF CurrentUrl = NoUrl THEN <<>> ELSE <<Update(CurrentUrl), Persist>>) \o <<Notify>>
  OBVIOUS
<1>1. q \in Seq(PlainSteps)
  <2>1. CurrentUrl # NoUrl => CurrentUrl \in Urls
    BY DEF CurrentUrl, Urls, TypeInv, NavInv, NavTypeOK
  <2>2. (IF CurrentUrl = NoUrl THEN <<>> ELSE <<Update(CurrentUrl), Persist>>) \in Seq(PlainSteps)
    BY <2>1, PlainMembers
  <2>3. <<Notify>> \in Seq(PlainSteps)
    BY PlainMembers
  <2> QED
    BY <2>2, <2>3
<1>2. Leaves(c, q)
  BY <1>1, PlainTodo DEF Leaves, OnLoaded
<1>3. NavInv'
  BY NavQueueAssumption DEF OnLoaded, TypeInv, NavInv, NavTypeOK, BusyWithOp
<1>4. TabsOK'
  BY DEF OnLoaded, TypeInv, TabsOK
<1> QED
  BY <1>1, <1>2, <1>3, <1>4, StepType, FilesSame DEF OnLoaded, Threads
-----------------------------------------------------------------------------
(* The inductive invariant.                                                *)

\* The threads that were told there is room for one more tab.
Opening == {c \in Callers : At(c, "open") \/ At(c, "append")}

\* Each of them was told so with fewer than MaxTabs tabs.
RoomLeft == Len(tabs) + Cardinality(Opening) <= MaxTabs + Cardinality(Callers) - 1

\* As long as saves did not overlap, the temporary file is empty before the
\* write of the one that is under way, and both files can be read.
SavesApart ==
  ~savesOverlap =>
    /\ \A c, d \in Threads : Saving(c) /\ Saving(d) => c = d
    /\ \A c \in Threads : At(c, "write") => tmpFile = NoSession
    /\ Garbled \notin {sessionFile, tmpFile}

IInv == TypeInv /\ AgentMarked /\ AgentConfined /\ RoomLeft /\ SavesApart

LEMMA MarkedKept ==
  ASSUME TypeInv, AgentMarked, NEW c \in Threads, NEW q, Leaves(c, q), agentActive => agentActive',
         q # <<>> => /\ Head(q).do = "tool" => agentActive'
                     /\ Head(q).do = "open" /\ Head(q).agent => agentActive'
  PROVE  AgentMarked'
<1>1. todo'[c] = q /\ \A d \in Threads \ {c} : todo'[d] = todo[d]
  BY TodoSet DEF TypeInv, Leaves
<1> SUFFICES ASSUME NEW d \in Threads, todo'[d] # <<>>
             PROVE  /\ Head(todo'[d]).do = "tool" => agentActive'
                    /\ Head(todo'[d]).do = "open" /\ Head(todo'[d]).agent => agentActive'
  BY DEF AgentMarked
<1>2. CASE d = c
  BY <1>1, <1>2
<1>3. CASE d # c
  BY <1>1, <1>3 DEF AgentMarked
<1> QED
  BY <1>2, <1>3

LEMMA SavesKept ==
  ASSUME TypeInv, SavesApart, NEW c \in Threads, NEW q, Leaves(c, q),
         q = <<>> \/ Head(q).do \notin {"write", "replace"},
         UNCHANGED <<sessionFile, tmpFile, savesOverlap>>
  PROVE  SavesApart'
<1>1. todo'[c] = q /\ \A d \in Threads \ {c} : todo'[d] = todo[d]
  BY TodoSet DEF TypeInv, Leaves
<1>2. \A d \in Threads : Saving(d)' => Saving(d)
  BY <1>1 DEF Saving
<1>3. \A d \in Threads : At(d, "write")' => At(d, "write")
  BY <1>1 DEF At
<1> QED
  BY <1>2, <1>3 DEF SavesApart

LEMMA OpeningSize ==
  ASSUME NEW S, S \subseteq Callers
  PROVE  /\ IsFiniteSet(S) /\ Cardinality(S) \in Nat /\ Cardinality(S) <= Cardinality(Callers)
         /\ Cardinality(Callers) \in Nat \ {0}
         /\ \A c \in Callers \ S : Cardinality(S) <= Cardinality(Callers) - 1
<1>1. IsFiniteSet(Callers) /\ Callers # {}
  BY TabShellAssumption
<1>2. /\ IsFiniteSet(S) /\ Cardinality(S) <= Cardinality(Callers)
      /\ Cardinality(S) \in Nat /\ Cardinality(Callers) \in Nat
  BY <1>1, FS_Subset, FS_CardinalityType
<1>3. Cardinality(Callers) # 0
  BY <1>1, FS_EmptySet
<1>4. ASSUME NEW c \in Callers \ S PROVE Cardinality(S) <= Cardinality(Callers) - 1
  <2>1. /\ IsFiniteSet(Callers \ {c})
        /\ Cardinality(Callers \ {c}) = Cardinality(Callers) - 1
    BY <1>1, <1>4, FS_RemoveElement
  <2>2. S \subseteq Callers \ {c}
    BY <1>4
  <2>3. Cardinality(S) <= Cardinality(Callers \ {c})
    BY <2>1, <2>2, FS_Subset
  <2> QED
    BY <2>1, <2>3
<1> QED
  BY <1>2, <1>3, <1>4

\* Nobody is told there is room, and the list does not grow.
LEMMA RoomKept ==
  ASSUME TabsOK, RoomLeft, Opening' \subseteq Opening, tabs' \in Seq(Tabs), Len(tabs') <= Len(tabs)
  PROVE  RoomLeft'
<1> PICK O : O = Opening /\ O \subseteq Callers
  BY DEF Opening
<1> PICK P : P = Opening' /\ P \subseteq O
  OBVIOUS
<1>1. /\ IsFiniteSet(O) /\ Cardinality(O) \in Nat /\ Cardinality(P) \in Nat
      /\ Cardinality(Callers) \in Nat
  BY OpeningSize
<1>2. Cardinality(P) <= Cardinality(O)
  BY <1>1, FS_Subset
<1>3. Len(tabs) \in Nat /\ Len(tabs') \in Nat /\ MaxTabs \in Nat
  BY TabShellAssumption DEF TabsOK, TabListOK
<1>4. Len(tabs) + Cardinality(O) <= MaxTabs + Cardinality(Callers) - 1
  BY DEF RoomLeft
<1>5. Len(tabs') + Cardinality(P) <= MaxTabs + Cardinality(Callers) - 1
  BY <1>1, <1>2, <1>3, <1>4
<1> QED
  BY <1>5 DEF RoomLeft

\* There was room for the thread that is told so now.
LEMMA RoomFound ==
  ASSUME TabsOK, Len(tabs) < MaxTabs, tabs' = tabs
  PROVE  RoomLeft'
<1> PICK P : P = Opening' /\ P \subseteq Callers
  BY DEF Opening
<1>1. Cardinality(P) \in Nat /\ Cardinality(P) <= Cardinality(Callers) /\ Cardinality(Callers) \in Nat
  BY OpeningSize
<1>2. Len(tabs') \in Nat /\ MaxTabs \in Nat /\ Len(tabs') < MaxTabs
  BY TabShellAssumption DEF TabsOK, TabListOK
<1>3. Len(tabs') + Cardinality(P) <= MaxTabs + Cardinality(Callers) - 1
  BY <1>1, <1>2
<1> QED
  BY <1>3 DEF RoomLeft

\* A list of at most MaxTabs tabs, put in place by a thread that opens none.
LEMMA RoomAnew ==
  ASSUME tabs' \in Seq(Tabs), Len(tabs') <= MaxTabs, NEW c \in Callers, c \notin Opening'
  PROVE  RoomLeft'
<1> PICK P : P = Opening' /\ P \subseteq Callers /\ c \notin P
  BY DEF Opening
<1>1. /\ Cardinality(P) \in Nat /\ Cardinality(Callers) \in Nat
      /\ Cardinality(P) <= Cardinality(Callers) - 1
  BY OpeningSize
<1>2. Len(tabs') \in Nat /\ MaxTabs \in Nat
  BY TabShellAssumption
<1>3. Len(tabs') + Cardinality(P) <= MaxTabs + Cardinality(Callers) - 1
  BY <1>1, <1>2
<1> QED
  BY <1>3 DEF RoomLeft

LEMMA OpeningKept ==
  ASSUME TypeInv, NEW c \in Threads, NEW q, Leaves(c, q),
         c \in Opening \/ q = <<>> \/ Head(q).do \notin {"open", "append"}
  PROVE  Opening' \subseteq Opening
<1>1. todo'[c] = q /\ \A d \in Threads \ {c} : todo'[d] = todo[d]
  BY TodoSet DEF TypeInv, Leaves
<1>2. ASSUME NEW d \in Callers, (At(d, "open") \/ At(d, "append"))' PROVE d \in Opening
  <2>1. CASE d = c
    BY <1>1, <1>2, <2>1 DEF At
  <2>2. CASE d # c
    BY <1>1, <1>2, <2>2 DEF At, Opening, Threads
  <2> QED
    BY <2>1, <2>2
<1> QED
  BY <1>2 DEF Opening

\* What most steps of a thread leave.
LEMMA QuietKept ==
  ASSUME TypeInv, TypeInv', AgentMarked, RoomLeft, SavesApart,
         NEW c \in Threads, NEW q, Leaves(c, q), Quiet(q), agentActive => agentActive',
         Len(tabs') <= Len(tabs), UNCHANGED <<sessionFile, tmpFile, savesOverlap>>
  PROVE  AgentMarked' /\ RoomLeft' /\ SavesApart'
<1>1. AgentMarked'
  BY MarkedKept DEF Quiet
<1>2. SavesApart'
  BY SavesKept DEF Quiet
<1>3. Opening' \subseteq Opening
  BY OpeningKept DEF Quiet
<1>4. TabsOK /\ tabs' \in Seq(Tabs)
  BY DEF TypeInv, TabsOK, TabListOK
<1>5. RoomLeft'
  BY <1>3, <1>4, RoomKept
<1> QED
  BY <1>1, <1>2, <1>5

\* The steps of no thread.
LEMMA OthersKeep ==
  ASSUME TypeInv, AgentMarked, RoomLeft, SavesApart, TypeInv', agentActive' = agentActive,
         UNCHANGED <<todo, tabs, sessionFile, tmpFile, savesOverlap>>
  PROVE  AgentMarked' /\ RoomLeft' /\ SavesApart'
<1>1. AgentMarked'
  BY DEF AgentMarked
<1>2. RoomLeft'
  BY DEF RoomLeft, Opening, At
<1>3. SavesApart'
  BY DEF SavesApart, Saving, At
<1> QED
  BY <1>1, <1>2, <1>3

\* A bridge method, called by a page or as the tool of an agent.
LEMMA EffectKept ==
  ASSUME TypeInv, AgentMarked, RoomLeft, SavesApart, NEW c \in Callers, NEW agent \in BOOLEAN,
         agent => agentActive, Effect(c, agent), UNCHANGED <<navVars, sessionVars, savesOverlap>>
  PROVE  TypeInv' /\ AgentMarked' /\ RoomLeft' /\ SavesApart'
<1>1. TypeInv'
  BY EffectType
<1>2. PICK q : Starts(q, agent) /\ todo' = [todo EXCEPT ![c] = q]
  BY DEF Effect
<1>3. Leaves(c, q) /\ c \in Threads
  BY <1>2, StartsTodo DEF Leaves, Threads
<1>4. UNCHANGED <<sessionFile, tmpFile, savesOverlap>> /\ agentActive' = agentActive
  BY DEF sessionVars, Effect
<1>5. tabs \in Seq(Tabs) /\ tabs' \in Seq(Tabs) /\ TabsOK
  BY <1>1 DEF TypeInv, TabsOK, TabListOK
<1>6. CASE Quiet(q)
  <2>1. AgentMarked'
    BY <1>3, <1>4, <1>6, MarkedKept DEF Quiet
  <2>2. SavesApart'
    BY <1>3, <1>4, <1>6, SavesKept DEF Quiet
  <2>3. Len(tabs') <= Len(tabs) => RoomLeft'
    BY <1>3, <1>5, <1>6, OpeningKept, RoomKept DEF Quiet
  <2>4. ASSUME Len(tabs') <= MaxTabs PROVE RoomLeft'
    <3>1. todo'[c] = q
      BY <1>3, TodoSet DEF TypeInv, Leaves
    <3>2. c \notin Opening'
      BY <1>6, <3>1 DEF Opening, At, Quiet
    <3> QED
      BY <1>5, <2>4, <3>2, RoomAnew
  <2> QED
    BY <1>1, <2>1, <2>2, <2>3, <2>4 DEF Effect
<1>7. CASE \E x \in OpenSteps : q = <<x>> /\ x.agent = agent /\ Len(tabs) < MaxTabs /\ tabs' = tabs
  <2>1. PICK x \in OpenSteps : q = <<x>> /\ x.agent = agent /\ Len(tabs) < MaxTabs /\ tabs' = tabs
    BY <1>7
  <2>2. Head(q) = x /\ x.do = "open"
    BY <2>1, Single DEF OpenSteps
  <2>3. AgentMarked'
    BY <1>3, <1>4, <2>1, <2>2, MarkedKept
  <2>4. SavesApart'
    BY <1>3, <1>4, <2>2, SavesKept
  <2>5. RoomLeft'
    BY <1>5, <2>1, RoomFound
  <2> QED
    BY <1>1, <2>3, <2>4, <2>5
<1>8. CASE \E x \in FetchSteps : q = <<x>>
  <2>1. PICK x \in FetchSteps : q = <<x>>
    BY <1>8
  <2>2. Head(q) = x /\ x.do = "fetch"
    BY <2>1, Single DEF FetchSteps
  <2>3. Quiet(q)
    BY <2>2 DEF Quiet
  <2> QED
    BY <1>6, <2>3
<1>9. q \in Seq(PlainSteps) => Quiet(q)
  BY PlainQuiet
<1> QED
  BY <1>2, <1>6, <1>7, <1>8, <1>9 DEF Starts
-----------------------------------------------------------------------------
(* Every step keeps the invariant.                                         *)

LEMMA CallKept ==
  ASSUME IInv, NEW c \in Callers, Call(c)
  PROVE  IInv'
<1>1. Effect(c, FALSE)
  BY CallType DEF IInv
<1>2. UNCHANGED <<navVars, sessionVars, savesOverlap, agentStrayed>>
  BY DEF Call
<1>3. TypeInv' /\ AgentMarked' /\ RoomLeft' /\ SavesApart'
  BY <1>1, <1>2, EffectKept DEF IInv
<1> QED
  BY <1>2, <1>3 DEF IInv, AgentConfined

LEMMA HandleRequestKept ==
  ASSUME IInv, NEW c \in Callers, HandleRequest(c)
  PROVE  IInv'
<1>1. TypeInv'
  BY HandleRequestType DEF IInv
<1>2. PICK q : Leaves(c, q) /\ Head(q).do = "tool"
  BY HandleRequestType DEF IInv
<1>3. /\ agentActive' = TRUE /\ tabs' = tabs
      /\ UNCHANGED <<sessionFile, tmpFile, savesOverlap, agentStrayed>>
  BY DEF HandleRequest, sessionVars
<1>4. c \in Threads
  BY DEF Threads
<1>5. AgentMarked'
  BY <1>2, <1>3, <1>4, MarkedKept DEF IInv
<1>6. SavesApart'
  BY <1>2, <1>3, <1>4, SavesKept DEF IInv
<1>7. Opening' \subseteq Opening
  BY <1>2, <1>4, OpeningKept DEF IInv
<1>8. TabsOK /\ tabs' \in Seq(Tabs) /\ Len(tabs') <= Len(tabs)
  BY <1>3 DEF IInv, TypeInv, TabsOK, TabListOK
<1>9. RoomLeft'
  BY <1>7, <1>8, RoomKept DEF IInv
<1> QED
  BY <1>1, <1>3, <1>5, <1>6, <1>9 DEF IInv, AgentConfined

\* What is left to do after a step: plain steps, or a list that is none of the
\* invariant's concern.
LEMMA StepKept ==
  ASSUME IInv, TypeInv', NEW c \in Threads, NEW q, Leaves(c, q), Quiet(q),
         tabs' \in Seq(Tabs), Len(tabs') = Len(tabs),
         UNCHANGED <<sessionFile, tmpFile, savesOverlap, agentActive>>, AgentConfined'
  PROVE  IInv'
<1>1. Len(tabs') <= Len(tabs)
  BY DEF IInv, TypeInv, TabsOK, TabListOK
<1> QED
  BY <1>1, QuietKept DEF IInv

LEMMA RunToolKept ==
  ASSUME IInv, NEW c \in Threads, RunTool(c)
  PROVE  IInv'
<1>1. agentActive
  BY DEF IInv, AgentMarked, RunTool, At
<1>2. c \in Callers /\ Effect(c, TRUE)
  BY <1>1, RunToolType DEF IInv
<1>3. UNCHANGED <<navVars, sessionVars, savesOverlap, agentStrayed>>
  BY DEF RunTool
<1>4. TypeInv' /\ AgentMarked' /\ RoomLeft' /\ SavesApart'
  BY <1>1, <1>2, <1>3, EffectKept DEF IInv
<1> QED
  BY <1>3, <1>4 DEF IInv, AgentConfined

LEMMA OpenTabKept ==
  ASSUME IInv, NEW c \in Threads, OpenTab(c)
  PROVE  IInv'
<1>1. TypeInv'
  BY OpenTabType DEF IInv
<1>2. PICK q : Leaves(c, q) /\ q # <<>> /\ Head(q).do \in {"append", "eval"}
  BY OpenTabType DEF IInv
<1>3. UNCHANGED <<tabs, sessionFile, tmpFile, savesOverlap, agentStrayed, agentActive>>
  BY DEF OpenTab, sessionVars
<1>4. c \in Opening
  <2>1. At(c, "open") /\ Head(todo[c]).do = "open" /\ todo[c] # <<>> /\ TodoOK(c, todo[c])
    BY DEF OpenTab, At, IInv, TypeInv, TodosOK
  <2> QED
    BY <2>1, TodoHead DEF Opening
<1>5. AgentMarked'
  BY <1>2, <1>3, MarkedKept DEF IInv
<1>6. SavesApart'
  BY <1>2, <1>3, SavesKept DEF IInv
<1>7. Opening' \subseteq Opening
  BY <1>2, <1>4, OpeningKept DEF IInv
<1>8. TabsOK /\ tabs' \in Seq(Tabs) /\ Len(tabs') <= Len(tabs)
  BY <1>3 DEF IInv, TypeInv, TabsOK, TabListOK
<1>9. RoomLeft'
  BY <1>7, <1>8, RoomKept DEF IInv
<1> QED
  BY <1>1, <1>3, <1>5, <1>6, <1>9 DEF IInv, AgentConfined

\* One tab more, and one thread less that opens one.
LEMMA AppendTabKept ==
  ASSUME IInv, NEW c \in Threads, AppendTab(c)
  PROVE  IInv'
<1>1. TypeInv' /\ Len(tabs') = Len(tabs) + 1
  BY AppendTabType DEF IInv
<1>2. PICK q \in Seq(PlainSteps) : Leaves(c, q)
  BY AppendTabType DEF IInv
<1>3. UNCHANGED <<sessionFile, tmpFile, savesOverlap, agentStrayed, agentActive>>
  BY DEF AppendTab, sessionVars
<1>4. Quiet(q)
  BY PlainQuiet
<1>5. AgentMarked'
  BY <1>2, <1>3, <1>4, MarkedKept DEF IInv, Quiet
<1>6. SavesApart'
  BY <1>2, <1>3, <1>4, SavesKept DEF IInv, Quiet
<1>7. c \in Opening
  <2>1. At(c, "append") /\ Head(todo[c]).do = "append" /\ todo[c] # <<>> /\ TodoOK(c, todo[c])
    BY DEF AppendTab, At, IInv, TypeInv, TodosOK
  <2> QED
    BY <2>1, TodoHead DEF Opening
<1>8. Opening' \subseteq Opening \ {c}
  <2>1. Opening' \subseteq Opening
    BY <1>2, <1>7, OpeningKept DEF IInv
  <2>2. todo'[c] = q
    BY <1>2, TodoSet DEF IInv, TypeInv, Leaves
  <2>3. c \notin Opening'
    BY <1>4, <2>2 DEF Opening, At, Quiet
  <2> QED
    BY <2>1, <2>3
<1> PICK O : O = Opening /\ O \subseteq Callers
  BY DEF Opening
<1> PICK P : P = Opening' /\ P \subseteq O \ {c}
  BY <1>8
<1>9. /\ Cardinality(O) \in Nat /\ Cardinality(P) \in Nat /\ Cardinality(Callers) \in Nat
      /\ Cardinality(P) <= Cardinality(O) - 1
  <2>1. IsFiniteSet(O) /\ Cardinality(O) \in Nat /\ Cardinality(Callers) \in Nat
    BY OpeningSize
  <2>2. IsFiniteSet(O \ {c}) /\ Cardinality(O \ {c}) = Cardinality(O) - 1
    BY <1>7, <2>1, FS_RemoveElement
  <2>3. Cardinality(P) <= Cardinality(O \ {c}) /\ IsFiniteSet(P)
    BY <2>2, FS_Subset
  <2>4. Cardinality(P) \in Nat
    BY <2>3, FS_CardinalityType
  <2> QED
    BY <2>1, <2>2, <2>3, <2>4
<1>10. Len(tabs) \in Nat /\ MaxTabs \in Nat
  BY TabShellAssumption DEF IInv, TypeInv, TabsOK, TabListOK
<1>11. Len(tabs) + Cardinality(O) <= MaxTabs + Cardinality(Callers) - 1
  BY DEF IInv, RoomLeft
<1>12. Len(tabs') + Cardinality(P) <= MaxTabs + Cardinality(Callers) - 1
  <2>1. \A l, o, p, m, k \in Nat : p <= o - 1 /\ l + o <= m + k - 1 => (l + 1) + p <= m + k - 1
    OBVIOUS
  <2>2. (Len(tabs) + 1) + Cardinality(P) <= MaxTabs + Cardinality(Callers) - 1
    BY <1>9, <1>10, <1>11, <2>1, Zenon
  <2> QED
    BY <1>1, <2>2, Zenon
<1>13. RoomLeft'
  BY <1>12 DEF RoomLeft
<1> QED
  BY <1>1, <1>3, <1>5, <1>6, <1>13 DEF IInv, AgentConfined

LEMMA UpdateCurrentKept ==
  ASSUME IInv, NEW c \in Threads, UpdateCurrent(c)
  PROVE  IInv'
<1>1. TypeInv' /\ Len(tabs') = Len(tabs)
  BY UpdateCurrentType DEF IInv
<1>2. PICK q \in Seq(PlainSteps) : Leaves(c, q)
  BY UpdateCurrentType DEF IInv
<1>3. UNCHANGED <<sessionFile, tmpFile, savesOverlap, agentActive>> /\ AgentConfined'
  BY DEF UpdateCurrent, sessionVars, IInv, AgentConfined
<1>4. tabs' \in Seq(Tabs)
  BY <1>1 DEF TypeInv, TabsOK, TabListOK
<1> QED
  BY <1>1, <1>2, <1>3, <1>4, PlainQuiet, StepKept

LEMMA PersistSessionKept ==
  ASSUME IInv, NEW c \in Threads, PersistSession(c)
  PROVE  IInv'
<1>1. TypeInv'
  BY PersistSessionType DEF IInv
<1>2. PICK q : Leaves(c, q) /\ (q \in Seq(PlainSteps) \/ (q # <<>> /\ Head(q).do = "save"))
  BY PersistSessionType DEF IInv
<1>3. /\ UNCHANGED <<sessionFile, tmpFile, savesOverlap, agentActive>> /\ AgentConfined'
      /\ tabs' = tabs
  BY DEF PersistSession, sessionVars, IInv, AgentConfined
<1>4. Quiet(q)
  BY <1>2, PlainQuiet DEF Quiet
<1>5. tabs' \in Seq(Tabs)
  BY <1>1 DEF TypeInv, TabsOK, TabListOK
<1> QED
  BY <1>1, <1>2, <1>3, <1>4, <1>5, StepKept

\* What a save leaves of the rest of the invariant.
LEMMA SaveKeepsOthers ==
  ASSUME IInv, TypeInv', NEW c \in Threads, NEW q, Leaves(c, q), UNCHANGED <<tabs, agentActive>>,
         q = <<>> \/ Head(q).do \notin {"tool", "open", "append"}
  PROVE  AgentMarked' /\ RoomLeft'
<1>1. AgentMarked'
  BY MarkedKept DEF IInv
<1>2. Opening' \subseteq Opening
  BY OpeningKept DEF IInv
<1>3. TabsOK /\ tabs' \in Seq(Tabs) /\ Len(tabs') <= Len(tabs)
  BY DEF IInv, TypeInv, TabsOK, TabListOK
<1>4. RoomLeft'
  BY <1>2, <1>3, RoomKept DEF IInv
<1> QED
  BY <1>1, <1>4

LEMMA SaveSessionKept ==
  ASSUME IInv, NEW c \in Threads, SaveSession(c)
  PROVE  IInv'
<1>1. UNCHANGED <<navVars, tabs, current, recent, agentActive, sourceReturn>> /\ AgentConfined'
  BY DEF SaveSession, IInv, AgentConfined
<1>2. CASE /\ At(c, "save") /\ SaveOpen(c)
           /\ Then(c, <<[Now(c) EXCEPT !.do = "write"], [do |-> "replace"]>>)
           /\ savesOverlap' = (savesOverlap \/ \E d \in Threads \ {c} : Saving(d))
  <2>1. TypeInv'
    BY <1>1, <1>2, SaveOpenType DEF IInv
  <2>2. PICK q : Leaves(c, q) /\ q # <<>> /\ Head(q).do = "write"
    BY <1>1, <1>2, SaveOpenType DEF IInv
  <2>3. AgentMarked' /\ RoomLeft'
    BY <1>1, <2>1, <2>2, SaveKeepsOthers
  <2>4. SavesApart'
    <3> SUFFICES ASSUME ~savesOverlap'
                 PROVE  /\ \A a, d \in Threads : Saving(a)' /\ Saving(d)' => a = d
                        /\ \A d \in Threads : At(d, "write")' => tmpFile' = NoSession
                        /\ Garbled \notin {sessionFile', tmpFile'}
      BY DEF SavesApart
    <3>1. ~savesOverlap /\ \A d \in Threads \ {c} : ~Saving(d)
      BY <1>2
    <3>2. \A d \in Threads \ {c} : todo'[d] = todo[d]
      BY <2>2, TodoSet DEF IInv, TypeInv, Leaves
    <3>3. \A d \in Threads \ {c} : ~Saving(d)'
      BY <3>1, <3>2 DEF Saving
    <3>4. tmpFile' = NoSession /\ sessionFile' = sessionFile
      BY <1>2 DEF SaveOpen
    <3> QED
      BY <3>1, <3>3, <3>4, SavedFilesAssumption DEF IInv, SavesApart
  <2> QED
    BY <1>1, <2>1, <2>3, <2>4 DEF IInv
<1>3. CASE At(c, "write") /\ SaveWrite(c, Now(c).snap) /\ Done(c) /\ UNCHANGED savesOverlap
  <2>1. TypeInv' /\ Sanitized(Now(c).snap) \in Usable \cup {NoSession}
    BY <1>1, <1>3, SaveWriteType DEF IInv
  <2>2. PICK q : Leaves(c, q) /\ q # <<>> /\ Head(q).do = "replace"
    BY <1>1, <1>3, SaveWriteType DEF IInv
  <2>3. AgentMarked' /\ RoomLeft'
    BY <1>1, <2>1, <2>2, SaveKeepsOthers
  <2>4. SavesApart'
    <3> SUFFICES ASSUME ~savesOverlap'
                 PROVE  /\ \A a, d \in Threads : Saving(a)' /\ Saving(d)' => a = d
                        /\ \A d \in Threads : At(d, "write")' => tmpFile' = NoSession
                        /\ Garbled \notin {sessionFile', tmpFile'}
      BY DEF SavesApart
    <3>1. /\ ~savesOverlap /\ \A a, d \in Threads : Saving(a) /\ Saving(d) => a = d
          /\ tmpFile = NoSession /\ Garbled # sessionFile
      BY <1>3 DEF IInv, SavesApart
    <3>2. todo'[c] = q /\ \A d \in Threads \ {c} : todo'[d] = todo[d]
      BY <2>2, TodoSet DEF IInv, TypeInv, Leaves
    <3>3. Saving(c)
      BY <1>3 DEF At, Saving
    <3>4. \A d \in Threads \ {c} : ~Saving(d)'
      BY <3>1, <3>2, <3>3 DEF Saving
    <3>5. \A d \in Threads \ {c} : ~At(d, "write")'
      BY <3>4 DEF At, Saving
    <3>6. ~At(c, "write")'
      BY <2>2, <3>2 DEF At
    <3>7. tmpFile' = Sanitized(Now(c).snap) /\ sessionFile' = sessionFile
      BY <1>3, <3>1 DEF SaveWrite
    <3>8. tmpFile' # Garbled
      BY <2>1, <3>7, SavedFilesAssumption DEF Usable, GoodSessions
    <3> QED
      BY <3>1, <3>4, <3>5, <3>6, <3>7, <3>8
  <2> QED
    BY <1>1, <2>1, <2>3, <2>4 DEF IInv
<1>4. CASE At(c, "replace") /\ SaveReplace(c) /\ Done(c) /\ UNCHANGED savesOverlap
  <2>1. TypeInv'
    BY <1>1, <1>4, SaveReplaceType DEF IInv
  <2>2. PICK q \in Seq(PlainSteps) : Leaves(c, q)
    BY <1>1, <1>4, SaveReplaceType DEF IInv
  <2>3. Quiet(q)
    BY PlainQuiet
  <2>4. AgentMarked' /\ RoomLeft'
    BY <1>1, <2>1, <2>2, <2>3, SaveKeepsOthers DEF Quiet
  <2>5. SavesApart'
    <3> SUFFICES ASSUME ~savesOverlap'
                 PROVE  /\ \A a, d \in Threads : Saving(a)' /\ Saving(d)' => a = d
                        /\ \A d \in Threads : At(d, "write")' => tmpFile' = NoSession
                        /\ Garbled \notin {sessionFile', tmpFile'}
      BY DEF SavesApart
    <3>1. /\ ~savesOverlap /\ \A a, d \in Threads : Saving(a) /\ Saving(d) => a = d
          /\ Garbled \notin {sessionFile, tmpFile}
      BY <1>4 DEF IInv, SavesApart
    <3>2. todo'[c] = q /\ \A d \in Threads \ {c} : todo'[d] = todo[d]
      BY <2>2, TodoSet DEF IInv, TypeInv, Leaves
    <3>3. Saving(c)
      BY <1>4 DEF At, Saving
    <3>4. \A d \in Threads : ~Saving(d)'
      <4>1. ~Saving(c)'
        BY <2>3, <3>2 DEF Saving, Quiet
      <4>2. \A d \in Threads \ {c} : ~Saving(d)'
        BY <3>1, <3>2, <3>3 DEF Saving
      <4> QED
        BY <4>1, <4>2
    <3>5. \A d \in Threads : ~At(d, "write")'
      BY <3>4 DEF At, Saving
    <3>6. sessionFile' \in {sessionFile, tmpFile} /\ tmpFile' \in {NoSession, tmpFile}
      BY <1>4 DEF SaveReplace, sessionVars
    <3> QED
      BY <3>1, <3>4, <3>5, <3>6, SavedFilesAssumption
  <2> QED
    BY <1>1, <2>1, <2>4, <2>5 DEF IInv
<1> QED
  BY <1>2, <1>3, <1>4 DEF SaveSession
LEMMA PostLoadKept ==
  ASSUME IInv, NEW c \in Threads, PostLoad(c)
  PROVE  IInv'
<1>1. TypeInv' /\ (Now(c).agent => Now(c).url \in AgentHosts)
  BY PostLoadType DEF IInv
<1>2. PICK q \in Seq(PlainSteps) : Leaves(c, q)
  BY PostLoadType DEF IInv
<1>3. UNCHANGED <<sessionFile, tmpFile, savesOverlap, agentActive>> /\ tabs' = tabs
  BY DEF PostLoad, sessionVars
<1>4. AgentConfined'
  BY <1>1 DEF PostLoad, IInv, AgentConfined
<1>5. tabs' \in Seq(Tabs)
  BY <1>1 DEF TypeInv, TabsOK, TabListOK
<1> QED
  BY <1>1, <1>2, <1>3, <1>4, <1>5, PlainQuiet, StepKept

LEMMA PostEvalKept ==
  ASSUME IInv, NEW c \in Threads, PostEval(c)
  PROVE  IInv'
<1>1. TypeInv'
  BY PostEvalType DEF IInv
<1>2. PICK q \in Seq(PlainSteps) : Leaves(c, q)
  BY PostEvalType DEF IInv
<1>3. /\ UNCHANGED <<sessionFile, tmpFile, savesOverlap, agentActive>> /\ tabs' = tabs
      /\ AgentConfined'
  BY DEF PostEval, sessionVars, IInv, AgentConfined
<1>4. tabs' \in Seq(Tabs)
  BY <1>1 DEF TypeInv, TabsOK, TabListOK
<1> QED
  BY <1>1, <1>2, <1>3, <1>4, PlainQuiet, StepKept

LEMMA FetchSourceKept ==
  ASSUME IInv, NEW c \in Threads, FetchSource(c)
  PROVE  IInv'
<1>1. TypeInv'
  BY FetchSourceType DEF IInv
<1>2. PICK q \in Seq(PlainSteps) : Leaves(c, q)
  BY FetchSourceType DEF IInv
<1>3. /\ UNCHANGED <<sessionFile, tmpFile, savesOverlap, agentActive>> /\ tabs' = tabs
      /\ AgentConfined'
  BY DEF FetchSource, sessionVars, IInv, AgentConfined
<1>4. tabs' \in Seq(Tabs)
  BY <1>1 DEF TypeInv, TabsOK, TabListOK
<1> QED
  BY <1>1, <1>2, <1>3, <1>4, PlainQuiet, StepKept

LEMMA OnLoadedKept ==
  ASSUME IInv, NEW c \in Loaders, OnLoaded(c)
  PROVE  IInv'
<1>1. TypeInv'
  BY OnLoadedType DEF IInv
<1>2. PICK q \in Seq(PlainSteps) : Leaves(c, q)
  BY OnLoadedType DEF IInv
<1>3. /\ UNCHANGED <<sessionFile, tmpFile, savesOverlap, agentActive>> /\ tabs' = tabs
      /\ AgentConfined'
  BY DEF OnLoaded, sessionVars, IInv, AgentConfined
<1>4. tabs' \in Seq(Tabs) /\ c \in Threads
  BY <1>1 DEF TypeInv, TabsOK, TabListOK, Threads
<1> QED
  BY <1>1, <1>2, <1>3, <1>4, PlainQuiet, StepKept

LEMMA ThreadStepKept ==
  ASSUME IInv, NEW c \in Threads, ThreadStep(c)
  PROVE  IInv'
BY RunToolKept, OpenTabKept, AppendTabKept, UpdateCurrentKept, PersistSessionKept,
   SaveSessionKept, PostLoadKept, PostEvalKept, FetchSourceKept DEF ThreadStep

\* No agent's tool is on its way when the session is forgotten.
LEMMA AgentExpiresKept ==
  ASSUME IInv, AgentExpires
  PROVE  IInv'
<1>1. /\ agentActive' = FALSE
      /\ UNCHANGED <<navVars, sessionVars, todo, tabs, current, recent, sourceReturn,
                     savesOverlap, agentStrayed>>
  BY DEF AgentExpires
<1>2. TypeInv'
  <2>1. NavInv' /\ FilesOK' /\ tmpThere' \in BOOLEAN /\ tmpOpen' \subseteq Savers
    BY <1>1, NavSame, FilesSame DEF IInv
  <2>2. TabsOK'
    BY <1>1 DEF IInv, TypeInv, TabsOK
  <2>3. TodosOK'
    BY <1>1 DEF IInv, TypeInv, TodosOK
  <2> QED
    BY <2>1, <2>2, <2>3 DEF TypeInv
<1>3. AgentMarked'
  <2> SUFFICES ASSUME NEW d \in Threads, todo[d] # <<>>
               PROVE  Head(todo[d]).do \notin {"tool", "open"}
    BY <1>1 DEF AgentMarked
  <2>1. CASE d \in Callers
    BY <2>1 DEF AgentExpires
  <2>2. CASE d \notin Callers
    <3>1. TodoOK(d, todo[d])
      BY DEF IInv, TypeInv, TodosOK
    <3> QED
      BY <2>2, <3>1, TodoHead
  <2> QED
    BY <2>1, <2>2
<1>4. RoomLeft' /\ SavesApart'
  BY <1>1 DEF IInv, RoomLeft, Opening, SavesApart, Saving, At, sessionVars
<1> QED
  BY <1>1, <1>2, <1>3, <1>4 DEF IInv, AgentConfined

LEMMA RecentExpiresKept ==
  ASSUME IInv, RecentExpires
  PROVE  IInv'
<1>1. /\ recent' \subseteq recent
      /\ UNCHANGED <<navVars, sessionVars, todo, tabs, current, agentActive, sourceReturn,
                     savesOverlap, agentStrayed>>
  BY DEF RecentExpires
<1>2. TypeInv'
  <2>1. NavInv' /\ FilesOK' /\ tmpThere' \in BOOLEAN /\ tmpOpen' \subseteq Savers
    BY <1>1, NavSame, FilesSame DEF IInv
  <2>2. TabsOK'
    BY <1>1 DEF IInv, TypeInv, TabsOK
  <2>3. TodosOK'
    BY <1>1 DEF IInv, TypeInv, TodosOK
  <2> QED
    BY <2>1, <2>2, <2>3 DEF TypeInv
<1>3. AgentMarked' /\ RoomLeft' /\ SavesApart'
  BY <1>1, <1>2, OthersKeep DEF IInv, sessionVars
<1> QED
  BY <1>1, <1>2, <1>3 DEF IInv, AgentConfined

\* The window's own steps and the queue's change what is shown.
LEMMA WindowKeeps ==
  ASSUME IInv, NavInv',
         UNCHANGED <<sessionVars, todo, tabs, current, recent, agentActive, sourceReturn,
                     savesOverlap, agentStrayed>>
  PROVE  IInv'
<1>1. TypeInv'
  <2>1. FilesOK' /\ tmpThere' \in BOOLEAN /\ tmpOpen' \subseteq Savers
    BY FilesSame DEF IInv
  <2>2. TabsOK'
    BY DEF IInv, TypeInv, TabsOK
  <2>3. TodosOK'
    BY DEF IInv, TypeInv, TodosOK
  <2> QED
    BY <2>1, <2>2, <2>3 DEF TypeInv
<1>2. AgentMarked' /\ RoomLeft' /\ SavesApart'
  BY <1>1, OthersKeep DEF IInv, sessionVars
<1> QED
  BY <1>1, <1>2 DEF IInv, AgentConfined

LEMMA BrowseKept ==
  ASSUME IInv, NEW url \in Urls, Browse(url)
  PROVE  IInv'
<1>1. NavInv'
  <2>1. /\ loads \in 0..LoadBound /\ loads < LoadBound /\ LoadBound \in Nat
        /\ loads' = loads + 1 /\ page' = url /\ url \in Pages
    BY NavQueueAssumption DEF Browse, IInv, TypeInv, NavInv, NavTypeOK, Urls
  <2>2. loads' \in 0..LoadBound /\ page' \in Pages
    BY <2>1
  <2>3. UNCHANGED <<queue, navThread, navStop, nav, working, late, watchdog>>
    BY DEF Browse
  <2> QED
    BY <2>2, <2>3 DEF IInv, TypeInv, NavInv, NavTypeOK, BusyWithOp
<1>2. UNCHANGED <<sessionVars, todo, tabs, current, recent, agentActive, sourceReturn,
                  savesOverlap, agentStrayed>>
  BY DEF Browse
<1> QED
  BY <1>1, <1>2, WindowKeeps

LEMMA NavKept ==
  ASSUME IInv, Nav
  PROVE  IInv'
<1>1. NavInv'
  BY NavType DEF Nav, IInv, TypeInv
<1>2. UNCHANGED <<sessionVars, todo, tabs, current, recent, agentActive, sourceReturn,
                  savesOverlap, agentStrayed>>
  BY DEF Nav
<1> QED
  BY <1>1, <1>2, WindowKeeps

-----------------------------------------------------------------------------
(* A start of the shell.                                                   *)

LEMMA FirstTabListOK ==
  ASSUME sessionFile \in GoodSessions \cup {NoSession, Garbled}
  PROVE  FirstTabList \in Usable /\ Len(FirstTabList.tabs) <= MaxTabs
<1>1. CASE SavedSession(FALSE) # NoSession
  BY <1>1, SavedSessionOK DEF FirstTabList
<1>2. CASE SavedSession(FALSE) = NoSession
  <2> PICK ts : ts = <<Tab(Start)>>
    OBVIOUS
  <2>1. Tab(Start) \in Tabs
    BY TabShellAssumption DEF Tab, Tabs, Urls
  <2>2. ts \in Seq(Tabs) /\ Len(ts) = 1
    BY <2>1
  <2>3. PinnedInFront(ts)
    BY <2>2 DEF PinnedInFront
  <2>4. FirstTabList = [tabs |-> ts, current |-> 1]
    BY <1>2 DEF FirstTabList
  <2>5. FirstTabList \in Sessions /\ FirstTabList.tabs = ts /\ FirstTabList.current = 1
    BY <2>2, <2>4 DEF Sessions
  <2>6. FirstTabList \in Usable
    BY <2>2, <2>3, <2>5 DEF Usable, GoodSessions
  <2>7. 1 <= MaxTabs
    BY TabShellAssumption
  <2> QED
    BY <2>2, <2>5, <2>6, <2>7
<1> QED
  BY <1>1, <1>2

\* The tabs and the page of a shell that starts from a session.
LEMMA StartsUsable ==
  ASSUME NEW s \in Usable
  PROVE  TabListOK(s.tabs) /\ s.current \in DOMAIN s.tabs /\ s.tabs[s.current].url \in Pages
<1>1. TabListOK(s.tabs) /\ s.current \in DOMAIN s.tabs
  BY DEF Usable, GoodSessions, Sessions, TabListOK
<1> QED
  BY <1>1, TabUrl DEF Urls

LEMMA NothingOpening == ASSUME todo = [c \in Threads |-> <<>>] PROVE Cardinality(Opening) = 0
<1>1. Opening = {}
  BY DEF Opening, At, Threads
<1> QED
  BY <1>1, FS_EmptySet

LEMMA InitIInv == Init => IInv
<1> SUFFICES ASSUME Init PROVE IInv
  OBVIOUS
<1>1. PICK file \in SavedFiles : SessionInit(file)
  BY DEF Init
<1>2. file \in GoodSessions \cup {NoSession} /\ Garbled \notin {file, NoSession}
  BY SavedFilesAssumption DEF GoodSessions
<1>3. FilesOK /\ tmpThere \in BOOLEAN /\ tmpOpen \subseteq Savers /\ Garbled \notin {sessionFile, tmpFile}
  BY <1>1, <1>2 DEF SessionInit, FilesOK
<1> PICK s : s = FirstTabList
  OBVIOUS
<1>4. s \in Usable /\ Len(s.tabs) <= MaxTabs
  BY <1>3, FirstTabListOK DEF FilesOK
<1>5. /\ tabs = s.tabs /\ current = s.current /\ page = tabs[current].url /\ loads = 1
      /\ todo = [c \in Threads |-> <<>>] /\ agentActive = FALSE /\ recent = {}
      /\ sourceReturn = NoUrl /\ agentStrayed = FALSE
  BY DEF Init
<1>6. TabListOK(tabs) /\ current \in DOMAIN tabs /\ page \in Pages /\ Len(tabs) <= MaxTabs
  BY <1>4, <1>5, StartsUsable
<1>7. TabsOK
  BY <1>5, <1>6 DEF TabsOK
<1>8. NavInv
  <2>1. 1 \in 0..LoadBound
    BY NavQueueAssumption, TabShellAssumption
  <2>2. /\ queue = <<>> /\ navThread = NoThread /\ navStop = FALSE
        /\ nav = [t \in NavThreads |-> "none"] /\ working = [t \in NavThreads |-> NoOp]
        /\ late = {} /\ watchdog = "idle"
    BY DEF Init, NavInit
  <2>3. page \in Pages /\ loads \in 0..LoadBound
    BY <1>5, <1>6, <2>1
  <2>4. queue \in Seq(WindowOps) /\ late \subseteq WindowOps
    BY <2>2
  <2>5. /\ nav \in [NavThreads -> {"none", "get", "busy"}]
        /\ \A t \in NavThreads : nav[t] # "busy"
    BY <2>2
  <2>6. working \in [NavThreads -> WindowOps \cup {NoOp}]
    BY <2>2
  <2>7. NavTypeOK
    BY <2>2, <2>3, <2>4, <2>5, <2>6 DEF NavTypeOK
  <2>8. BusyWithOp
    BY <2>5 DEF BusyWithOp
  <2> QED
    BY <2>7, <2>8 DEF NavInv
<1>9. TodosOK
  <2>1. <<>> \in Seq(PlainSteps)
    OBVIOUS
  <2> QED
    BY <1>5, <2>1, PlainTodo DEF TodosOK
<1>10. AgentMarked /\ AgentConfined
  BY <1>5 DEF AgentMarked, AgentConfined
<1>11. RoomLeft
  <2>1. Cardinality(Opening) = 0
    BY <1>5, NothingOpening
  <2>2. Cardinality(Callers) \in Nat \ {0}
    BY OpeningSize
  <2>3. Len(tabs) \in Nat /\ MaxTabs \in Nat
    BY <1>6, TabShellAssumption DEF TabListOK
  <2> QED
    BY <1>6, <2>1, <2>2, <2>3 DEF RoomLeft
<1>12. SavesApart
  BY <1>3, <1>5 DEF SavesApart, Saving, At
<1> QED
  BY <1>3, <1>7, <1>8, <1>9, <1>10, <1>11, <1>12 DEF IInv, TypeInv

\* What the last process left of its files was not garbled by an end of it.
LEMMA RestartShellKept ==
  ASSUME IInv, RestartShell
  PROVE  IInv'
<1> PICK s : s = FirstTabList
  OBVIOUS
<1>1. s \in Usable /\ Len(s.tabs) <= MaxTabs
  BY FirstTabListOK DEF IInv, TypeInv, FilesOK
<1>2. /\ tabs' = s.tabs /\ current' = s.current /\ page' = tabs'[current'].url /\ loads' = 1
      /\ todo' = [c \in Threads |-> <<>>] /\ agentActive' = FALSE /\ recent' = {}
      /\ sourceReturn' = NoUrl /\ tmpOpen' = {}
      /\ UNCHANGED <<sessionFile, tmpFile, tmpThere, savesOverlap, agentStrayed>>
  BY DEF RestartShell
<1>3. TabListOK(tabs') /\ current' \in DOMAIN tabs' /\ page' \in Pages /\ Len(tabs') <= MaxTabs
  BY <1>1, <1>2, StartsUsable
<1>4. TabsOK'
  BY <1>2, <1>3 DEF TabsOK
<1>5. NavInv'
  <2>1. 1 \in 0..LoadBound
    BY NavQueueAssumption, TabShellAssumption
  <2>2. /\ queue' = <<>> /\ navThread' = NoThread /\ navStop' = FALSE
        /\ nav' = [t \in NavThreads |-> "none"] /\ working' = [t \in NavThreads |-> NoOp]
        /\ late' = {} /\ watchdog' = "idle"
    BY DEF RestartShell
  <2>3. page' \in Pages /\ loads' \in 0..LoadBound
    BY <1>2, <1>3, <2>1
  <2>4. queue' \in Seq(WindowOps) /\ late' \subseteq WindowOps
    BY <2>2
  <2>5. /\ nav' \in [NavThreads -> {"none", "get", "busy"}]
        /\ \A t \in NavThreads : nav'[t] # "busy"
    BY <2>2
  <2>6. working' \in [NavThreads -> WindowOps \cup {NoOp}]
    BY <2>2
  <2>7. NavTypeOK'
    BY <2>2, <2>3, <2>4, <2>5, <2>6 DEF NavTypeOK
  <2>8. BusyWithOp'
    BY <2>5 DEF BusyWithOp
  <2> QED
    BY <2>7, <2>8 DEF NavInv
<1>6. TodosOK'
  <2>1. <<>> \in Seq(PlainSteps)
    OBVIOUS
  <2> QED
    BY <1>2, <2>1, PlainTodo DEF TodosOK
<1>7. TypeInv'
  BY <1>2, <1>4, <1>5, <1>6 DEF IInv, TypeInv, FilesOK
<1>8. AgentMarked' /\ AgentConfined'
  BY <1>2 DEF AgentMarked, AgentConfined, IInv
<1>9. RoomLeft'
  <2>1. PICK c \in Callers : TRUE
    BY TabShellAssumption
  <2>2. c \notin Opening'
    BY <1>2 DEF Opening, At, Threads
  <2> QED
    BY <1>3, <2>2, RoomAnew DEF TabListOK
<1>10. SavesApart'
  BY <1>2 DEF SavesApart, Saving, At, IInv
<1> QED
  BY <1>7, <1>8, <1>9, <1>10 DEF IInv

LEMMA NextKeeps == IInv /\ [Next]_vars => IInv'
<1> SUFFICES ASSUME IInv, [Next]_vars PROVE IInv'
  OBVIOUS
<1>1. CASE \E c \in Callers : Call(c) \/ HandleRequest(c)
  BY <1>1, CallKept, HandleRequestKept
<1>2. CASE \E c \in Threads : ThreadStep(c)
  BY <1>2, ThreadStepKept
<1>3. CASE \E l \in Loaders : OnLoaded(l)
  BY <1>3, OnLoadedKept
<1>4. CASE AgentExpires
  BY <1>4, AgentExpiresKept
<1>5. CASE RecentExpires
  BY <1>5, RecentExpiresKept
<1>6. CASE FollowLink \/ NewWindow
  BY <1>6, BrowseKept DEF FollowLink, NewWindow
<1>7. CASE Nav
  BY <1>7, NavKept
<1>8. CASE RestartShell
  BY <1>8, RestartShellKept
<1>9. CASE UNCHANGED vars
  <2>1. NavInv'
    BY <1>9, NavSame DEF IInv, vars
  <2> QED
    BY <1>9, <2>1, WindowKeeps DEF vars, tabVars
<1> QED
  BY <1>1, <1>2, <1>3, <1>4, <1>5, <1>6, <1>7, <1>8, <1>9 DEF Next

\* The index of the current tab goes where the tab goes.
LEMMA MovedFollows ==
  ASSUME NEW ts, TabListOK(ts), NEW from \in DOMAIN ts, NEW to \in DOMAIN ts,
         NEW i \in DOMAIN ts
  PROVE  LET t == MoveTarget(ts, from, to) IN
         Moved(ts, from, t)[MovedIndex(i, from, t)] = ts[i]
<1>1. PICK n : n = PinnedCount(ts)
  OBVIOUS
<1>2. /\ Len(ts) \in Nat /\ DOMAIN ts = 1..Len(ts) /\ ts \in Seq(Tabs)
      /\ n \in 0..Len(ts)
      /\ \A j \in 1..Len(ts) : ts[j].pinned <=> j <= n
  BY <1>1, PinnedPrefix DEF TabListOK
<1>3. PICK t : t = MoveTarget(ts, from, to)
  OBVIOUS
<1>4. t = IF ts[from].pinned THEN Clamp(to, 1, n) ELSE Clamp(to, n + 1, Len(ts))
  BY <1>1, <1>3 DEF MoveTarget
<1>5. from \in 1..Len(ts) /\ i \in 1..Len(ts) /\ (ts[from].pinned <=> from <= n)
  BY <1>2
<1>6. t \in 1..Len(ts)
  <2>1. CASE ts[from].pinned
    BY <1>2, <1>4, <1>5, <2>1 DEF Clamp
  <2>2. CASE ~ts[from].pinned
    <3>1. n + 1 \in Nat /\ n + 1 <= Len(ts) /\ to \in Nat /\ Len(ts) \in Nat
      BY <1>2, <1>5, <2>2
    <3>2. t = Clamp(to, n + 1, Len(ts))
      BY <1>4, <2>2
    <3>3. t \in (n + 1)..Len(ts)
      BY <3>1, <3>2, ClampRange
    <3> QED
      BY <1>2, <3>3
  <2> QED
    BY <2>1, <2>2
<1>7. \A j \in 1..Len(ts) : Moved(ts, from, t)[j] = ts[CameFrom(j, from, t)]
  BY <1>2, <1>5, <1>6, MovedFrom, SMTT(30)
<1>8. MovedIndex(i, from, t) \in 1..Len(ts) /\ CameFrom(MovedIndex(i, from, t), from, t) = i
  BY <1>2, <1>5, <1>6 DEF MovedIndex, CameFrom
<1>9. Moved(ts, from, t)[MovedIndex(i, from, t)] = ts[CameFrom(MovedIndex(i, from, t), from, t)]
  BY <1>7, <1>8, Zenon
<1> QED
  BY <1>3, <1>8, <1>9, Zenon

LEMMA ReorderedFollows ==
  ASSUME NEW ts \in Seq(Tabs), NEW i \in DOMAIN ts
  PROVE  Reordered(ts)[ReorderedIndex(ts, i)] = ts[i]
<1>1. PICK P : P = {j \in DOMAIN ts : ts[j].pinned}
  OBVIOUS
<1>2. PICK Q : Q = {j \in DOMAIN ts : ~ts[j].pinned}
  OBVIOUS
<1>3. PICK p : p = Only(ts, P)
  OBVIOUS
<1>4. PICK q : q = Only(ts, Q)
  OBVIOUS
<1>5. Len(ts) \in Nat /\ DOMAIN ts = 1..Len(ts) /\ i \in 1..Len(ts)
  OBVIOUS
<1>6. Reordered(ts) = p \o q
  BY <1>1, <1>2, <1>3, <1>4 DEF Reordered
<1>7. p \in Seq(Tabs) /\ q \in Seq(Tabs)
  BY <1>3, <1>4, OnlyKeeps
<1>8. /\ Len(p) = Rank(P, Len(ts))
      /\ i \in P => Rank(P, i) \in 1..Len(p) /\ p[Rank(P, i)] = ts[i]
  BY <1>3, <1>5, OnlyRanks
<1>9. i \in Q => Rank(Q, i) \in 1..Len(q) /\ q[Rank(Q, i)] = ts[i]
  BY <1>4, <1>5, OnlyRanks
<1>10. PinnedCount(ts) = Len(p)
  <2>1. P \cap (1..Len(ts)) = P
    BY <1>1, <1>5
  <2> QED
    BY <1>1, <1>8, <2>1 DEF PinnedCount, Rank
<1>11. PICK r : r = p \o q
  OBVIOUS
<1>12. /\ \A j \in 1..Len(p) : r[j] = p[j]
       /\ \A j \in 1..Len(q) : r[Len(p) + j] = q[j]
  BY <1>7, <1>11
<1>13. CASE ts[i].pinned
  <2>1. {j \in 1..i : ts[j].pinned} = P \cap (1..i) /\ i \in P
    BY <1>1, <1>5, <1>13
  <2>2. ReorderedIndex(ts, i) = Rank(P, i)
    BY <1>13, <2>1 DEF ReorderedIndex, Rank
  <2> QED
    BY <1>6, <1>8, <1>11, <1>12, <2>1, <2>2
<1>14. CASE ~ts[i].pinned
  <2>1. {j \in 1..i : ~ts[j].pinned} = Q \cap (1..i) /\ i \in Q
    BY <1>2, <1>5, <1>14
  <2>2. ReorderedIndex(ts, i) = Len(p) + Rank(Q, i)
    BY <1>10, <1>14, <2>1 DEF ReorderedIndex, Rank
  <2> QED
    BY <1>6, <1>9, <1>11, <1>12, <2>1, <2>2
<1> QED
  BY <1>13, <1>14
-----------------------------------------------------------------------------
(* The calm: while nothing overlaps or is lost, one chain of steps is      *)
(* under way at a time.  A call acts, posts an operation that moves the    *)
(* window, the window raises a loaded event, and a handler takes the page  *)
(* over into the tab list.  Each phase says what the others do not have.   *)

Inject == [do |-> "eval", arg |-> "inject"]
History == [do |-> "eval", arg |-> "history"]
LoadOf(url) == [do |-> "load", arg |-> url]
LoadSource == [do |-> "load_html", arg |-> SourceView]

\* Nothing that is posted or worked on moves the window.
QueueStill == \A i \in DOMAIN queue : queue[i] = Inject
WorkStill == \A t \in NavThreads : nav[t] = "busy" => working[t] = Inject
Still == QueueStill /\ WorkStill

\* Nothing but op, which waits in the queue or is worked on.
InFlight(op) ==
  \/ /\ WorkStill
     /\ \E i \in DOMAIN queue : queue[i] = op /\ \A j \in DOMAIN queue \ {i} : queue[j] = Inject
  \/ /\ QueueStill
     /\ \E t \in NavThreads : /\ nav[t] = "busy" /\ working[t] = op
                              /\ \A s \in NavThreads \ {t} : nav[s] = "busy" => working[s] = Inject

\* A save from its snapshot to the replacement, with r behind it.
Saves(q, r) ==
  /\ q # <<>>
  /\ \/ Head(q).do \in {"persist", "save", "replace"} /\ Tail(q) = r
     \/ /\ Head(q).do = "write" /\ Tail(q) # <<>>
        /\ Head(Tail(q)).do = "replace" /\ Tail(Tail(q)) = r

Left(q, r) == q = r \/ Saves(q, r)

Alone(S) == \A d \in Threads \ S : todo[d] = <<>>
Agrees == page \in {tabs[current].url, SourceView}
Clean == savesOverlap \/ Sanitized(Snapshot) \in {NoSession, sessionFile}

\* What a call has still to do, and what holds by then.
Form(q) ==
  \/ q = <<>> /\ Agrees /\ Clean
  \/ /\ q # <<>> /\ Tail(q) = <<>> /\ Head(q).do \in {"tool", "open", "append", "fetch", "eval"}
     /\ Agrees /\ Clean
  \/ Saves(q, <<>>) /\ Agrees
  \/ \E url \in Urls, agent \in BOOLEAN : Left(q, <<CheckedLoad(url, agent)>>)
  \/ q = <<Load(tabs[current].url), Persist>>
  \/ \E url \in Urls, agent \in BOOLEAN : q = <<Update(url), Persist, CheckedLoad(url, agent)>>

Acting(c) == Alone({c}) /\ Still /\ loads = 0 /\ Form(todo[c])

\* close_tab saves after it has posted: what it posted is what the tabs say.
Posted(c) ==
  /\ Alone({c}) /\ loads = 0 /\ Left(todo[c], <<>>)
  /\ \/ \E url \in Urls : InFlight(LoadOf(url)) /\ (todo[c] # <<>> => url = tabs[current].url)
     \/ \E op \in {History, LoadSource} : InFlight(op) /\ todo[c] = <<>> /\ Clean

Raised(c) ==
  /\ Alone({c}) /\ Still /\ loads = 1 /\ Left(todo[c], <<>>)
  /\ todo[c] # <<>> => page = tabs[current].url
  /\ page = SourceView => Clean

Handled(c, l) ==
  /\ Alone({c, l}) /\ Still /\ loads = 0 /\ Left(todo[c], <<>>)
  /\ todo[c] # <<>> => page = tabs[current].url
  /\ \/ todo[l] = <<Update(page), Persist, Notify>> /\ page \in Urls
     \/ /\ Left(todo[l], <<Notify>>) /\ page = tabs[current].url
        /\ todo[l] = <<Notify>> /\ todo[c] = <<>> => Clean
     \/ page = SourceView /\ todo[l] = <<Notify>> /\ Clean

Phase == \E c \in Callers : Acting(c) \/ Posted(c) \/ Raised(c) \/ \E l \in Loaders : Handled(c, l)

\* A save that overlaps no other is one of the tabs as they are.
SavesNow ==
  ~savesOverlap => \A d \in Threads :
    /\ At(d, "save") => Now(d).snap = Snapshot
    /\ At(d, "write") => Now(d).snap = Snapshot /\ tmpOpen = {d} /\ tmpThere
    /\ At(d, "replace") => tmpFile = Sanitized(Snapshot) /\ tmpOpen = {} /\ tmpThere

OpenNow == ~savesOverlap => \A d \in tmpOpen : At(d, "write")

CalmInv == calm => late = {} /\ Phase /\ SavesNow /\ OpenNow

-----------------------------------------------------------------------------
(* What the navigation queue does to a phase.                              *)

LEMMA OpsDiffer ==
  ASSUME NEW op, op \in {History, LoadSource} \/ \E url : op = LoadOf(url)
  PROVE  op # Inject
BY DEF History, LoadSource, LoadOf, Inject

\* An operation in flight is no still queue.
LEMMA FlightBusy ==
  ASSUME NEW op, InFlight(op)
  PROVE  queue # <<>> \/ \E t \in NavThreads : nav[t] = "busy"
BY DEF InFlight

LEMMA EnsureWork ==
  ASSUME NavInv, EnsureThread
  PROVE  \A t \in NavThreads : nav'[t] = "busy" <=> nav[t] = "busy"
BY DEF EnsureThread, NavInv, NavTypeOK

LEMMA Posts ==
  ASSUME NavInv, NEW op \in WindowOps, Post(op), Still
  PROVE  /\ op = Inject => Still'
         /\ InFlight(op)'
         /\ UNCHANGED <<page, loads, late>>
<1>1. /\ queue' = Append(queue, op) /\ UNCHANGED <<working, page, loads, late>>
      /\ \A t \in NavThreads : nav'[t] = "busy" <=> nav[t] = "busy"
  BY EnsureWork DEF Post
<1>2. /\ queue \in Seq(WindowOps) /\ Len(queue') = Len(queue) + 1 /\ queue' \in Seq(WindowOps)
      /\ queue'[Len(queue) + 1] = op /\ \A i \in 1..Len(queue) : queue'[i] = queue[i]
  BY <1>1 DEF NavInv, NavTypeOK
<1>3. WorkStill'
  BY <1>1 DEF Still, WorkStill
<1>4. \A i \in 1..Len(queue) : queue'[i] = Inject
  BY <1>2 DEF Still, QueueStill
<1>5. DOMAIN queue' = (1..Len(queue)) \cup {Len(queue) + 1}
  BY <1>2
<1>6. InFlight(op)'
  BY <1>2, <1>3, <1>4, <1>5 DEF InFlight
<1>7. op = Inject => Still'
  BY <1>2, <1>3, <1>4, <1>5 DEF Still, QueueStill
<1> QED
  BY <1>1, <1>6, <1>7

LEMMA FlightSame ==
  ASSUME UNCHANGED <<queue, nav, working>>, NEW op
  PROVE  Still' = Still /\ InFlight(op)' = InFlight(op)
BY DEF Still, QueueStill, WorkStill, InFlight

\* A queue that loses its first operation.
LEMMA Taken ==
  ASSUME queue \in Seq(WindowOps), queue # <<>>, NEW q, q = Tail(queue)
  PROVE  /\ DOMAIN q = 1..(Len(queue) - 1) /\ DOMAIN queue = 1..Len(queue) /\ Len(queue) \in Nat \ {0}
         /\ \A i \in DOMAIN q : q[i] = queue[i + 1]
         /\ Head(queue) = queue[1]
OBVIOUS

\* A navigation thread's turn that starts or ends no worker.
LEMMA IdleTurn ==
  ASSUME NavInv, UNCHANGED <<queue, working>>,
         \A t \in NavThreads : nav'[t] = "busy" <=> nav[t] = "busy", NEW op
  PROVE  /\ Still => Still'
         /\ InFlight(op) => InFlight(op)'
BY DEF Still, QueueStill, WorkStill, InFlight

\* Turns at which nothing is taken, done or given up.
LEMMA IdleTurns ==
  ASSUME NavInv, NEW op, watchdog = "drain" => queue = <<>>,
         \/ \E t \in NavThreads : GetTimeout(t)
         \/ WatchdogCheck \/ Recover
  PROVE  /\ Still => Still'
         /\ InFlight(op) => InFlight(op)'
         /\ UNCHANGED <<page, loads, late>>
<1>1. ASSUME NEW t \in NavThreads, GetTimeout(t)
      PROVE  /\ UNCHANGED <<queue, working, page, loads, late>>
             /\ \A s \in NavThreads : nav'[s] = "busy" <=> nav[s] = "busy"
  BY <1>1 DEF GetTimeout, NextTurn, NavInv, NavTypeOK
<1>2. CASE WatchdogCheck
  BY <1>2, IdleTurn DEF WatchdogCheck
<1>3. CASE Drain
  BY <1>3, IdleTurn DEF Drain
<1>4. CASE Stop
  BY <1>4, IdleTurn DEF Stop
<1>5. CASE Restart
  <2>1. \A s \in NavThreads : nav'[s] = "busy" <=> nav[s] = "busy"
    BY <1>5, EnsureWork DEF Restart
  <2> QED
    BY <1>5, <2>1, IdleTurn DEF Restart
<1> QED
  BY <1>1, <1>2, <1>3, <1>4, <1>5, IdleTurn DEF Recover

\* With nothing given up, and nothing given up now.
LEMMA NoGiveUp ==
  ASSUME NavInv, late = {}, late' \subseteq late
  PROVE  /\ \A t \in NavThreads : ~GiveUp(t)
         /\ \A op \in late : ~LateDone(op)
         /\ late' = {}
<1>1. ASSUME NEW t \in NavThreads, GiveUp(t) PROVE FALSE
  <2>1. late' = late \cup {working[t]}
    BY <1>1 DEF GiveUp
  <2> QED
    BY <2>1
<1> QED
  BY <1>1

\* A worker that starts.
LEMMA TakeTurn ==
  ASSUME NavInv, NEW t \in NavThreads, Take(t), NEW op, op # Inject
  PROVE  /\ Still => Still'
         /\ InFlight(op) => InFlight(op)'
         /\ UNCHANGED <<page, loads, late>>
<1>1. /\ queue # <<>> /\ queue' = Tail(queue) /\ UNCHANGED <<page, loads, late>>
      /\ nav[t] = "get" /\ nav' = [nav EXCEPT ![t] = "busy"]
      /\ working' = [working EXCEPT ![t] = Head(queue)]
  BY DEF Take
<1>2. /\ nav'[t] = "busy" /\ working'[t] = Head(queue)
      /\ \A s \in NavThreads \ {t} : nav'[s] = nav[s] /\ working'[s] = working[s]
  BY <1>1 DEF NavInv, NavTypeOK
<1> PICK q : q = queue'
  OBVIOUS
<1>3. /\ DOMAIN q = 1..(Len(queue) - 1) /\ DOMAIN queue = 1..Len(queue) /\ Len(queue) \in Nat \ {0}
      /\ \A i \in DOMAIN q : q[i] = queue[i + 1]
      /\ Head(queue) = queue[1]
  <2>1. queue \in Seq(WindowOps) /\ q = Tail(queue)
    BY <1>1 DEF NavInv, NavTypeOK
  <2> QED
    BY <1>1, <2>1, Taken
<1>4. 1 \in DOMAIN queue /\ \A i \in DOMAIN q : i + 1 \in DOMAIN queue /\ i + 1 # 1
  BY <1>3
<1>5. ASSUME Still PROVE Still'
  <2>1. QueueStill'
    BY <1>3, <1>4, <1>5 DEF Still, QueueStill
  <2>2. WorkStill'
    BY <1>2, <1>3, <1>4, <1>5 DEF Still, QueueStill, WorkStill
  <2> QED
    BY <2>1, <2>2 DEF Still
<1>6. ASSUME WorkStill, NEW i \in DOMAIN queue, queue[i] = op,
             \A j \in DOMAIN queue \ {i} : queue[j] = Inject
      PROVE  InFlight(op)'
  <2>1. CASE i = 1
    <3>1. \A j \in DOMAIN q : q[j] = Inject
      BY <1>3, <1>4, <1>6, <2>1
    <3>2. QueueStill'
      BY <3>1 DEF QueueStill
    <3>3. nav'[t] = "busy" /\ working'[t] = op
      BY <1>2, <1>3, <1>6, <2>1
    <3>4. \A s \in NavThreads \ {t} : nav'[s] = "busy" => working'[s] = Inject
      BY <1>2, <1>6 DEF WorkStill
    <3> QED
      BY <3>2, <3>3, <3>4 DEF InFlight
  <2>2. CASE i # 1
    <3>1. i - 1 \in DOMAIN q /\ q[i - 1] = op
      BY <1>3, <1>6, <2>2
    <3>2. \A j \in DOMAIN q \ {i - 1} : q[j] = Inject
      BY <1>3, <1>4, <1>6, <2>2
    <3>3. Head(queue) = Inject
      BY <1>3, <1>4, <1>6, <2>2
    <3>4. WorkStill'
      BY <1>2, <1>6, <3>3 DEF WorkStill
    <3> QED
      BY <3>1, <3>2, <3>4 DEF InFlight
  <2> QED
    BY <2>1, <2>2
<1>7. ASSUME QueueStill, NEW u \in NavThreads, nav[u] = "busy", working[u] = op,
             \A s \in NavThreads \ {u} : nav[s] = "busy" => working[s] = Inject
      PROVE  InFlight(op)'
  <2>1. u # t
    BY <1>1, <1>7
  <2>2. QueueStill'
    BY <1>3, <1>4, <1>7 DEF QueueStill
  <2>3. nav'[u] = "busy" /\ working'[u] = op
    BY <1>2, <1>7, <2>1
  <2>4. working'[t] = Inject
    BY <1>2, <1>3, <1>4, <1>7 DEF QueueStill
  <2>5. \A s \in NavThreads \ {u} : nav'[s] = "busy" => working'[s] = Inject
    BY <1>2, <1>7, <2>4
  <2> QED
    BY <2>2, <2>3, <2>5 DEF InFlight
<1> QED
  BY <1>1, <1>5, <1>6, <1>7 DEF InFlight

\* A worker that ends: an operation in flight has landed or is still there.
LEMMA DoneTurn ==
  ASSUME NavInv, NEW t \in NavThreads, WorkerDone(t), NEW op, op # Inject
  PROVE  /\ Still => Still' /\ UNCHANGED <<page, loads, late>>
         /\ InFlight(op) =>
              /\ late' = late
              /\ \/ InFlight(op)' /\ UNCHANGED <<page, loads>>
                 \/ Still' /\ Apply(op)
<1>1. /\ nav[t] = "busy" /\ Apply(working[t])
      /\ UNCHANGED <<queue, late>>
      /\ nav' = [nav EXCEPT ![t] = NextTurn] /\ working' = [working EXCEPT ![t] = NoOp]
  BY DEF WorkerDone
<1>2. /\ nav'[t] # "busy"
      /\ \A s \in NavThreads \ {t} : nav'[s] = nav[s] /\ working'[s] = working[s]
  BY <1>1 DEF NavInv, NavTypeOK, NextTurn
<1>3. working[t] = Inject => UNCHANGED <<page, loads>>
  BY <1>1 DEF Apply, Inject
<1>4. WorkStill => WorkStill' /\ working[t] = Inject
  BY <1>1, <1>2 DEF WorkStill
<1>5. QueueStill => QueueStill'
  BY <1>1 DEF QueueStill
<1>6. ASSUME QueueStill, NEW u \in NavThreads, nav[u] = "busy", working[u] = op,
             \A s \in NavThreads \ {u} : nav[s] = "busy" => working[s] = Inject
      PROVE  \/ InFlight(op)' /\ UNCHANGED <<page, loads>>
             \/ Still' /\ Apply(op)
  <2>1. CASE u = t
    <3>1. WorkStill'
      BY <1>2, <1>6, <2>1 DEF WorkStill
    <3> QED
      BY <1>1, <1>5, <1>6, <2>1, <3>1 DEF Still
  <2>2. CASE u # t
    <3>1. working[t] = Inject
      BY <1>1, <1>6, <2>2
    <3>2. nav'[u] = "busy" /\ working'[u] = op
      BY <1>2, <1>6, <2>2
    <3>3. \A s \in NavThreads \ {u} : nav'[s] = "busy" => working'[s] = Inject
      BY <1>2, <1>6
    <3> QED
      BY <1>3, <1>5, <1>6, <3>1, <3>2, <3>3 DEF InFlight
  <2> QED
    BY <2>1, <2>2
<1>7. ASSUME WorkStill, NEW i \in DOMAIN queue, queue[i] = op,
             \A j \in DOMAIN queue \ {i} : queue[j] = Inject
      PROVE  InFlight(op)' /\ UNCHANGED <<page, loads>>
  BY <1>1, <1>3, <1>4, <1>7 DEF InFlight
<1>8. Still => Still' /\ UNCHANGED <<page, loads, late>>
  BY <1>1, <1>3, <1>4, <1>5 DEF Still
<1>9. InFlight(op) => \/ InFlight(op)' /\ UNCHANGED <<page, loads>>
                      \/ Still' /\ Apply(op)
  <2> SUFFICES ASSUME InFlight(op)
               PROVE  \/ InFlight(op)' /\ UNCHANGED <<page, loads>>
                      \/ Still' /\ Apply(op)
    OBVIOUS
  <2>1. CASE WorkStill /\ \E i \in DOMAIN queue : /\ queue[i] = op
                                                /\ \A j \in DOMAIN queue \ {i} : queue[j] = Inject
    BY <1>7, <2>1
  <2>2. CASE /\ QueueStill
             /\ \E u \in NavThreads : /\ nav[u] = "busy" /\ working[u] = op
                                      /\ \A s \in NavThreads \ {u} : nav[s] = "busy" => working[s] = Inject
    BY <1>6, <2>2
  <2> QED
    BY <2>1, <2>2 DEF InFlight
<1> QED
  BY <1>1, <1>8, <1>9

\* The queue while nothing is given up or thrown away.
LEMMA CalmTurn ==
  ASSUME NavInv, NavNext, late = {}, late' \subseteq late, watchdog = "drain" => queue = <<>>,
         NEW op, op # Inject
  PROVE  /\ late' = {}
         /\ Still => Still' /\ UNCHANGED <<page, loads>>
         /\ InFlight(op) => \/ InFlight(op)' /\ UNCHANGED <<page, loads>>
                            \/ Still' /\ Apply(op)
<1>1. late' = {}
  BY NoGiveUp
<1>2. CASE (\E t \in NavThreads : GetTimeout(t)) \/ WatchdogCheck \/ Recover
  BY <1>1, <1>2, IdleTurns
<1>3. CASE \E t \in NavThreads : Take(t)
  BY <1>1, <1>3, TakeTurn
<1>4. CASE \E t \in NavThreads : WorkerDone(t)
  BY <1>1, <1>4, DoneTurn
<1> QED
  BY <1>2, <1>3, <1>4, NoGiveUp DEF NavNext, NavStep
-----------------------------------------------------------------------------
(* The lists of a phase by their first step.                               *)

SaveKinds == {"persist", "save", "write", "replace"}
LeadKinds == {"tool", "open", "append", "fetch"}

LEMMA SavesHead == ASSUME NEW q, NEW r, Saves(q, r) PROVE q # <<>> /\ Head(q).do \in SaveKinds
BY DEF Saves, SaveKinds

LEMMA LoadList ==
  ASSUME NEW url, NEW agent
  PROVE  LET q == <<CheckedLoad(url, agent)>> IN
         q # <<>> /\ Head(q) = CheckedLoad(url, agent) /\ Head(q).do = "load" /\ Tail(q) = <<>>
BY DEF CheckedLoad

LEMMA ClosedList ==
  ASSUME NEW url
  PROVE  LET q == <<Load(url), Persist>> IN
         /\ q # <<>> /\ Head(q) = CheckedLoad(url, FALSE) /\ Head(q).do = "load"
         /\ Tail(q) = <<Persist>>
BY DEF Load, CheckedLoad

LEMMA NavigateList ==
  ASSUME NEW url, NEW x
  PROVE  LET q == <<Update(url), Persist, x>> IN
         /\ q # <<>> /\ Head(q) = Update(url) /\ Head(q).do = "update" /\ Head(q).url = url
         /\ Tail(q) = <<Persist, x>>
BY DEF Update

LEMMA PersistList ==
  ASSUME NEW x
  PROVE  Saves(<<Persist, x>>, <<x>>) /\ Saves(<<Persist>>, <<>>)
BY DEF Saves, Persist

LEMMA NotifyList ==
  <<Notify>> # <<>> /\ Head(<<Notify>>) = Notify /\ Notify.do = "eval" /\ Notify.what = "inject"
    /\ Tail(<<Notify>>) = <<>>
BY DEF Notify

\* Where a call's list starts.
LEMMA FormHead ==
  ASSUME NEW q, q # <<>>, Form(q)
  PROVE  \/ /\ Tail(q) = <<>> /\ Head(q).do \in LeadKinds \cup {"eval"} /\ Agrees /\ Clean
         \/ /\ Head(q).do \in SaveKinds
            /\ \/ Saves(q, <<>>) /\ Agrees
               \/ \E url \in Urls, agent \in BOOLEAN : Saves(q, <<CheckedLoad(url, agent)>>)
         \/ /\ Head(q).do = "load" /\ Tail(q) = <<>>
            /\ \E url \in Urls, agent \in BOOLEAN : Head(q) = CheckedLoad(url, agent)
         \/ /\ Head(q) = CheckedLoad(tabs[current].url, FALSE) /\ Head(q).do = "load"
            /\ Tail(q) = <<Persist>>
         \/ /\ Head(q).do = "update"
            /\ \E url \in Urls, agent \in BOOLEAN :
                 Head(q) = Update(url) /\ Tail(q) = <<Persist, CheckedLoad(url, agent)>>
<1>1. CASE /\ Tail(q) = <<>> /\ Head(q).do \in {"tool", "open", "append", "fetch", "eval"}
           /\ Agrees /\ Clean
  BY <1>1 DEF LeadKinds
<1>2. CASE Saves(q, <<>>) /\ Agrees
  BY <1>2, SavesHead
<1>3. ASSUME NEW url \in Urls, NEW agent \in BOOLEAN, Left(q, <<CheckedLoad(url, agent)>>)
      PROVE  \/ /\ Head(q).do \in SaveKinds /\ Saves(q, <<CheckedLoad(url, agent)>>)
             \/ Head(q).do = "load" /\ Tail(q) = <<>> /\ Head(q) = CheckedLoad(url, agent)
  <2>1. CASE q = <<CheckedLoad(url, agent)>>
    BY <2>1, LoadList
  <2>2. CASE Saves(q, <<CheckedLoad(url, agent)>>)
    BY <2>2, SavesHead
  <2> QED
    BY <1>3, <2>1, <2>2 DEF Left
<1>4. CASE q = <<Load(tabs[current].url), Persist>>
  BY <1>4, ClosedList
<1>5. ASSUME NEW url \in Urls, NEW agent \in BOOLEAN, q = <<Update(url), Persist, CheckedLoad(url, agent)>>
      PROVE  /\ Head(q).do = "update" /\ Head(q) = Update(url)
             /\ Tail(q) = <<Persist, CheckedLoad(url, agent)>>
  BY <1>5, NavigateList
<1> QED
  BY <1>1, <1>2, <1>3, <1>4, <1>5 DEF Form

\* Where the list of a handler of loaded events starts.
LEMMA HandledHead ==
  ASSUME NEW c, NEW l, Handled(c, l), todo[l] # <<>>
  PROVE  \/ /\ Head(todo[l]).do = "update" /\ Head(todo[l]) = Update(page) /\ page \in Urls
            /\ Tail(todo[l]) = <<Persist, Notify>>
         \/ /\ Head(todo[l]).do \in SaveKinds /\ Saves(todo[l], <<Notify>>)
            /\ page = tabs[current].url
         \/ /\ todo[l] = <<Notify>> /\ Head(todo[l]).do = "eval" /\ Agrees
            /\ todo[c] = <<>> => Clean
<1>1. CASE todo[l] = <<Update(page), Persist, Notify>> /\ page \in Urls
  BY <1>1, NavigateList
<1>2. CASE /\ Left(todo[l], <<Notify>>) /\ page = tabs[current].url
           /\ todo[l] = <<Notify>> /\ todo[c] = <<>> => Clean
  BY <1>2, SavesHead, NotifyList DEF Left, Agrees
<1>3. CASE page = SourceView /\ todo[l] = <<Notify>> /\ Clean
  BY <1>3, NotifyList DEF Agrees
<1> QED
  BY <1>1, <1>2, <1>3 DEF Handled

\* Whose step it can be.
LEMMA Whose ==
  ASSUME Phase, NEW d \in Threads, todo[d] # <<>>
  PROVE  \/ d \in Callers /\ (Acting(d) \/ Posted(d) \/ Raised(d) \/ \E l \in Loaders : Handled(d, l))
         \/ d \in Loaders /\ \E c \in Callers : Handled(c, d)
<1>1. PICK c \in Callers : Acting(c) \/ Posted(c) \/ Raised(c) \/ \E l \in Loaders : Handled(c, l)
  BY DEF Phase
<1>2. CASE Acting(c) \/ Posted(c) \/ Raised(c)
  <2>1. d = c
    BY <1>2 DEF Acting, Posted, Raised, Alone
  <2> QED
    BY <1>2, <2>1
<1>3. ASSUME NEW l \in Loaders, Handled(c, l)
      PROVE  \/ d \in Callers /\ Handled(d, l)
             \/ d \in Loaders /\ Handled(c, d)
  <2>1. d \in {c, l}
    BY <1>3 DEF Handled, Alone
  <2> QED
    BY <1>3, <2>1
<1> QED
  BY <1>1, <1>2, <1>3

LEMMA LeftHead ==
  ASSUME NEW q, q # <<>>, Left(q, <<>>)
  PROVE  Saves(q, <<>>) /\ Head(q).do \in SaveKinds
BY SavesHead DEF Left

\* A step that opens a chain, or moves it, is the only one there is.
LEMMA LeadStep ==
  ASSUME Phase, NEW d \in Threads, todo[d] # <<>>, Head(todo[d]).do \in LeadKinds
  PROVE  d \in Callers /\ Alone({d}) /\ Still /\ loads = 0 /\ Tail(todo[d]) = <<>> /\ Agrees /\ Clean
<1>1. Head(todo[d]).do \notin SaveKinds \cup {"eval", "update", "load"}
  BY DEF LeadKinds, SaveKinds
<1>2. ASSUME NEW l, ~Left(todo[d], <<>>)
      PROVE  ~Posted(d) /\ ~Raised(d) /\ ~Handled(d, l)
  BY <1>2 DEF Posted, Raised, Handled
<1>3. ~Left(todo[d], <<>>)
  BY <1>1, LeftHead
<1>4. ASSUME NEW c, Handled(c, d) PROVE FALSE
  BY <1>1, <1>4, HandledHead
<1>5. d \in Callers /\ Acting(d)
  BY <1>2, <1>3, <1>4, Whose
<1>6. Form(todo[d])
  BY <1>5 DEF Acting
<1>7. Tail(todo[d]) = <<>> /\ Agrees /\ Clean
  BY <1>1, <1>6, FormHead
<1> QED
  BY <1>5, <1>7 DEF Acting

LEMMA MovingStep ==
  ASSUME Phase, NEW d \in Threads, todo[d] # <<>>, Head(todo[d]).do \in {"load", "update", "eval"}
  PROVE  \/ d \in Callers /\ Acting(d)
         \/ d \in Loaders /\ \E c \in Callers : Handled(c, d)
<1>1. Head(todo[d]).do \notin SaveKinds
  BY DEF SaveKinds
<1>2. ~Left(todo[d], <<>>)
  BY <1>1, LeftHead
<1>3. ASSUME NEW l PROVE ~Posted(d) /\ ~Raised(d) /\ ~Handled(d, l)
  BY <1>2 DEF Posted, Raised, Handled
<1> QED
  BY <1>3, Whose

\* Once all is done the page is the current tab's, and so is the file.
LEMMA SettledPhase ==
  ASSUME Phase, Settled
  PROVE  Agrees /\ Clean /\ Still /\ loads = 0 /\ \A d \in Threads : todo[d] = <<>>
<1>1. /\ \A d \in Threads : todo[d] = <<>>
      /\ queue = <<>> /\ loads = 0 /\ \A t \in NavThreads : nav[t] # "busy"
  BY DEF Settled
<1>2. PICK c \in Callers : Acting(c) \/ Posted(c) \/ Raised(c) \/ \E l \in Loaders : Handled(c, l)
  BY DEF Phase
<1>3. todo[c] = <<>> /\ \A l \in Loaders : todo[l] = <<>>
  BY <1>1 DEF Threads
<1>4. ~Raised(c)
  BY <1>1 DEF Raised
<1>5. ~Posted(c)
  BY <1>1, FlightBusy DEF Posted
<1>6. ASSUME NEW l \in Loaders PROVE ~Handled(c, l)
  <2>1. todo[l] # <<Update(page), Persist, Notify>> /\ ~Left(todo[l], <<Notify>>) /\ todo[l] # <<Notify>>
    <3>1. todo[l] = <<>>
      BY <1>3
    <3>2. ~Saves(<<>>, <<Notify>>)
      BY DEF Saves
    <3> QED
      BY <3>1, <3>2, NotifyList, NavigateList DEF Left
  <2> QED
    BY <2>1 DEF Handled
<1>7. Form(<<>>)
  BY <1>2, <1>3, <1>4, <1>5, <1>6 DEF Acting
<1>8. Agrees /\ Clean
  <2>1. ASSUME NEW url, NEW agent
        PROVE  ~Left(<<>>, <<CheckedLoad(url, agent)>>) /\ <<>> # <<Load(url), Persist>>
               /\ <<>> # <<Update(url), Persist, CheckedLoad(url, agent)>>
    BY DEF Left, Saves
  <2>2. ~Saves(<<>>, <<>>)
    BY DEF Saves
  <2> QED
    BY <1>7, <2>1, <2>2 DEF Form
<1>9. Still
  BY <1>1 DEF Still, QueueStill, WorkStill
<1> QED
  BY <1>1, <1>8, <1>9
-----------------------------------------------------------------------------
(* From one phase to the next.                                             *)

\* A thread's list changes; the others are as they were.
LEMMA AloneStill ==
  ASSUME TypeInv, NEW d \in Threads, NEW q, todo' = [todo EXCEPT ![d] = q]
  PROVE  /\ todo'[d] = q /\ \A e \in Threads \ {d} : todo'[e] = todo[e]
         /\ \A S : Alone(S \cup {d}) => Alone(S \cup {d})'
         /\ Alone({d}) => Alone({d})'
<1>1. todo'[d] = q /\ \A e \in Threads \ {d} : todo'[e] = todo[e]
  BY TodoSet DEF TypeInv
<1> QED
  BY <1>1 DEF Alone

LEMMA ToActing ==
  ASSUME TypeInv, NEW d \in Callers, NEW q, todo' = [todo EXCEPT ![d] = q],
         Alone({d}), Still', loads' = 0, Form(q)'
  PROVE  Phase'
<1>1. todo'[d] = q /\ Alone({d})'
  BY AloneStill DEF Threads
<1> QED
  BY <1>1 DEF Phase, Acting

\* What a phase says of the window, the tabs and the files.
LEMMA FactsSame ==
  ASSUME UNCHANGED <<queue, nav, working, page, loads, tabs, current>>
  PROVE  /\ Still' = Still /\ \A op : InFlight(op)' = InFlight(op)
         /\ Agrees' = Agrees /\ Snapshot' = Snapshot
BY DEF Still, QueueStill, WorkStill, InFlight, Agrees, Snapshot

LEMMA CleanSame ==
  ASSUME UNCHANGED <<tabs, current, sessionFile, savesOverlap>>
  PROVE  Clean' = Clean
BY DEF Clean, Snapshot

LEMMA PhaseSame ==
  ASSUME Phase, UNCHANGED <<queue, nav, working, page, loads, tabs, current, todo,
                            sessionFile, savesOverlap>>
  PROVE  Phase'
<1>1. PICK c \in Callers : Acting(c) \/ Posted(c) \/ Raised(c) \/ \E l \in Loaders : Handled(c, l)
  BY DEF Phase
<1>2. Still' = Still /\ (\A op : InFlight(op)' = InFlight(op)) /\ Agrees' = Agrees
  BY FactsSame
<1>3. Clean' = Clean
  BY CleanSame
<1>4. \A S : Alone(S)' = Alone(S)
  BY DEF Alone
<1>5. ASSUME Acting(c) PROVE Acting(c)'
  <2>1. Form(todo[c]) => Form(todo[c])'
    BY <1>2, <1>3 DEF Form
  <2> QED
    BY <1>2, <1>4, <1>5, <2>1 DEF Acting
<1>6. ASSUME Posted(c) PROVE Posted(c)'
  BY <1>2, <1>3, <1>4, <1>6 DEF Posted
<1>7. ASSUME Raised(c) PROVE Raised(c)'
  BY <1>2, <1>3, <1>4, <1>7 DEF Raised
<1>8. ASSUME NEW l \in Loaders, Handled(c, l) PROVE Handled(c, l)'
  BY <1>2, <1>3, <1>4, <1>8 DEF Handled
<1> QED
  BY <1>1, <1>5, <1>6, <1>7, <1>8 DEF Phase

\* A step of a save, in whatever phase it is: the list goes on with the save, or
\* with what comes behind it once the file says what the tabs say.
LEMMA SaveStepPhase ==
  ASSUME TypeInv, Phase, NEW d \in Threads, todo[d] # <<>>, Head(todo[d]).do \in SaveKinds,
         NEW q, todo' = [todo EXCEPT ![d] = q],
         UNCHANGED <<queue, nav, working, page, loads, tabs, current>>,
         \A r : Saves(todo[d], r) => \/ q = r /\ Clean'
                                     \/ Saves(q, r),
         Clean => Clean'
  PROVE  Phase'
<1>1. todo'[d] = q /\ (\A e \in Threads \ {d} : todo'[e] = todo[e])
  BY AloneStill
<1>2. Still' = Still /\ (\A op : InFlight(op)' = InFlight(op)) /\ Agrees' = Agrees
  BY FactsSame
<1>3. Head(todo[d]).do \notin LeadKinds \cup {"eval", "load", "update"}
  BY DEF SaveKinds, LeadKinds
<1>4. ASSUME Left(todo[d], <<>>) PROVE Left(q, <<>>) /\ (q = <<>> => Clean')
  <2>1. Saves(todo[d], <<>>)
    BY <1>4, LeftHead
  <2>2. ~Saves(<<>>, <<>>)
    BY DEF Saves
  <2> QED
    BY <2>1, <2>2 DEF Left
<1>5. ASSUME d \in Callers, Acting(d) PROVE Phase'
  <2>1. Form(todo[d]) /\ Alone({d}) /\ Still' /\ loads' = 0
    BY <1>2, <1>5 DEF Acting
  <2>2. \/ Saves(todo[d], <<>>) /\ Agrees
        \/ \E url \in Urls, agent \in BOOLEAN : Saves(todo[d], <<CheckedLoad(url, agent)>>)
    BY <1>3, <2>1, FormHead
  <2>3. CASE Saves(todo[d], <<>>) /\ Agrees
    <3>1. Agrees' /\ ((q = <<>> /\ Clean') \/ Saves(q, <<>>))
      BY <1>2, <2>3
    <3>2. Form(q)'
      BY <3>1 DEF Form
    <3> QED
      BY <1>5, <2>1, <3>2, ToActing
  <2>4. ASSUME NEW url \in Urls, NEW agent \in BOOLEAN, Saves(todo[d], <<CheckedLoad(url, agent)>>)
        PROVE  Phase'
    <3>1. Left(q, <<CheckedLoad(url, agent)>>)
      BY <2>4 DEF Left
    <3>2. Form(q)'
      BY <3>1 DEF Form
    <3> QED
      BY <1>5, <2>1, <3>2, ToActing
  <2> QED
    BY <2>2, <2>3, <2>4
<1>6. ASSUME d \in Callers, Posted(d) PROVE Phase'
  <2>1. Alone({d})' /\ loads' = 0 /\ Left(q, <<>>)
    BY <1>4, <1>6, AloneStill DEF Posted
  <2>2. PICK url \in Urls : InFlight(LoadOf(url)) /\ url = tabs[current].url
    BY <1>6 DEF Posted
  <2>3. InFlight(LoadOf(url))' /\ url = tabs'[current'].url
    BY <1>2, <2>2
  <2>4. Posted(d)'
    BY <1>1, <2>1, <2>3 DEF Posted
  <2> QED
    BY <1>6, <2>4 DEF Phase
<1>7. ASSUME d \in Callers, Raised(d) PROVE Phase'
  <2>1. Alone({d})' /\ loads' = 1 /\ Left(q, <<>>) /\ Still'
    BY <1>2, <1>4, <1>7, AloneStill DEF Raised
  <2>2. page' = tabs'[current'].url /\ (page' = SourceView => Clean')
    BY <1>7 DEF Raised
  <2>3. Raised(d)'
    BY <1>1, <2>1, <2>2 DEF Raised
  <2> QED
    BY <1>7, <2>3 DEF Phase
<1>8. ASSUME d \in Callers, NEW l \in Loaders, Handled(d, l) PROVE Phase'
  <2>1. l # d /\ l \in Threads
    BY <1>8, TabShellAssumption DEF Threads
  <2>2. todo'[l] = todo[l] /\ Alone({d, l})'
    <3>1. {d, l} = {l} \cup {d}
      OBVIOUS
    <3>2. Alone({l} \cup {d})'
      BY <1>8, <3>1, AloneStill DEF Handled
    <3> QED
      BY <1>1, <2>1, <3>1, <3>2
  <2>3. Still' /\ loads' = 0 /\ Left(q, <<>>) /\ page' = tabs'[current'].url /\ (q = <<>> => Clean')
    BY <1>2, <1>4, <1>8 DEF Handled
  <2>4. \/ todo[l] = <<Update(page), Persist, Notify>> /\ page \in Urls
        \/ Left(todo[l], <<Notify>>) /\ page = tabs[current].url
        \/ page = SourceView /\ todo[l] = <<Notify>> /\ Clean
    BY <1>8 DEF Handled
  <2>5. Handled(d, l)'
    BY <1>1, <2>2, <2>3, <2>4 DEF Handled
  <2> QED
    BY <1>8, <2>5 DEF Phase
<1>9. ASSUME d \in Loaders, NEW c \in Callers, Handled(c, d) PROVE Phase'
  <2>1. c # d /\ c \in Threads
    BY <1>9, TabShellAssumption DEF Threads
  <2>2. todo'[c] = todo[c] /\ Alone({c, d})'
    <3>1. {c, d} = {c} \cup {d}
      OBVIOUS
    <3>2. Alone({c} \cup {d})'
      BY <1>9, <3>1, AloneStill DEF Handled
    <3> QED
      BY <1>1, <2>1, <3>1, <3>2
  <2>3. Saves(todo[d], <<Notify>>) /\ page = tabs[current].url
    BY <1>3, <1>9, HandledHead
  <2>4. Left(q, <<Notify>>) /\ (q = <<Notify>> => Clean')
    <3>1. ~Saves(<<Notify>>, <<Notify>>)
      BY NotifyList, SavesHead DEF SaveKinds
    <3> QED
      BY <2>3, <3>1 DEF Left
  <2>5. Still' /\ loads' = 0 /\ Left(todo[c], <<>>)
    BY <1>2, <1>9 DEF Handled
  <2>6. Handled(c, d)'
    BY <1>1, <2>2, <2>3, <2>4, <2>5 DEF Handled
  <2> QED
    BY <1>9, <2>6 DEF Phase
<1> QED
  BY <1>5, <1>6, <1>7, <1>8, <1>9, Whose
-----------------------------------------------------------------------------
(* The steps of a save.                                                    *)

\* Steps of other kinds: the saves under way still save the tabs as they are,
\* if the tabs stay the same or nobody else does anything.
LEMMA SavesNowKept ==
  ASSUME TypeInv, SavesNow, OpenNow, NEW d \in Threads, NEW q,
         todo' = [todo EXCEPT ![d] = q],
         q = <<>> \/ Head(q).do \notin {"save", "write", "replace"},
         todo[d] = <<>> \/ Head(todo[d]).do # "write",
         UNCHANGED <<sessionVars, savesOverlap>>,
         UNCHANGED <<tabs, current>> \/ Alone({d})
  PROVE  SavesNow' /\ OpenNow'
<1>1. todo'[d] = q /\ \A e \in Threads \ {d} : todo'[e] = todo[e]
  BY AloneStill
<1>2. UNCHANGED <<tmpFile, tmpThere, tmpOpen>>
  BY DEF sessionVars
<1>3. UNCHANGED <<tabs, current>> => Snapshot' = Snapshot
  BY DEF Snapshot
<1>4. SavesNow'
  <2> SUFFICES ASSUME ~savesOverlap', NEW e \in Threads
               PROVE  /\ At(e, "save")' => Now(e)' .snap = Snapshot'
                      /\ At(e, "write")' => Now(e)' .snap = Snapshot' /\ tmpOpen' = {e} /\ tmpThere'
                      /\ At(e, "replace")' => /\ tmpFile' = Sanitized(Snapshot)'
                                              /\ tmpOpen' = {} /\ tmpThere'
    BY DEF SavesNow
  <2>1. CASE e = d
    BY <1>1, <2>1 DEF At
  <2>2. CASE e # d /\ todo[e] = <<>>
    BY <1>1, <2>2 DEF At
  <2>3. CASE e # d /\ Snapshot' = Snapshot
    <3>1. todo'[e] = todo[e]
      BY <1>1, <2>3
    <3>2. Now(e)' = Now(e) /\ \A k : At(e, k)' = At(e, k)
      BY <3>1 DEF Now, At
    <3>3. Sanitized(Snapshot)' = Sanitized(Snapshot)
      BY <2>3 DEF Sanitized
    <3> QED
      BY <1>2, <2>3, <3>2, <3>3 DEF SavesNow
  <2> QED
    BY <1>3, <2>1, <2>2, <2>3 DEF Alone
<1>5. OpenNow'
  <2> SUFFICES ASSUME ~savesOverlap', NEW e \in tmpOpen' PROVE At(e, "write")'
    BY DEF OpenNow
  <2>1. At(e, "write") /\ e \in Threads
    BY <1>2, TabShellAssumption DEF OpenNow, TypeInv, Threads
  <2>2. e # d
    BY <2>1 DEF At
  <2> QED
    BY <1>1, <2>1, <2>2 DEF At
<1> QED
  BY <1>4, <1>5

LEMMA PersistCalm ==
  ASSUME TypeInv, Phase, SavesNow, OpenNow, NEW d \in Threads, PersistSession(d)
  PROVE  Phase' /\ SavesNow' /\ OpenNow'
<1>1. /\ todo[d] # <<>> /\ Head(todo[d]).do = "persist" /\ Tail(todo[d]) \in Seq(PlainSteps)
  BY PlainRest, HeadNow DEF PersistSession, At
<1> PICK x : x = [do |-> "save", snap |-> Snapshot]
  OBVIOUS
<1>2. PICK q : /\ todo' = [todo EXCEPT ![d] = q]
               /\ q = (IF Sanitized(Snapshot) = NoSession THEN <<>> ELSE <<x>>) \o Tail(todo[d])
  BY DEF PersistSession, Then, TypeInv, TodosOK
<1>3. UNCHANGED <<queue, nav, working, page, loads, tabs, current, sessionVars, savesOverlap>>
  BY DEF PersistSession, navVars
<1>4. Clean' = Clean
  BY <1>3, CleanSame DEF sessionVars
<1>5. \A r : Saves(todo[d], r) => Tail(todo[d]) = r
  BY <1>1 DEF Saves
<1>6. Head(todo[d]).do \in SaveKinds
  BY <1>1 DEF SaveKinds
<1>7. CASE Sanitized(Snapshot) = NoSession
  <2>1. q = Tail(todo[d])
    BY <1>1, <1>2, <1>7
  <2>2. Clean'
    BY <1>4, <1>7 DEF Clean
  <2>3. Phase'
    BY <1>1, <1>2, <1>3, <1>5, <1>6, <2>1, <2>2, SaveStepPhase
  <2>4. q = <<>> \/ Head(q).do \notin {"save", "write", "replace"}
    <3>1. q # <<>> => Head(q) \in PlainSteps
      BY <1>1, <2>1
    <3> QED
      BY <3>1, PlainKinds
  <2> QED
    BY <1>1, <1>2, <1>3, <2>3, <2>4, SavesNowKept
<1>8. CASE Sanitized(Snapshot) # NoSession
  <2>1. q # <<>> /\ Head(q) = x /\ Tail(q) = Tail(todo[d]) /\ x.do = "save" /\ x.snap = Snapshot
    BY <1>1, <1>2, <1>8, HeadTail
  <2>2. \A r : Saves(todo[d], r) => Saves(q, r)
    BY <1>5, <2>1 DEF Saves
  <2>3. Phase'
    BY <1>1, <1>2, <1>3, <1>4, <1>6, <2>2, SaveStepPhase
  <2>4. todo'[d] = q /\ \A e \in Threads \ {d} : todo'[e] = todo[e]
    BY <1>2, AloneStill
  <2>5. Snapshot' = Snapshot /\ Sanitized(Snapshot)' = Sanitized(Snapshot)
    BY <1>3 DEF Snapshot, Sanitized
  <2>6. SavesNow'
    <3> SUFFICES ASSUME ~savesOverlap', NEW e \in Threads
                 PROVE  /\ At(e, "save")' => Now(e)' .snap = Snapshot'
                        /\ At(e, "write")' => Now(e)' .snap = Snapshot' /\ tmpOpen' = {e} /\ tmpThere'
                        /\ At(e, "replace")' => /\ tmpFile' = Sanitized(Snapshot)'
                                                /\ tmpOpen' = {} /\ tmpThere'
      BY DEF SavesNow
    <3>1. CASE e = d
      BY <2>1, <2>4, <2>5, <3>1 DEF At, Now
    <3>2. CASE e # d
      <4>1. todo'[e] = todo[e]
        BY <2>4, <3>2
      <4>2. Now(e)' = Now(e) /\ \A k : At(e, k)' = At(e, k)
        BY <4>1 DEF Now, At
      <4> QED
        BY <1>3, <2>5, <4>2 DEF SavesNow, sessionVars
    <3> QED
      BY <3>1, <3>2
  <2>7. OpenNow'
    <3> SUFFICES ASSUME ~savesOverlap', NEW e \in tmpOpen' PROVE At(e, "write")'
      BY DEF OpenNow
    <3>1. At(e, "write") /\ e \in Threads
      BY <1>3, TabShellAssumption DEF OpenNow, TypeInv, Threads, sessionVars
    <3>2. e # d
      BY <1>1, <3>1 DEF At
    <3> QED
      BY <2>4, <3>1, <3>2 DEF At
  <2> QED
    BY <2>3, <2>6, <2>7
<1> QED
  BY <1>7, <1>8

LEMMA SaveOpenCalm ==
  ASSUME TypeInv, Phase, SavesNow, OpenNow, NEW d \in Threads, At(d, "save"), SaveOpen(d),
         Then(d, <<[Now(d) EXCEPT !.do = "write"], [do |-> "replace"]>>),
         savesOverlap' = (savesOverlap \/ \E e \in Threads \ {d} : Saving(e)),
         UNCHANGED <<navVars, tabs, current>>
  PROVE  Phase' /\ SavesNow' /\ OpenNow'
<1> PICK x, r, y : x = Now(d) /\ r = Tail(todo[d]) /\ y = [x EXCEPT !.do = "write"]
  OBVIOUS
<1>1. x \in SaveSteps /\ r \in Seq(PlainSteps) /\ todo[d] # <<>> /\ x = Head(todo[d]) /\ x.do = "save"
  BY HeadNow, TodoHead
<1>2. y.do = "write" /\ y.snap = x.snap
  BY <1>1 DEF SaveSteps
<1> PICK q : q = <<y, ReplaceStep>> \o r
  OBVIOUS
<1>3. todo' = [todo EXCEPT ![d] = q]
  BY DEF Then, TypeInv, TodosOK, ReplaceStep
<1>4. q # <<>> /\ Head(q) = y /\ Tail(q) = <<ReplaceStep>> \o r
  <2>1. /\ <<y, ReplaceStep>> \o r # <<>> /\ Head(<<y, ReplaceStep>> \o r) = y
        /\ Tail(<<y, ReplaceStep>> \o r) = <<ReplaceStep>> \o r
    <3>1. r \in Seq(PlainSteps)
      BY <1>1
    <3> QED
      BY <3>1, TwoBefore
  <2> QED
    BY <2>1
<1>5. Tail(q) # <<>> /\ Head(Tail(q)).do = "replace" /\ Tail(Tail(q)) = r
  <2>1. /\ <<ReplaceStep>> \o r # <<>> /\ Head(<<ReplaceStep>> \o r) = ReplaceStep
        /\ Tail(<<ReplaceStep>> \o r) = r
    BY <1>1, HeadTail
  <2>2. Tail(q) # <<>> /\ Head(Tail(q)) = ReplaceStep /\ Tail(Tail(q)) = r
    BY <1>4, <2>1
  <2>3. ReplaceStep.do = "replace"
    BY DEF ReplaceStep
  <2> QED
    BY <2>2, <2>3
<1>6. UNCHANGED <<queue, nav, working, page, loads, tabs, current, sessionFile>>
  BY DEF navVars, SaveOpen
<1>7. Snapshot' = Snapshot /\ Sanitized(Snapshot)' = Sanitized(Snapshot)
  BY <1>6 DEF Snapshot, Sanitized
<1>8. Clean => Clean'
  BY <1>6, <1>7 DEF Clean
<1>9. \A s : Saves(todo[d], s) => Saves(q, s)
  BY <1>1, <1>2, <1>4, <1>5 DEF Saves
<1>10. Head(todo[d]).do \in SaveKinds
  BY <1>1 DEF SaveKinds
<1>11. Phase'
  BY <1>1, <1>3, <1>6, <1>8, <1>9, <1>10, SaveStepPhase
<1>12. todo'[d] = q /\ \A e \in Threads \ {d} : todo'[e] = todo[e]
  BY <1>3, AloneStill
<1>13. ASSUME ~savesOverlap' PROVE tmpOpen = {}
  <2>1. ~savesOverlap /\ ~ \E e \in Threads \ {d} : Saving(e)
    BY <1>13
  <2>2. ASSUME NEW e \in tmpOpen PROVE FALSE
    <3>1. At(e, "write") /\ e \in Threads
      BY <2>1, TabShellAssumption DEF OpenNow, TypeInv, Threads
    <3>2. Saving(e) /\ e # d
      BY <1>1, <3>1 DEF At, Saving
    <3> QED
      BY <2>1, <3>1, <3>2
  <2> QED
    BY <2>2
<1>14. SavesNow'
  <2> SUFFICES ASSUME ~savesOverlap', NEW e \in Threads
               PROVE  /\ At(e, "save")' => Now(e)' .snap = Snapshot'
                      /\ At(e, "write")' => Now(e)' .snap = Snapshot' /\ tmpOpen' = {e} /\ tmpThere'
                      /\ At(e, "replace")' => /\ tmpFile' = Sanitized(Snapshot)'
                                              /\ tmpOpen' = {} /\ tmpThere'
    BY DEF SavesNow
  <2>1. CASE e = d
    <3>1. x.snap = Snapshot
      BY DEF SavesNow
    <3>2. tmpOpen' = {d} /\ tmpThere'
      BY <1>13 DEF SaveOpen
    <3> QED
      BY <1>2, <1>4, <1>7, <1>12, <2>1, <3>1, <3>2 DEF At, Now
  <2>2. CASE e # d
    <3>1. todo'[e] = todo[e] /\ ~Saving(e)
      BY <1>12, <2>2
    <3>2. Now(e)' = Now(e) /\ (\A k : At(e, k)' = At(e, k)) /\ ~At(e, "write") /\ ~At(e, "replace")
      BY <3>1 DEF Now, At, Saving
    <3> QED
      BY <1>7, <3>2 DEF SavesNow
  <2> QED
    BY <2>1, <2>2
<1>15. OpenNow'
  <2> SUFFICES ASSUME ~savesOverlap', NEW e \in tmpOpen' PROVE At(e, "write")'
    BY DEF OpenNow
  <2>1. e = d
    BY <1>13 DEF SaveOpen
  <2> QED
    BY <1>2, <1>4, <1>12, <2>1 DEF At
<1> QED
  BY <1>11, <1>14, <1>15

\* Without another save the whole payload is written, over nothing.
LEMMA SaveWriteCalm ==
  ASSUME TypeInv, Phase, SavesNow, OpenNow, SavesApart, NEW d \in Threads, At(d, "write"),
         SaveWrite(d, Now(d).snap), Done(d),
         UNCHANGED <<navVars, tabs, current, savesOverlap>>
  PROVE  Phase' /\ SavesNow' /\ OpenNow'
<1> PICK x, q : x = Now(d) /\ q = Tail(todo[d])
  OBVIOUS
<1>1. /\ q # <<>> /\ Head(q) = ReplaceStep /\ todo[d] # <<>> /\ x = Head(todo[d]) /\ x.do = "write"
  BY HeadNow, TodoHead
<1>2. todo' = [todo EXCEPT ![d] = q]
  BY DEF Done, TypeInv, TodosOK
<1>3. UNCHANGED <<queue, nav, working, page, loads, tabs, current, sessionFile, savesOverlap, tmpThere>>
  BY DEF navVars, SaveWrite
<1>4. Snapshot' = Snapshot /\ Sanitized(Snapshot)' = Sanitized(Snapshot) /\ Clean' = Clean
  BY <1>3, CleanSame DEF Snapshot, Sanitized
<1>5. \A r : Saves(todo[d], r) => Saves(q, r)
  BY <1>1 DEF Saves, ReplaceStep
<1>6. Head(todo[d]).do \in SaveKinds
  BY <1>1 DEF SaveKinds
<1>7. Phase'
  BY <1>1, <1>2, <1>3, <1>4, <1>5, <1>6, SaveStepPhase
<1>8. todo'[d] = q /\ \A e \in Threads \ {d} : todo'[e] = todo[e]
  BY <1>2, AloneStill
<1>9. Head(q).do = "replace"
  BY <1>1 DEF ReplaceStep
<1>10. ASSUME ~savesOverlap
       PROVE  /\ x.snap = Snapshot /\ tmpOpen = {d} /\ tmpThere
              /\ tmpFile' = Sanitized(Snapshot) /\ tmpOpen' = {}
              /\ \A e \in Threads \ {d} : ~Saving(e)
  <2>1. x.snap = Snapshot /\ tmpOpen = {d} /\ tmpThere
    BY <1>10 DEF SavesNow
  <2>2. tmpFile = NoSession
    BY <1>10 DEF SavesApart
  <2>3. tmpFile' = Sanitized(x.snap) /\ tmpOpen' = tmpOpen \ {d}
    BY <2>2 DEF SaveWrite
  <2>4. Saving(d)
    BY DEF At, Saving
  <2>5. \A e \in Threads \ {d} : ~Saving(e)
    BY <1>10, <2>4 DEF SavesApart
  <2>6. tmpFile' = Sanitized(Snapshot)
    BY <2>1, <2>3
  <2>7. tmpOpen' = {}
    BY <2>1, <2>3
  <2> QED
    BY <2>1, <2>5, <2>6, <2>7
<1>11. SavesNow'
  <2> SUFFICES ASSUME ~savesOverlap', NEW e \in Threads
               PROVE  /\ At(e, "save")' => Now(e)' .snap = Snapshot'
                      /\ At(e, "write")' => Now(e)' .snap = Snapshot' /\ tmpOpen' = {e} /\ tmpThere'
                      /\ At(e, "replace")' => /\ tmpFile' = Sanitized(Snapshot)'
                                              /\ tmpOpen' = {} /\ tmpThere'
    BY DEF SavesNow
  <2>1. CASE e = d
    <3>1. ~At(e, "save")' /\ ~At(e, "write")'
      BY <1>8, <1>9, <2>1 DEF At
    <3>2. tmpFile' = Sanitized(Snapshot)' /\ tmpOpen' = {} /\ tmpThere'
      BY <1>3, <1>4, <1>10
    <3> QED
      BY <3>1, <3>2
  <2>2. CASE e # d
    <3>1. todo'[e] = todo[e] /\ ~Saving(e)
      BY <1>3, <1>8, <1>10, <2>2
    <3>2. Now(e)' = Now(e) /\ (\A k : At(e, k)' = At(e, k)) /\ ~At(e, "write") /\ ~At(e, "replace")
      BY <3>1 DEF Now, At, Saving
    <3> QED
      BY <1>3, <1>4, <3>2 DEF SavesNow
  <2> QED
    BY <2>1, <2>2
<1>12. OpenNow'
  BY <1>3, <1>10 DEF OpenNow
<1> QED
  BY <1>7, <1>11, <1>12

\* It replaces the session file with the tabs as they are.
LEMMA SaveReplaceCalm ==
  ASSUME TypeInv, Phase, SavesNow, OpenNow, SavesApart, NEW d \in Threads, At(d, "replace"),
         SaveReplace(d), Done(d),
         UNCHANGED <<navVars, tabs, current, savesOverlap>>
  PROVE  Phase' /\ SavesNow' /\ OpenNow'
<1> PICK q : q = Tail(todo[d])
  OBVIOUS
<1>1. q \in Seq(PlainSteps) /\ todo[d] # <<>> /\ Head(todo[d]).do = "replace"
  BY HeadNow, TodoHead DEF At
<1>2. todo' = [todo EXCEPT ![d] = q]
  BY DEF Done, TypeInv, TodosOK
<1>3. UNCHANGED <<queue, nav, working, page, loads, tabs, current, savesOverlap>>
  BY DEF navVars
<1>4. Snapshot' = Snapshot /\ Sanitized(Snapshot)' = Sanitized(Snapshot)
  BY <1>3 DEF Snapshot, Sanitized
<1>5. ASSUME ~savesOverlap
      PROVE  sessionFile' = Sanitized(Snapshot) /\ tmpOpen' = {} /\ \A e \in Threads \ {d} : ~Saving(e)
  <2>1. tmpFile = Sanitized(Snapshot) /\ tmpOpen = {} /\ tmpThere
    BY <1>5 DEF SavesNow
  <2>2. sessionFile' = tmpFile /\ tmpOpen' = tmpOpen
    BY <2>1 DEF SaveReplace
  <2>3. Saving(d)
    BY DEF At, Saving
  <2>4. \A e \in Threads \ {d} : ~Saving(e)
    BY <1>5, <2>3 DEF SavesApart
  <2> QED
    BY <2>1, <2>2, <2>4
<1>6. Clean'
  BY <1>3, <1>4, <1>5 DEF Clean
<1>7. \A r : Saves(todo[d], r) => q = r
  BY <1>1 DEF Saves
<1>8. Head(todo[d]).do \in SaveKinds
  BY <1>1 DEF SaveKinds
<1>9. Phase'
  BY <1>1, <1>2, <1>3, <1>6, <1>7, <1>8, SaveStepPhase
<1>10. todo'[d] = q /\ \A e \in Threads \ {d} : todo'[e] = todo[e]
  BY <1>2, AloneStill
<1>11. q = <<>> \/ Head(q).do \notin {"save", "write", "replace"}
  <2>1. q # <<>> => Head(q) \in PlainSteps
    BY <1>1
  <2> QED
    BY <2>1, PlainKinds
<1>12. SavesNow'
  <2> SUFFICES ASSUME ~savesOverlap', NEW e \in Threads
               PROVE  /\ At(e, "save")' => Now(e)' .snap = Snapshot'
                      /\ At(e, "write")' => Now(e)' .snap = Snapshot' /\ tmpOpen' = {e} /\ tmpThere'
                      /\ At(e, "replace")' => /\ tmpFile' = Sanitized(Snapshot)'
                                              /\ tmpOpen' = {} /\ tmpThere'
    BY DEF SavesNow
  <2>1. CASE e = d
    BY <1>10, <1>11, <2>1 DEF At
  <2>2. CASE e # d
    <3>1. todo'[e] = todo[e] /\ ~Saving(e)
      BY <1>3, <1>5, <1>10, <2>2
    <3>2. Now(e)' = Now(e) /\ (\A k : At(e, k)' = At(e, k)) /\ ~At(e, "write") /\ ~At(e, "replace")
      BY <3>1 DEF Now, At, Saving
    <3> QED
      BY <1>3, <1>4, <3>2 DEF SavesNow
  <2> QED
    BY <2>1, <2>2
<1>13. OpenNow'
  BY <1>3, <1>5 DEF OpenNow
<1> QED
  BY <1>9, <1>12, <1>13
-----------------------------------------------------------------------------
(* The steps that change the tabs, or open a chain.                        *)

\* The URL of the current tab is replaced; by its own, nothing changes.
LEMMA UrlReplaced ==
  ASSUME TabsOK, NEW url, UNCHANGED current, tabs' = [tabs EXCEPT ![current].url = url]
  PROVE  /\ tabs'[current'].url = url
         /\ url = tabs[current].url => UNCHANGED <<tabs, current>>
<1> PICK i : i = current
  OBVIOUS
<1>1. i \in 1..Len(tabs) /\ tabs \in Seq(Tabs) /\ tabs[i] \in Tabs
  BY DEF TabsOK, TabListOK
<1>2. tabs[i] = [url |-> tabs[i].url, pinned |-> tabs[i].pinned]
  BY <1>1 DEF Tabs
<1> PICK x : x = [tabs[i] EXCEPT !.url = url]
  OBVIOUS
<1>3. x.url = url /\ (url = tabs[i].url => x = tabs[i])
  BY <1>1, <1>2 DEF Tabs
<1>4. tabs' = [tabs EXCEPT ![i] = x]
  BY <1>1
<1>5. tabs'[i] = x /\ (x = tabs[i] => tabs' = tabs)
  BY <1>1, <1>4
<1> QED
  BY <1>3, <1>5

LEMMA UpdateCalm ==
  ASSUME TypeInv, Phase, SavesNow, OpenNow, NEW d \in Threads, UpdateCurrent(d)
  PROVE  Phase' /\ SavesNow' /\ OpenNow'
<1> PICK q : q = Tail(todo[d])
  OBVIOUS
<1>1. todo[d] # <<>> /\ Head(todo[d]).do = "update"
  BY DEF UpdateCurrent, At
<1>2. todo' = [todo EXCEPT ![d] = q]
  BY DEF UpdateCurrent, Done, TypeInv, TodosOK
<1>3. UNCHANGED <<queue, nav, working, page, loads, sessionVars, savesOverlap, current>>
  BY DEF UpdateCurrent, navVars
<1>4. Still' = Still
  BY <1>3, FlightSame
<1>5. \A x : <<Persist, x>> # <<>> /\ Head(<<Persist, x>>).do \notin {"save", "write", "replace"}
  BY DEF Persist
<1>6. ASSUME d \in Callers, Acting(d) PROVE Phase' /\ SavesNow' /\ OpenNow'
  <2>1. Alone({d}) /\ Still' /\ loads' = 0 /\ Form(todo[d])
    BY <1>3, <1>4, <1>6 DEF Acting
  <2>2. Head(todo[d]).do \notin LeadKinds \cup SaveKinds \cup {"eval", "load"}
    BY <1>1 DEF LeadKinds, SaveKinds
  <2>3. PICK url \in Urls, agent \in BOOLEAN : q = <<Persist, CheckedLoad(url, agent)>>
    BY <1>1, <2>1, <2>2, FormHead
  <2>4. Left(q, <<CheckedLoad(url, agent)>>)
    BY <2>3, PersistList DEF Left
  <2>5. Form(q)'
    BY <2>4 DEF Form
  <2>6. Phase'
    BY <1>2, <1>6, <2>1, <2>5, ToActing
  <2>7. Head(q).do \notin {"save", "write", "replace"}
    BY <1>5, <2>3
  <2> QED
    BY <1>1, <1>2, <1>3, <2>1, <2>6, <2>7, SavesNowKept
<1>7. ASSUME d \in Loaders, NEW c \in Callers, Handled(c, d) PROVE Phase' /\ SavesNow' /\ OpenNow'
  <2>1. /\ Alone({c, d}) /\ Still' /\ loads' = 0 /\ Left(todo[c], <<>>)
        /\ todo[c] # <<>> => page = tabs[current].url
    BY <1>3, <1>4, <1>7 DEF Handled
  <2>2. Head(todo[d]) = Update(page) /\ q = <<Persist, Notify>>
    <3>1. Head(todo[d]).do \notin SaveKinds \cup {"eval"}
      BY <1>1 DEF SaveKinds
    <3> QED
      BY <1>1, <1>7, <3>1, HandledHead
  <2>3. tabs' = [tabs EXCEPT ![current].url = page]
    <3>1. Now(d).url = page
      BY <2>2 DEF Now, Update
    <3> QED
      BY <3>1 DEF UpdateCurrent
  <2>4. tabs'[current'].url = page /\ (page = tabs[current].url => UNCHANGED <<tabs, current>>)
    BY <1>3, <2>3, UrlReplaced DEF TypeInv
  <2>5. c # d /\ c \in Threads
    BY <1>7, TabShellAssumption DEF Threads
  <2>6. todo'[d] = q /\ todo'[c] = todo[c] /\ Alone({c, d})'
    <3>1. todo'[d] = q /\ (\A e \in Threads \ {d} : todo'[e] = todo[e]) /\ Alone({c} \cup {d})'
      <4>1. {c, d} = {c} \cup {d}
        OBVIOUS
      <4> QED
        BY <1>2, <2>1, <4>1, AloneStill
    <3>2. {c, d} = {c} \cup {d}
      OBVIOUS
    <3> QED
      BY <2>5, <3>1, <3>2
  <2>7. Left(q, <<Notify>>) /\ q # <<Notify>>
    <3>1. ~Saves(<<Notify>>, <<Notify>>)
      BY NotifyList, SavesHead DEF SaveKinds
    <3>2. Saves(q, <<Notify>>)
      BY <2>2, PersistList
    <3> QED
      BY <3>1, <3>2 DEF Left
  <2>8. Handled(c, d)'
    BY <1>3, <2>1, <2>4, <2>6, <2>7 DEF Handled
  <2>9. Phase'
    BY <1>7, <2>8 DEF Phase
  <2>10. UNCHANGED <<tabs, current>> \/ Alone({d})
    <3>1. todo[c] = <<>> => Alone({d})
      BY <2>1 DEF Alone
    <3> QED
      BY <2>1, <2>4, <3>1
  <2>11. Head(q).do \notin {"save", "write", "replace"}
    BY <1>5, <2>2
  <2> QED
    BY <1>1, <1>2, <1>3, <2>9, <2>10, <2>11, SavesNowKept
<1> QED
  BY <1>1, <1>6, <1>7, MovingStep

\* From a chain that has only begun to what its thread does next.
LEMMA LeadCalm ==
  ASSUME TypeInv, Phase, SavesNow, OpenNow, NEW d \in Threads, todo[d] # <<>>,
         Head(todo[d]).do \in LeadKinds, NEW q, todo' = [todo EXCEPT ![d] = q],
         UNCHANGED <<navVars, sessionVars, savesOverlap>>,
         q = <<>> \/ Head(q).do \notin {"save", "write", "replace"}, Form(q)'
  PROVE  Phase' /\ SavesNow' /\ OpenNow'
<1>1. d \in Callers /\ Alone({d}) /\ Still /\ loads = 0
  BY LeadStep
<1>2. UNCHANGED <<queue, nav, working, loads>>
  BY DEF navVars
<1>3. Still' /\ loads' = 0
  BY <1>1, <1>2, FlightSame
<1>4. Phase'
  BY <1>1, <1>3, ToActing
<1>5. Head(todo[d]).do # "write"
  BY DEF LeadKinds
<1> QED
  BY <1>1, <1>4, <1>5, SavesNowKept

LEMMA OneStep ==
  ASSUME NEW x, x.do \in {"tool", "open", "append", "fetch", "eval"}, Agrees, Clean
  PROVE  Form(<<x>>) /\ <<x>> # <<>> /\ Head(<<x>>).do \notin {"save", "write", "replace"}
<1>1. <<x>> # <<>> /\ Head(<<x>>) = x /\ Tail(<<x>>) = <<>>
  BY Single
<1> QED
  BY <1>1 DEF Form

LEMMA OpenTabCalm ==
  ASSUME TypeInv, Phase, SavesNow, OpenNow, NEW d \in Threads, OpenTab(d)
  PROVE  Phase' /\ SavesNow' /\ OpenNow'
<1>1. todo[d] # <<>> /\ Head(todo[d]).do = "open" /\ Head(todo[d]) \in OpenSteps
  BY HeadNow, TodoHead DEF OpenTab, At
<1>2. Tail(todo[d]) = <<>> /\ Agrees /\ Clean /\ Head(todo[d]).do \in LeadKinds
  <2>1. Head(todo[d]).do \in LeadKinds
    BY <1>1 DEF LeadKinds
  <2> QED
    BY <1>1, <2>1, LeadStep
<1>3. PICK x : /\ Then(d, <<x>>)
               /\ x \in {[Now(d) EXCEPT !.do = "append"], Notify}
  BY DEF OpenTab
<1>4. x.do \in {"append", "eval"}
  BY <1>1, <1>3, NotifyList DEF OpenSteps, Now
<1>5. todo' = [todo EXCEPT ![d] = <<x>>]
  <2>1. <<x>> \o <<>> = <<x>>
    OBVIOUS
  <2> QED
    BY <1>2, <1>3, <2>1 DEF Then, TypeInv, TodosOK
<1>6. UNCHANGED <<queue, nav, working, page, loads, tabs, current, navVars, sessionVars, savesOverlap>>
  BY DEF OpenTab, navVars
<1>7. Agrees' /\ Clean'
  BY <1>2, <1>6, FactsSame, CleanSame DEF sessionVars
<1>8. /\ Form(<<x>>)' /\ <<x>> # <<>> /\ Head(<<x>>).do \notin {"save", "write", "replace"}
  <2>1. <<x>> # <<>> /\ Head(<<x>>) = x /\ Tail(<<x>>) = <<>>
    BY Single
  <2> QED
    BY <1>4, <1>7, <2>1 DEF Form
<1> QED
  BY <1>1, <1>2, <1>5, <1>6, <1>8, LeadCalm

LEMMA AppendTabCalm ==
  ASSUME TypeInv, Phase, SavesNow, OpenNow, NEW d \in Threads, AppendTab(d)
  PROVE  Phase' /\ SavesNow' /\ OpenNow'
<1>1. todo[d] # <<>> /\ Head(todo[d]).do = "append" /\ Head(todo[d]) \in AppendSteps
  BY HeadNow, TodoHead DEF AppendTab, At
<1>2. Tail(todo[d]) = <<>> /\ Head(todo[d]).do \in LeadKinds
  <2>1. Head(todo[d]).do \in LeadKinds
    BY <1>1 DEF LeadKinds
  <2> QED
    BY <1>1, <2>1, LeadStep
<1>3. PICK url \in Urls, agent \in BOOLEAN : Then(d, <<Persist, CheckedLoad(url, agent)>>)
  <2>1. Now(d).url \in Urls /\ (Now(d).agent /\ Now(d).url # Start) \in BOOLEAN
    BY <1>1 DEF AppendSteps, Now
  <2> QED
    BY <2>1 DEF AppendTab
<1> PICK q : q = <<Persist, CheckedLoad(url, agent)>>
  OBVIOUS
<1>4. q \o <<>> = q
  OBVIOUS
<1>5. todo' = [todo EXCEPT ![d] = q]
  BY <1>2, <1>3, <1>4 DEF Then, TypeInv, TodosOK
<1>6. UNCHANGED <<navVars, sessionVars, savesOverlap>>
  BY DEF AppendTab
<1>7. Left(q, <<CheckedLoad(url, agent)>>)
  BY PersistList DEF Left
<1>8. Form(q)' /\ Head(q).do \notin {"save", "write", "replace"}
  BY <1>7 DEF Form, Persist
<1> QED
  BY <1>1, <1>2, <1>5, <1>6, <1>8, LeadCalm
-----------------------------------------------------------------------------
(* The steps that post.                                                    *)

\* A call that has posted what moves the window waits for it to land.
LEMMA PostedCalm ==
  ASSUME TypeInv, SavesNow, OpenNow, NEW d \in Callers, todo[d] # <<>>, Head(todo[d]).do # "write",
         Alone({d}), Still, loads = 0, NEW op \in WindowOps, Post(op),
         NEW q, todo' = [todo EXCEPT ![d] = q], Left(q, <<>>),
         q = <<>> \/ Head(q).do \notin {"save", "write", "replace"},
         UNCHANGED <<sessionVars, tabs, current, savesOverlap>>,
         \/ \E url \in Urls : op = LoadOf(url) /\ (q # <<>> => url = tabs[current].url)
         \/ op \in {History, LoadSource} /\ q = <<>> /\ Clean
  PROVE  Phase' /\ SavesNow' /\ OpenNow'
<1>1. d \in Threads
  BY DEF Threads
<1>2. InFlight(op)' /\ UNCHANGED <<page, loads, late>>
  BY Posts DEF TypeInv
<1>3. todo'[d] = q /\ Alone({d})'
  BY <1>1, AloneStill
<1>4. Clean' = Clean
  BY CleanSame DEF sessionVars
<1>5. \/ \E url \in Urls : InFlight(LoadOf(url))' /\ (todo'[d] # <<>> => url = tabs'[current'].url)
      \/ \E o \in {History, LoadSource} : InFlight(o)' /\ todo'[d] = <<>> /\ Clean'
  BY <1>2, <1>3, <1>4
<1>6. Posted(d)'
  BY <1>2, <1>3, <1>5 DEF Posted
<1>7. Phase'
  BY <1>6 DEF Phase
<1> QED
  BY <1>1, <1>7, SavesNowKept

LEMMA PostLoadCalm ==
  ASSUME TypeInv, Phase, SavesNow, OpenNow, NEW d \in Threads, PostLoad(d)
  PROVE  Phase' /\ SavesNow' /\ OpenNow'
<1> PICK q : q = Tail(todo[d])
  OBVIOUS
<1>1. todo[d] # <<>> /\ Head(todo[d]).do = "load" /\ Now(d) = Head(todo[d])
  BY HeadNow DEF PostLoad
<1>2. Head(todo[d]).do \notin LeadKinds \cup SaveKinds \cup {"eval", "update", "write"}
  BY <1>1 DEF LeadKinds, SaveKinds
<1>3. ASSUME NEW c, Handled(c, d) PROVE FALSE
  BY <1>1, <1>2, <1>3, HandledHead
<1>4. d \in Callers /\ Acting(d)
  BY <1>1, <1>3, MovingStep
<1>5. Alone({d}) /\ Still /\ loads = 0 /\ Form(todo[d])
  BY <1>4 DEF Acting
<1>6. PICK url \in Urls, agent \in BOOLEAN :
        /\ Head(todo[d]) = CheckedLoad(url, agent)
        /\ q = <<>> \/ (q = <<Persist>> /\ url = tabs[current].url)
  <2>1. tabs[current].url \in Urls
    BY TabUrl DEF TypeInv, TabsOK
  <2> QED
    BY <1>1, <1>2, <1>5, <2>1, FormHead
<1>7. Now(d).url = url
  BY <1>1, <1>6 DEF CheckedLoad
<1>8. LoadOf(url) \in WindowOps /\ Post(LoadOf(url))
  BY <1>7 DEF LoadOf, WindowOps, Urls, PostLoad
<1>9. Left(q, <<>>) /\ (q = <<>> \/ Head(q).do \notin {"save", "write", "replace"})
  <2>1. Saves(<<Persist>>, <<>>)
    BY PersistList
  <2>2. Head(<<Persist>>).do \notin {"save", "write", "replace"}
    BY Single DEF Persist
  <2> QED
    BY <1>6, <2>1, <2>2 DEF Left
<1>10. todo' = [todo EXCEPT ![d] = q]
  BY DEF PostLoad, Done, TypeInv, TodosOK
<1>11. UNCHANGED <<sessionVars, tabs, current, savesOverlap>>
  BY DEF PostLoad
<1>12. \E u \in Urls : LoadOf(url) = LoadOf(u) /\ (q # <<>> => u = tabs[current].url)
  BY <1>6
<1>13. Head(todo[d]).do # "write"
  BY <1>2
<1> QED
  BY <1>1, <1>4, <1>5, <1>8, <1>9, <1>10, <1>11, <1>12, <1>13, PostedCalm

LEMMA PostEvalCalm ==
  ASSUME TypeInv, Phase, SavesNow, OpenNow, NEW d \in Threads, PostEval(d)
  PROVE  Phase' /\ SavesNow' /\ OpenNow'
<1> PICK q, x : q = Tail(todo[d]) /\ x = Head(todo[d])
  OBVIOUS
<1>1. todo[d] # <<>> /\ x.do = "eval" /\ x \in PlainSteps /\ Now(d) = x
  BY HeadNow, TodoHead DEF PostEval
<1>2. x.do \notin SaveKinds \cup {"load", "update", "write"}
  BY <1>1 DEF SaveKinds
<1>3. x.what \in {"inject", "history"}
  BY <1>1, PlainKinds
<1> PICK op : op = [do |-> "eval", arg |-> x.what]
  OBVIOUS
<1>4. op \in WindowOps /\ Post(op) /\ (op = Inject \/ op = History)
  BY <1>1, <1>3 DEF WindowOps, PostEval, Inject, History
<1>5. todo' = [todo EXCEPT ![d] = q]
  BY DEF PostEval, Done, TypeInv, TodosOK
<1>6. UNCHANGED <<sessionVars, tabs, current, savesOverlap>>
  BY DEF PostEval
<1>7. Clean' = Clean
  BY <1>6, CleanSame DEF sessionVars
<1>8. CASE d \in Callers /\ Acting(d)
  <2>1. Alone({d}) /\ Still /\ loads = 0 /\ Form(todo[d])
    BY <1>8 DEF Acting
  <2>2. q = <<>> /\ Agrees /\ Clean
    BY <1>1, <1>2, <2>1, FormHead
  <2>3. CASE op = Inject
    <3>1. Still' /\ UNCHANGED <<page, loads>>
      BY <1>4, <2>1, <2>3, Posts DEF TypeInv
    <3>2. Form(q)'
      BY <1>6, <1>7, <2>2, <3>1 DEF Form, Agrees
    <3>3. Phase'
      BY <1>5, <1>8, <2>1, <3>1, <3>2, ToActing
    <3> QED
      BY <1>1, <1>2, <1>5, <1>6, <2>2, <3>3, SavesNowKept
  <2>4. CASE op = History
    <3>1. Left(q, <<>>)
      BY <2>2 DEF Left
    <3>2. op \in {History, LoadSource} /\ x.do # "write"
      BY <1>2, <2>4
    <3> QED
      BY <1>1, <1>4, <1>5, <1>6, <1>8, <2>1, <2>2, <3>1, <3>2, PostedCalm
  <2> QED
    BY <1>4, <2>3, <2>4
<1>9. ASSUME d \in Loaders, NEW c \in Callers, Handled(c, d) PROVE Phase' /\ SavesNow' /\ OpenNow'
  <2>1. Alone({c, d}) /\ Still /\ loads = 0 /\ Left(todo[c], <<>>)
    BY <1>9 DEF Handled
  <2>2. todo[d] = <<Notify>> /\ Agrees /\ (todo[c] = <<>> => Clean)
    BY <1>1, <1>2, <1>9, HandledHead
  <2>3. q = <<>> /\ op = Inject
    BY <1>1, <2>2, NotifyList DEF Inject
  <2>4. Still' /\ UNCHANGED <<page, loads>>
    BY <1>4, <2>1, <2>3, Posts DEF TypeInv
  <2>5. c # d /\ c \in Threads
    BY <1>9, TabShellAssumption DEF Threads
  <2>6. todo'[c] = todo[c] /\ Alone({c})'
    <3>1. todo'[d] = <<>> /\ \A e \in Threads \ {d} : todo'[e] = todo[e]
      BY <1>5, <2>3, AloneStill
    <3> QED
      BY <2>1, <2>5, <3>1 DEF Alone
  <2> PICK p : p = todo[c]
    OBVIOUS
  <2>7. Form(p)'
    <3>1. Agrees'
      BY <1>6, <2>2, <2>4 DEF Agrees
    <3>2. CASE p = <<>>
      BY <1>7, <2>2, <3>1, <3>2 DEF Form
    <3>3. CASE Saves(p, <<>>)
      BY <3>1, <3>3 DEF Form
    <3> QED
      BY <2>1, <3>2, <3>3 DEF Left
  <2>8. Phase'
    BY <1>9, <2>1, <2>4, <2>6, <2>7 DEF Phase, Acting
  <2> QED
    BY <1>1, <1>2, <1>5, <1>6, <2>3, <2>8, SavesNowKept
<1> QED
  BY <1>1, <1>8, <1>9, MovingStep

LEMMA FetchSourceCalm ==
  ASSUME TypeInv, Phase, SavesNow, OpenNow, NEW d \in Threads, FetchSource(d)
  PROVE  Phase' /\ SavesNow' /\ OpenNow'
<1>1. todo[d] # <<>> /\ Head(todo[d]).do = "fetch" /\ Head(todo[d]).do \in LeadKinds
  BY DEF FetchSource, At, LeadKinds
<1>2. d \in Callers /\ Alone({d}) /\ Still /\ loads = 0 /\ Tail(todo[d]) = <<>> /\ Agrees /\ Clean
  BY <1>1, LeadStep
<1>3. UNCHANGED <<sessionVars, tabs, current, savesOverlap>>
  BY DEF FetchSource
<1>4. CASE Then(d, <<Notify>>) /\ UNCHANGED navVars
  <2>1. todo' = [todo EXCEPT ![d] = <<Notify>>]
    <3>1. <<Notify>> \o <<>> = <<Notify>>
      OBVIOUS
    <3> QED
      BY <1>2, <1>4, <3>1 DEF Then, TypeInv, TodosOK
  <2>2. UNCHANGED <<queue, nav, working, page, loads>>
    BY <1>4 DEF navVars
  <2>3. Agrees' /\ Clean'
    BY <1>2, <1>3, <2>2, FactsSame, CleanSame DEF sessionVars
  <2>4. Form(<<Notify>>)' /\ Head(<<Notify>>).do \notin {"save", "write", "replace"}
    BY <2>3, NotifyList DEF Form
  <2> QED
    BY <1>1, <1>3, <1>4, <2>1, <2>4, LeadCalm
<1>5. CASE Post([do |-> "load_html", arg |-> SourceView]) /\ Done(d)
  <2>1. Post(LoadSource) /\ LoadSource \in WindowOps
    BY <1>5 DEF LoadSource, WindowOps
  <2>2. todo' = [todo EXCEPT ![d] = <<>>]
    BY <1>2, <1>5 DEF Done, TypeInv, TodosOK
  <2>3. Left(<<>>, <<>>) /\ Head(todo[d]).do # "write" /\ LoadSource \in {History, LoadSource}
    BY <1>1 DEF Left
  <2> QED
    BY <1>1, <1>2, <1>3, <2>1, <2>2, <2>3, PostedCalm
<1> QED
  BY <1>4, <1>5 DEF FetchSource
-----------------------------------------------------------------------------
(* The calls, once everything before them is done.                         *)

Begins(c) ==
  \E q : /\ todo' = [todo EXCEPT ![c] = q] /\ Form(q)'
         /\ q = <<>> \/ Head(q).do \notin {"save", "write", "replace"}

\* A call that leaves the tabs as they are, by its first step.
LEMMA SteadyBegins ==
  ASSUME Agrees, Clean, UNCHANGED <<page, tabs, current, sessionFile, savesOverlap>>,
         NEW c, NEW q, todo' = [todo EXCEPT ![c] = q],
         \/ q = <<>>
         \/ \E x : q = <<x>> /\ x.do \in {"tool", "open", "append", "fetch", "eval"}
  PROVE  Begins(c)
<1>1. Agrees' /\ Clean'
  <2>1. Agrees'
    BY DEF Agrees
  <2> QED
    BY <2>1, CleanSame
<1>2. CASE q = <<>>
  BY <1>1, <1>2 DEF Begins, Form
<1>3. ASSUME NEW x, q = <<x>>, x.do \in {"tool", "open", "append", "fetch", "eval"} PROVE Begins(c)
  <2>1. q # <<>> /\ Head(q) = x /\ Tail(q) = <<>>
    BY <1>3, Single
  <2>2. Form(q)'
    BY <1>1, <1>3, <2>1 DEF Form
  <2> QED
    BY <1>3, <2>1, <2>2 DEF Begins
<1> QED
  BY <1>2, <1>3

\* A call that only saves, by the page of the tab it leaves current.
LEMMA SavingBegins ==
  ASSUME NEW c, todo' = [todo EXCEPT ![c] = <<Persist>>], Agrees'
  PROVE  Begins(c)
<1>1. Saves(<<Persist>>, <<>>) /\ Head(<<Persist>>).do = "persist"
  <2>1. Persist.do = "persist"
    BY DEF Persist
  <2> QED
    BY <2>1, PersistList, Single, Zenon
<1>2. Form(<<Persist>>)'
  BY <1>1 DEF Form
<1> QED
  BY <1>1, <1>2 DEF Begins

\* A call that loads.
LEMMA LoadBegins ==
  ASSUME NEW c, NEW url \in Urls, todo' = [todo EXCEPT ![c] = <<Load(url)>>]
  PROVE  Begins(c)
<1>1. <<Load(url)>> = <<CheckedLoad(url, FALSE)>> /\ Head(<<CheckedLoad(url, FALSE)>>).do = "load"
  BY LoadList DEF Load
<1>2. Form(<<Load(url)>>)'
  BY <1>1 DEF Form, Left
<1> QED
  BY <1>1, <1>2 DEF Begins

LEMMA MoveTabBegins ==
  ASSUME TabsOK, Agrees, Clean, UNCHANGED <<page, sessionFile, savesOverlap>>,
         NEW c, NEW from, NEW to, MoveTab(c, from, to)
  PROVE  Begins(c)
<1>1. CASE Returns(c)
  BY <1>1, SteadyBegins DEF Returns
<1>2. CASE ~Returns(c)
  <2> PICK t : t = MoveTarget(tabs, from, to)
    OBVIOUS
  <2>1. /\ from \in DOMAIN tabs /\ to \in DOMAIN tabs
        /\ tabs' = Moved(tabs, from, t)
        /\ current' = MovedIndex(current, from, t)
        /\ todo' = [todo EXCEPT ![c] = <<Persist>>]
    BY <1>2 DEF MoveTab
  <2>2. tabs'[current'] = tabs[current]
    BY <2>1, MovedFollows DEF TabsOK
  <2>3. Agrees'
    BY <2>2 DEF Agrees
  <2> QED
    BY <2>1, <2>3, SavingBegins
<1> QED
  BY <1>1, <1>2

LEMMA CloseTabBegins ==
  ASSUME Agrees, Clean, UNCHANGED <<page, sessionFile, savesOverlap>>,
         NEW c, NEW i, CloseTab(c, i)
  PROVE  Begins(c)
<1>1. CASE Returns(c)
  BY <1>1, SteadyBegins DEF Returns
<1>2. CASE ~Returns(c)
  <2> PICK url : url = tabs'[current'].url
    OBVIOUS
  <2>1. todo' = [todo EXCEPT ![c] = <<Load(url), Persist>>]
    BY <1>2 DEF CloseTab
  <2>2. Form(<<Load(url), Persist>>)'
    BY DEF Form
  <2>3. Head(<<Load(url), Persist>>).do = "load"
    BY ClosedList
  <2> QED
    BY <2>1, <2>2, <2>3 DEF Begins
<1> QED
  BY <1>1, <1>2

LEMMA SwitchTabBegins ==
  ASSUME TabsOK, NEW c, NEW i, SwitchTab(c, i)
  PROVE  Begins(c)
<1> PICK url : url = tabs[i].url
  OBVIOUS
<1>1. url \in Urls /\ todo' = [todo EXCEPT ![c] = <<Persist, Load(url)>>]
  BY TabUrl DEF TabsOK, SwitchTab
<1>2. <<Persist, Load(url)>> = <<Persist, CheckedLoad(url, FALSE)>>
  BY DEF Load
<1> PICK q : q = <<Persist, CheckedLoad(url, FALSE)>>
  OBVIOUS
<1>3. Left(q, <<CheckedLoad(url, FALSE)>>) /\ Head(q).do = "persist"
  <2>1. Persist.do = "persist"
    BY DEF Persist
  <2>2. Left(q, <<CheckedLoad(url, FALSE)>>)
    BY PersistList DEF Left
  <2> QED
    BY <2>1, <2>2
<1>4. Form(q)'
  BY <1>1, <1>3 DEF Form
<1> QED
  BY <1>1, <1>2, <1>3, <1>4 DEF Begins

\* A pin of the current tab itself: it stays current wherever it goes.
LEMMA SetPinnedBegins ==
  ASSUME TabsOK, Agrees, Clean, UNCHANGED <<page, sessionFile, savesOverlap>>,
         NEW c, NEW pinned \in BOOLEAN, SetPinned(c, current, pinned)
  PROVE  Begins(c)
<1>1. CASE Returns(c)
  BY <1>1, SteadyBegins DEF Returns
<1>2. CASE ~Returns(c)
  <2> PICK i, flipped : i = current /\ flipped = [tabs EXCEPT ![i].pinned = pinned]
    OBVIOUS
  <2>1. /\ i \in DOMAIN tabs
        /\ tabs' = Reordered(flipped)
        /\ current' = ReorderedIndex(flipped, i)
        /\ todo' = [todo EXCEPT ![c] = <<Persist>>]
    BY <1>2 DEF SetPinned
  <2>2. flipped \in Seq(Tabs) /\ i \in DOMAIN flipped /\ flipped[i].url = tabs[i].url
    <3>1. tabs \in Seq(Tabs) /\ i \in 1..Len(tabs) /\ tabs[i] \in Tabs
      BY <2>1 DEF TabsOK, TabListOK
    <3> PICK x : x = [tabs[i] EXCEPT !.pinned = pinned]
      OBVIOUS
    <3>2. x \in Tabs /\ x.url = tabs[i].url
      BY <3>1 DEF Tabs
    <3>3. flipped = [tabs EXCEPT ![i] = x]
      BY <3>1
    <3> QED
      BY <3>1, <3>2, <3>3
  <2>3. tabs'[current'].url = tabs[i].url
    BY <2>1, <2>2, ReorderedFollows
  <2>4. Agrees'
    BY <2>3 DEF Agrees
  <2> QED
    BY <2>1, <2>4, SavingBegins
<1> QED
  BY <1>1, <1>2

LEMMA NavigateBegins ==
  ASSUME Agrees, Clean, UNCHANGED <<page, sessionFile, savesOverlap>>,
         NEW c, NEW url \in Urls, NEW agent \in BOOLEAN, Navigate(c, url, agent)
  PROVE  Begins(c)
<1>1. CASE IsNavigationSafe(url)
  <2> PICK q : q = <<Update(url), Persist, CheckedLoad(url, agent)>>
    OBVIOUS
  <2>1. todo' = [todo EXCEPT ![c] = q]
    BY <1>1 DEF Navigate
  <2>2. Head(q).do = "update"
    BY NavigateList
  <2>3. Form(q)'
    BY DEF Form
  <2> QED
    BY <2>1, <2>2, <2>3 DEF Begins
<1>2. CASE ~IsNavigationSafe(url)
  <2>1. todo' = [todo EXCEPT ![c] = <<Notify>>] /\ Notify.do = "eval"
    BY <1>2, NotifyList DEF Navigate
  <2>2. UNCHANGED <<tabs, current>>
    BY DEF Navigate
  <2> QED
    BY <2>1, <2>2, SteadyBegins
<1> QED
  BY <1>1, <1>2

LEMMA NewTabBegins ==
  ASSUME Agrees, Clean, UNCHANGED <<page, sessionFile, savesOverlap>>,
         NEW c, NEW url, NEW agent, NewTab(c, url, agent)
  PROVE  Begins(c)
<1>1. PICK x : /\ todo' = [todo EXCEPT ![c] = <<x>>]
               /\ x \in {Notify, [do |-> "open", url |-> url, agent |-> agent]}
  BY DEF NewTab
<1>2. x.do \in {"eval", "open"}
  BY <1>1, NotifyList
<1>3. UNCHANGED <<tabs, current>>
  BY DEF NewTab
<1> QED
  BY <1>1, <1>2, <1>3, SteadyBegins

LEMMA ViewSourceBegins ==
  ASSUME Agrees, Clean, UNCHANGED <<page, sessionFile, savesOverlap>>, NEW c, ViewSource(c)
  PROVE  Begins(c)
<1>1. PICK x : /\ todo' = [todo EXCEPT ![c] = <<x>>]
               /\ x \in {Notify, [do |-> "fetch", url |-> CurrentUrl]}
  BY DEF ViewSource
<1>2. x.do \in {"eval", "fetch"}
  BY <1>1, NotifyList
<1>3. UNCHANGED <<tabs, current>>
  BY DEF ViewSource
<1> QED
  BY <1>1, <1>2, <1>3, SteadyBegins

LEMMA RestoreSessionBegins ==
  ASSUME TabsOK, FilesOK, Agrees, Clean, UNCHANGED <<page, sessionFile, savesOverlap>>,
         NEW c, RestoreSession(c)
  PROVE  Begins(c)
<1>1. CASE ~IsTrustedSource \/ SavedSession(agentActive) = NoSession
  <2>1. todo' = [todo EXCEPT ![c] = <<Notify>>] /\ Notify.do = "eval" /\ UNCHANGED <<tabs, current>>
    BY <1>1, NotifyList DEF RestoreSession
  <2> QED
    BY <2>1, SteadyBegins
<1>2. CASE ~(~IsTrustedSource \/ SavedSession(agentActive) = NoSession)
  <2> PICK data : data = SavedSession(agentActive)
    OBVIOUS
  <2>1. data \in Usable
    BY <1>2, SavedSessionOK DEF FilesOK, TabsOK
  <2>2. data.tabs[data.current].url \in Urls
    BY <2>1, TabUrl DEF Usable, GoodSessions, Sessions, TabListOK
  <2>3. todo' = [todo EXCEPT ![c] = <<Load(data.tabs[data.current].url)>>]
    BY <1>2 DEF RestoreSession
  <2> QED
    BY <2>2, <2>3, LoadBegins
<1> QED
  BY <1>1, <1>2

LEMMA MethodBegins ==
  ASSUME TabsOK, FilesOK, Agrees, Clean, UNCHANGED <<page, sessionFile, savesOverlap>>,
         NEW c, NEW agent \in BOOLEAN, NEW m, NEW a, m \in UrlMethods => a \in Urls,
         Method(c, m, a, agent), ~Disturbs(m, a)
  PROVE  Begins(c)
<1>1. CASE m = "move_tab" /\ \E from, to \in DOMAIN tabs : MoveTab(c, from, to)
  BY <1>1, MoveTabBegins
<1>2. CASE CloseCurrentTab(c)
  BY <1>2, CloseTabBegins DEF CloseCurrentTab
<1>3. CASE CloseTab(c, a)
  BY <1>3, CloseTabBegins
<1>4. CASE SwitchTab(c, a)
  BY <1>4, SwitchTabBegins
<1>5. CASE m = "pin_tab" /\ PinTab(c, a)
  <2>1. SetPinned(c, current, TRUE)
    BY <1>5 DEF PinTab, Disturbs
  <2> QED
    BY <2>1, SetPinnedBegins
<1>6. CASE m = "unpin_tab" /\ UnpinTab(c, a)
  <2>1. SetPinned(c, current, FALSE)
    BY <1>6 DEF UnpinTab, Disturbs
  <2> QED
    BY <2>1, SetPinnedBegins
<1>7. CASE SetTabGroup(c, a)
  <2>1. todo' = [todo EXCEPT ![c] = <<Persist>>] /\ Agrees'
    BY <1>7 DEF SetTabGroup, Agrees
  <2> QED
    BY <2>1, SavingBegins
<1>8. CASE NewTab(c, a, agent)
  BY <1>8, NewTabBegins
<1>9. CASE m = "navigate" /\ Navigate(c, a, agent)
  BY <1>9, NavigateBegins DEF UrlMethods
<1>10. CASE GoBack(c)
  <2> PICK x : x = [do |-> "eval", what |-> "history"]
    OBVIOUS
  <2>1. todo' = [todo EXCEPT ![c] = <<x>>] /\ x.do = "eval" /\ UNCHANGED <<tabs, current>>
    BY <1>10 DEF GoBack
  <2> QED
    BY <2>1, SteadyBegins
<1>11. CASE GoHome(c)
  <2>1. Start \in Urls
    BY TabShellAssumption DEF Urls
  <2> QED
    BY <1>11, <2>1, LoadBegins DEF GoHome
<1>12. CASE RestoreSession(c)
  BY <1>12, RestoreSessionBegins
<1>13. CASE ViewSource(c)
  BY <1>13, ViewSourceBegins
<1>14. CASE CloseSourceView(c)
  <2>1. CASE sourceReturn = NoUrl
    <3>1. todo' = [todo EXCEPT ![c] = <<>>] /\ UNCHANGED <<tabs, current>>
      BY <1>14, <2>1 DEF CloseSourceView
    <3> QED
      BY <3>1, SteadyBegins
  <2>2. CASE sourceReturn # NoUrl
    <3>1. sourceReturn \in Urls /\ todo' = [todo EXCEPT ![c] = <<Load(sourceReturn)>>]
      BY <1>14, <2>2 DEF CloseSourceView, TabsOK
    <3> QED
      BY <3>1, LoadBegins
  <2> QED
    BY <2>1, <2>2
<1> QED
  BY <1>1, <1>2, <1>3, <1>4, <1>5, <1>6, <1>7, <1>8, <1>9, <1>10, <1>11, <1>12, <1>13, <1>14
  DEF Method

LEMMA Begun ==
  ASSUME TypeInv, SavesNow, OpenNow, NEW d \in Callers, todo[d] = <<>> \/ Head(todo[d]).do # "write",
         Alone({d}), Still, loads = 0, Begins(d), UNCHANGED <<navVars, sessionVars, savesOverlap>>
  PROVE  Phase' /\ SavesNow' /\ OpenNow'
<1>1. PICK q : /\ todo' = [todo EXCEPT ![d] = q] /\ Form(q)'
               /\ q = <<>> \/ Head(q).do \notin {"save", "write", "replace"}
  BY DEF Begins
<1>2. UNCHANGED <<queue, nav, working, loads>> /\ d \in Threads
  BY DEF navVars, Threads
<1>3. Still' /\ loads' = 0
  BY <1>2, FlightSame
<1>4. Phase'
  BY <1>1, <1>3, ToActing
<1> QED
  BY <1>1, <1>2, <1>4, SavesNowKept

LEMMA CallCalm ==
  ASSUME TypeInv, CalmInv, NEW c \in Callers, Call(c)
  PROVE  CalmInv'
<1> SUFFICES ASSUME calm' PROVE late' = {} /\ Phase' /\ SavesNow' /\ OpenNow'
  BY DEF CalmInv
<1>0. PICK m \in IndexMethods \cup UrlMethods \cup PlainMethods : \E a \in Args(m) :
        Method(c, m, a, FALSE) /\ calm' = (calm /\ Settled /\ ~Disturbs(m, a))
  BY DEF Call
<1>1. PICK a \in Args(m) :
        Method(c, m, a, FALSE) /\ calm' = (calm /\ Settled /\ ~Disturbs(m, a))
  BY <1>0
<1>2. calm /\ Settled /\ ~Disturbs(m, a)
  BY <1>1
<1>3. late = {} /\ Phase /\ SavesNow /\ OpenNow
  BY <1>2 DEF CalmInv
<1>4. Agrees /\ Clean /\ Still /\ loads = 0 /\ \A d \in Threads : todo[d] = <<>>
  BY <1>2, <1>3, SettledPhase
<1>5. m \in UrlMethods => a \in Urls
  BY <1>1 DEF Args, UrlMethods, IndexMethods
<1>6. UNCHANGED <<navVars, sessionVars, savesOverlap>> /\ UNCHANGED <<page, sessionFile, late>>
  BY DEF Call, navVars, sessionVars
<1>7. Begins(c)
  BY <1>1, <1>2, <1>4, <1>5, <1>6, MethodBegins DEF TypeInv
<1>8. todo[c] = <<>> /\ Alone({c})
  BY <1>4 DEF Alone, Threads
<1> QED
  BY <1>3, <1>4, <1>6, <1>7, <1>8, Begun

LEMMA HandleRequestCalm ==
  ASSUME TypeInv, CalmInv, NEW c \in Callers, HandleRequest(c)
  PROVE  CalmInv'
<1> SUFFICES ASSUME calm' PROVE late' = {} /\ Phase' /\ SavesNow' /\ OpenNow'
  BY DEF CalmInv
<1>1. calm /\ Settled
  BY DEF HandleRequest
<1>2. late = {} /\ Phase /\ SavesNow /\ OpenNow
  BY <1>1 DEF CalmInv
<1>3. Agrees /\ Clean /\ Still /\ loads = 0 /\ \A d \in Threads : todo[d] = <<>>
  BY <1>1, <1>2, SettledPhase
<1>4. PICK x : x.do = "tool" /\ todo' = [todo EXCEPT ![c] = <<x>>]
  <2>1. PICK m \in AgentTools : \E a \in Args(m) :
          todo' = [todo EXCEPT ![c] = <<[do |-> "tool", method |-> m, arg |-> a]>>]
    BY DEF HandleRequest
  <2> QED
    BY <2>1
<1>5. /\ UNCHANGED <<navVars, sessionVars, savesOverlap>>
      /\ UNCHANGED <<page, tabs, current, sessionFile, late>>
  BY DEF HandleRequest, navVars, sessionVars
<1>6. Begins(c)
  BY <1>3, <1>4, <1>5, SteadyBegins
<1>7. todo[c] = <<>> /\ Alone({c})
  BY <1>3 DEF Alone, Threads
<1> QED
  BY <1>2, <1>3, <1>5, <1>6, <1>7, Begun

LEMMA RunToolCalm ==
  ASSUME TypeInv, CalmInv, NEW d \in Threads, RunTool(d)
  PROVE  CalmInv'
<1> SUFFICES ASSUME calm' PROVE late' = {} /\ Phase' /\ SavesNow' /\ OpenNow'
  BY DEF CalmInv
<1> PICK x : x = Now(d)
  OBVIOUS
<1>1. calm /\ ~Disturbs(x.method, x.arg)
  BY DEF RunTool
<1>2. late = {} /\ Phase /\ SavesNow /\ OpenNow
  BY <1>1 DEF CalmInv
<1>3. todo[d] # <<>> /\ Head(todo[d]).do = "tool" /\ x = Head(todo[d]) /\ x \in ToolSteps
  BY HeadNow, TodoHead DEF RunTool
<1>4. d \in Callers /\ Alone({d}) /\ Still /\ loads = 0 /\ Tail(todo[d]) = <<>> /\ Agrees /\ Clean
  <2>1. Head(todo[d]).do \in LeadKinds
    BY <1>3 DEF LeadKinds
  <2> QED
    BY <1>2, <1>3, <2>1, LeadStep
<1>5. UNCHANGED <<navVars, sessionVars, savesOverlap>> /\ UNCHANGED <<page, sessionFile, late>>
  BY DEF RunTool, navVars, sessionVars
<1>6. CASE Method(d, x.method, x.arg, TRUE)
  <2>1. x.method \in UrlMethods => x.arg \in Urls
    BY <1>3 DEF ToolSteps
  <2>2. Begins(d)
    BY <1>1, <1>4, <1>5, <1>6, <2>1, MethodBegins DEF TypeInv
  <2> QED
    BY <1>2, <1>3, <1>4, <1>5, <2>2, Begun
<1>7. CASE Done(d) /\ UNCHANGED <<tabs, current>>
  <2>1. todo' = [todo EXCEPT ![d] = <<>>]
    BY <1>4, <1>7 DEF Done, TypeInv, TodosOK
  <2>2. Begins(d)
    BY <1>4, <1>5, <1>7, <2>1, SteadyBegins
  <2> QED
    BY <1>2, <1>3, <1>4, <1>5, <2>2, Begun
<1> QED
  BY <1>6, <1>7 DEF RunTool
-----------------------------------------------------------------------------
(* The window, the queue and the process.                                  *)

LEMMA SavesSame ==
  ASSUME UNCHANGED <<todo, tabs, current, sessionVars, savesOverlap>>
  PROVE  SavesNow' = SavesNow /\ OpenNow' = OpenNow
<1>1. Snapshot' = Snapshot /\ Sanitized(Snapshot)' = Sanitized(Snapshot)
  BY DEF Snapshot, Sanitized
<1>2. UNCHANGED <<tmpFile, tmpThere, tmpOpen>>
  BY DEF sessionVars
<1>3. \A d, k : At(d, k)' = At(d, k) /\ Now(d)' = Now(d)
  BY DEF At, Now
<1> QED
  BY <1>1, <1>2, <1>3 DEF SavesNow, OpenNow

LEMMA BrowseCalm ==
  ASSUME TypeInv, CalmInv, NEW url \in Urls, Browse(url)
  PROVE  CalmInv'
<1> SUFFICES ASSUME calm' PROVE late' = {} /\ Phase' /\ SavesNow' /\ OpenNow'
  BY DEF CalmInv
<1>1. calm /\ Settled
  BY DEF Browse
<1>2. late = {} /\ Phase /\ SavesNow /\ OpenNow
  BY <1>1 DEF CalmInv
<1>3. Still /\ loads = 0 /\ \A d \in Threads : todo[d] = <<>>
  BY <1>1, <1>2, SettledPhase
<1>4. /\ page' = url /\ loads' = loads + 1
      /\ UNCHANGED <<queue, nav, working, late>>
      /\ UNCHANGED <<todo, tabs, current, sessionVars, savesOverlap>>
  BY DEF Browse
<1>5. PICK c \in Callers : TRUE
  BY TabShellAssumption
<1>6. Raised(c)'
  <2>1. Still' /\ loads' = 1 /\ page' # SourceView
    <3>1. Still'
      BY <1>3, <1>4, FlightSame
    <3> QED
      BY <1>3, <1>4, <3>1 DEF Urls
  <2>2. todo'[c] = <<>> /\ Alone({c})' /\ Left(<<>>, <<>>)
    BY <1>3, <1>4 DEF Alone, Threads, Left
  <2> QED
    BY <2>1, <2>2 DEF Raised
<1> QED
  BY <1>2, <1>4, <1>6, SavesSame DEF Phase

LEMMA OneBehind ==
  ASSUME NEW x, NEW y, NEW z
  PROVE  <<x, y>> \o <<z>> = <<x, y, z>>
<1> PICK V : V = {x, y, z}
  OBVIOUS
<1>1. <<x, y>> \in Seq(V) /\ <<z>> \in Seq(V) /\ <<x, y, z>> \in Seq(V)
  OBVIOUS
<1> PICK r : r = <<x, y>> \o <<z>>
  OBVIOUS
<1>2. r \in Seq(V) /\ Len(r) = 3 /\ r[1] = x /\ r[2] = y /\ r[3] = z
  BY <1>1
<1> PICK t : t = <<x, y, z>>
  OBVIOUS
<1>3. t \in Seq(V) /\ Len(t) = 3 /\ t[1] = x /\ t[2] = y /\ t[3] = z
  BY <1>1
<1>4. Len(r) = Len(t) /\ \A i \in 1..Len(r) : r[i] = t[i]
  BY <1>2, <1>3
<1>5. r = t
  BY <1>2, <1>3, <1>4, SameList, Zenon
<1> QED
  BY <1>5

\* The handler takes the loaded event of the only chain there is.
LEMMA OnLoadedCalm ==
  ASSUME TypeInv, CalmInv, NEW l \in Loaders, OnLoaded(l)
  PROVE  CalmInv'
<1> SUFFICES ASSUME calm' PROVE late' = {} /\ Phase' /\ SavesNow' /\ OpenNow'
  BY DEF CalmInv
<1>1. late = {} /\ Phase /\ SavesNow /\ OpenNow
  BY DEF CalmInv, OnLoaded
<1>2. /\ loads > 0 /\ loads' = loads - 1 /\ todo[l] = <<>>
      /\ UNCHANGED <<queue, nav, working, late, page>>
      /\ UNCHANGED <<tabs, current, sessionVars, savesOverlap>>
  BY DEF OnLoaded, Idle
<1>3. PICK c \in Callers : Raised(c)
  <2>1. loads # 0
    BY <1>2
  <2> QED
    BY <1>1, <2>1 DEF Phase, Acting, Posted, Handled
<1>4. /\ Alone({c}) /\ Still /\ loads = 1 /\ Left(todo[c], <<>>)
      /\ todo[c] # <<>> => page = tabs[current].url
      /\ page = SourceView => Clean
  BY <1>3 DEF Raised
<1> PICK q : q = (IF CurrentUrl = NoUrl THEN <<>> ELSE <<Update(CurrentUrl), Persist>>) \o <<Notify>>
  OBVIOUS
<1>5. todo' = [todo EXCEPT ![l] = q] /\ l \in Threads /\ c \in Threads /\ c # l
  BY TabShellAssumption DEF OnLoaded, Threads
<1>6. /\ page = SourceView => q = <<Notify>>
      /\ page # SourceView => q = <<Update(page), Persist, Notify>> /\ page \in Urls
  <2>1. CASE page = SourceView
    <3>1. CurrentUrl = NoUrl
      BY <2>1 DEF CurrentUrl
    <3>2. <<>> \o <<Notify>> = <<Notify>>
      OBVIOUS
    <3> QED
      BY <2>1, <3>1, <3>2
  <2>2. CASE page # SourceView
    <3>1. page \in Pages
      BY DEF TypeInv, NavInv, NavTypeOK
    <3>2. CurrentUrl = page /\ page # NoUrl /\ page \in Urls
      BY <2>2, <3>1, TabShellAssumption DEF CurrentUrl, Urls
    <3> QED
      BY <2>2, <3>2, OneBehind
  <2> QED
    BY <2>1, <2>2
<1>7. Still' /\ Clean' = Clean
  BY <1>2, <1>4, FlightSame, CleanSame DEF sessionVars
<1>8. todo'[l] = q /\ todo'[c] = todo[c] /\ Alone({c, l})'
  <2>1. todo'[l] = q /\ \A e \in Threads \ {l} : todo'[e] = todo[e]
    BY <1>5, AloneStill
  <2> QED
    BY <1>4, <1>5, <2>1 DEF Alone
<1>9. loads' = 0
  BY <1>2, <1>4
<1>10. Handled(c, l)'
  <2>1. \/ todo'[l] = <<Update(page'), Persist, Notify>> /\ page' \in Urls
        \/ page' = SourceView /\ todo'[l] = <<Notify>> /\ Clean'
    BY <1>2, <1>4, <1>6, <1>7, <1>8
  <2>2. Left(todo[c], <<>>)' /\ (todo[c] # <<>> => page = tabs[current].url)'
    <3>1. Left(todo'[c], <<>>)
      BY <1>4, <1>8
    <3>2. Left(todo'[c], <<>>) <=> Left(todo[c], <<>>)'
      BY DEF Left, Saves
    <3> QED
      BY <1>2, <1>4, <1>8, <3>1, <3>2
  <2>3. Alone({c, l})' /\ Still' /\ loads' = 0
    BY <1>4, <1>7, <1>8, <1>9
  <2> QED
    BY <2>1, <2>2, <2>3 DEF Handled
<1>11. Head(q).do \notin {"save", "write", "replace"}
  <2>1. q = <<Notify>> \/ q = <<Update(page), Persist, Notify>>
    BY <1>6
  <2>2. Head(<<Notify>>).do = "eval"
    BY NotifyList, Zenon
  <2>3. Head(<<Update(page), Persist, Notify>>).do = "update"
    BY NavigateList, Zenon
  <2> QED
    BY <2>1, <2>2, <2>3
<1>12. SavesNow' /\ OpenNow'
  BY <1>1, <1>2, <1>5, <1>11, SavesNowKept
<1> QED
  BY <1>1, <1>2, <1>10, <1>12 DEF Phase

\* A turn that moves nothing leaves the phase as it is.
LEMMA StillTurn ==
  ASSUME NEW c \in Callers, Still', UNCHANGED <<page, loads, todo, tabs, current, sessionFile, savesOverlap>>
  PROVE  /\ Acting(c) => Acting(c)'
         /\ Raised(c) => Raised(c)'
         /\ \A l \in Loaders : Handled(c, l) => Handled(c, l)'
<1>1. Clean' = Clean /\ Agrees' = Agrees /\ \A S : Alone(S)' = Alone(S)
  <2>1. Clean' = Clean
    BY CleanSame
  <2> QED
    BY <2>1 DEF Agrees, Alone
<1>2. Form(todo[c]) => Form(todo[c])'
  BY <1>1 DEF Form
<1>3. Acting(c) => Acting(c)'
  BY <1>1, <1>2 DEF Acting
<1>4. Raised(c) => Raised(c)'
  BY <1>1 DEF Raised
<1>5. ASSUME NEW l \in Loaders, Handled(c, l) PROVE Handled(c, l)'
  BY <1>1, <1>5 DEF Handled
<1> QED
  BY <1>3, <1>4, <1>5

\* What is in flight stays there or lands, and the window raises an event.
LEMMA PostedTurn ==
  ASSUME TypeInv, NavNext, late = {}, late' \subseteq late, watchdog = "drain" => queue = <<>>,
         UNCHANGED <<sessionFile, todo, tabs, current, savesOverlap>>,
         NEW c \in Callers, Posted(c)
  PROVE  Posted(c)' \/ Raised(c)'
<1>1. Alone({c})' /\ loads = 0 /\ Left(todo'[c], <<>>)
  BY DEF Posted, Alone
<1>2. Clean' = Clean
  BY CleanSame
<1>3. ASSUME NEW url \in Urls, InFlight(LoadOf(url)), todo[c] # <<>> => url = tabs[current].url
      PROVE  Posted(c)' \/ Raised(c)'
  <2>1. LoadOf(url) # Inject
    BY OpsDiffer
  <2>2. \/ InFlight(LoadOf(url))' /\ UNCHANGED <<page, loads>>
        \/ Still' /\ Apply(LoadOf(url))
    BY <1>3, <2>1, CalmTurn DEF TypeInv
  <2>3. CASE InFlight(LoadOf(url))' /\ UNCHANGED <<page, loads>>
    BY <1>1, <1>3, <2>3 DEF Posted
  <2>4. CASE Still' /\ Apply(LoadOf(url))
    <3>1. page' = url /\ loads' = 1 /\ url # SourceView
      BY <1>1, <2>4 DEF Apply, LoadOf, Urls
    <3> QED
      BY <1>1, <1>3, <2>4, <3>1 DEF Raised
  <2> QED
    BY <2>2, <2>3, <2>4
<1>4. ASSUME NEW op \in {History, LoadSource}, InFlight(op), todo[c] = <<>>, Clean
      PROVE  Posted(c)' \/ Raised(c)'
  <2>1. op # Inject
    BY <1>4, OpsDiffer
  <2>2. \/ InFlight(op)' /\ UNCHANGED <<page, loads>>
        \/ Still' /\ Apply(op)
    BY <1>4, <2>1, CalmTurn DEF TypeInv
  <2>3. CASE InFlight(op)' /\ UNCHANGED <<page, loads>>
    BY <1>1, <1>2, <1>4, <2>3 DEF Posted
  <2>4. CASE Still' /\ Apply(op)
    <3>1. loads' = 1
      BY <1>1, <2>4 DEF Apply, History, LoadSource
    <3> QED
      BY <1>1, <1>2, <1>4, <2>4, <3>1 DEF Raised
  <2> QED
    BY <2>2, <2>3, <2>4
<1> QED
  BY <1>3, <1>4 DEF Posted

LEMMA NavCalm ==
  ASSUME TypeInv, CalmInv, Nav
  PROVE  CalmInv'
<1> SUFFICES ASSUME calm' PROVE late' = {} /\ Phase' /\ SavesNow' /\ OpenNow'
  BY DEF CalmInv
<1>1. NavNext /\ calm /\ late' \subseteq late /\ (watchdog = "drain" => queue = <<>>)
  BY DEF Nav
<1>2. late = {} /\ Phase /\ SavesNow /\ OpenNow
  BY <1>1 DEF CalmInv
<1>3. /\ UNCHANGED <<sessionFile, todo, tabs, current, savesOverlap>>
      /\ UNCHANGED <<todo, tabs, current, sessionVars, savesOverlap>>
  BY DEF Nav, sessionVars
<1>4. late' = {} /\ (Still => Still' /\ UNCHANGED <<page, loads>>)
  <2>1. History # Inject
    BY OpsDiffer
  <2> QED
    BY <1>1, <1>2, <2>1, CalmTurn DEF TypeInv
<1>5. PICK c \in Callers : Acting(c) \/ Posted(c) \/ Raised(c) \/ \E l \in Loaders : Handled(c, l)
  BY <1>2 DEF Phase
<1>6. CASE Posted(c)
  BY <1>1, <1>2, <1>3, <1>4, <1>6, PostedTurn, SavesSame DEF Phase
<1>7. CASE Acting(c) \/ Raised(c) \/ \E l \in Loaders : Handled(c, l)
  <2>1. Still
    BY <1>7 DEF Acting, Raised, Handled
  <2>2. Still' /\ UNCHANGED <<page, loads, todo, tabs, current, sessionFile, savesOverlap>>
    BY <1>3, <1>4, <2>1
  <2>3. Phase'
    BY <1>7, <2>2, StillTurn DEF Phase
  <2> QED
    BY <1>2, <1>3, <1>4, <2>3, SavesSame
<1> QED
  BY <1>5, <1>6, <1>7

\* Steps that no phase speaks of.
LEMMA CalmKept ==
  ASSUME CalmInv, calm' = calm,
         UNCHANGED <<queue, nav, working, page, loads, late, tabs, current, todo, sessionVars, savesOverlap>>
  PROVE  CalmInv'
<1> SUFFICES ASSUME calm' PROVE late' = {} /\ Phase' /\ SavesNow' /\ OpenNow'
  BY DEF CalmInv
<1>1. late = {} /\ Phase /\ SavesNow /\ OpenNow
  BY DEF CalmInv
<1>2. Phase'
  BY <1>1, PhaseSame DEF sessionVars
<1> QED
  BY <1>1, <1>2, SavesSame

\* A process that has just started: its window loads the current tab's page.
Started ==
  /\ todo = [d \in Threads |-> <<>>] /\ queue = <<>> /\ nav = [t \in NavThreads |-> "none"]
  /\ late = {} /\ loads = 1 /\ page \in Urls /\ tmpOpen = {}

LEMMA StartedCalm == Started => CalmInv
<1> SUFFICES ASSUME Started PROVE CalmInv
  OBVIOUS
<1>1. PICK c \in Callers : TRUE
  BY TabShellAssumption
<1>2. \A d \in Threads : todo[d] = <<>>
  BY DEF Started
<1>3. Still
  BY DEF Started, Still, QueueStill, WorkStill
<1>4. Raised(c)
  <2>1. todo[c] = <<>> /\ Alone({c}) /\ Left(<<>>, <<>>)
    BY <1>2 DEF Alone, Threads, Left
  <2>2. page # SourceView
    BY DEF Started, Urls
  <2> QED
    BY <1>3, <2>1, <2>2 DEF Raised, Started
<1>5. SavesNow /\ OpenNow
  BY <1>2 DEF SavesNow, OpenNow, At, Started
<1> QED
  BY <1>4, <1>5 DEF CalmInv, Phase, Started

LEMMA StartedUrl ==
  ASSUME NEW s \in Usable
  PROVE  s.tabs[s.current].url \in Urls
<1>1. TabListOK(s.tabs) /\ s.current \in DOMAIN s.tabs
  BY DEF Usable, GoodSessions, Sessions, TabListOK
<1> QED
  BY <1>1, TabUrl

LEMMA InitCalm == Init => CalmInv
<1> SUFFICES ASSUME Init PROVE Started
  BY StartedCalm
<1>1. IInv
  BY InitIInv
<1> PICK s : s = FirstTabList
  OBVIOUS
<1>2. s \in Usable
  BY <1>1, FirstTabListOK DEF IInv, TypeInv, FilesOK
<1>3. tabs = s.tabs /\ current = s.current /\ page = tabs[current].url
  BY DEF Init
<1>4. page \in Urls
  BY <1>2, <1>3, StartedUrl
<1> QED
  BY <1>4 DEF Init, NavInit, SessionInit, Started

LEMMA RestartCalm ==
  ASSUME TypeInv, RestartShell
  PROVE  CalmInv'
<1> PICK s : s = FirstTabList
  OBVIOUS
<1>1. s \in Usable
  BY FirstTabListOK DEF TypeInv, FilesOK
<1>2. tabs' = s.tabs /\ current' = s.current /\ page' = tabs'[current'].url
  BY DEF RestartShell
<1>3. page' \in Urls
  BY <1>1, <1>2, StartedUrl
<1>4. Started'
  BY <1>3 DEF RestartShell, Started
<1>5. (Started => CalmInv)'
  BY StartedCalm, PTL
<1> QED
  BY <1>4, <1>5

\* The steps of threads that leave the calm to itself.
LEMMA StepCalm ==
  ASSUME IInv, CalmInv, NEW d \in Threads, ThreadStep(d)
  PROVE  CalmInv'
<1>1. CASE RunTool(d)
  BY <1>1, RunToolCalm DEF IInv
<1>2. CASE ~RunTool(d)
  <2> SUFFICES ASSUME calm' PROVE late' = {} /\ Phase' /\ SavesNow' /\ OpenNow'
    BY DEF CalmInv
  <2>1. calm' = calm /\ late' = late
    BY <1>2 DEF ThreadStep, OpenTab, AppendTab, UpdateCurrent, PersistSession, SaveSession,
                PostLoad, PostEval, FetchSource, Post, navVars
  <2>2. TypeInv /\ SavesApart /\ late' = {} /\ Phase /\ SavesNow /\ OpenNow
    BY <2>1 DEF CalmInv, IInv
  <2>3. CASE OpenTab(d)
    BY <2>2, <2>3, OpenTabCalm
  <2>4. CASE AppendTab(d)
    BY <2>2, <2>4, AppendTabCalm
  <2>5. CASE UpdateCurrent(d)
    BY <2>2, <2>5, UpdateCalm
  <2>6. CASE PersistSession(d)
    BY <2>2, <2>6, PersistCalm
  <2>7. CASE SaveSession(d)
    <3>1. UNCHANGED <<navVars, tabs, current>>
      BY <2>7 DEF SaveSession
    <3>2. CASE /\ At(d, "save") /\ SaveOpen(d)
               /\ Then(d, <<[Now(d) EXCEPT !.do = "write"], [do |-> "replace"]>>)
               /\ savesOverlap' = (savesOverlap \/ \E e \in Threads \ {d} : Saving(e))
      BY <2>2, <3>1, <3>2, SaveOpenCalm
    <3>3. CASE At(d, "write") /\ SaveWrite(d, Now(d).snap) /\ Done(d) /\ UNCHANGED savesOverlap
      BY <2>2, <3>1, <3>3, SaveWriteCalm
    <3>4. CASE At(d, "replace") /\ SaveReplace(d) /\ Done(d) /\ UNCHANGED savesOverlap
      BY <2>2, <3>1, <3>4, SaveReplaceCalm
    <3> QED
      BY <2>7, <3>2, <3>3, <3>4 DEF SaveSession
  <2>8. CASE PostLoad(d)
    BY <2>2, <2>8, PostLoadCalm
  <2>9. CASE PostEval(d)
    BY <2>2, <2>9, PostEvalCalm
  <2>10. CASE FetchSource(d)
    BY <2>2, <2>10, FetchSourceCalm
  <2> QED
    BY <1>2, <2>3, <2>4, <2>5, <2>6, <2>7, <2>8, <2>9, <2>10 DEF ThreadStep
<1> QED
  BY <1>1, <1>2

LEMMA CalmNext == IInv /\ CalmInv /\ [Next]_vars => CalmInv'
<1> SUFFICES ASSUME IInv, CalmInv, [Next]_vars PROVE CalmInv'
  OBVIOUS
<1>1. TypeInv
  BY DEF IInv
<1>2. CASE \E c \in Callers : Call(c) \/ HandleRequest(c)
  BY <1>1, <1>2, CallCalm, HandleRequestCalm
<1>3. CASE \E c \in Threads : ThreadStep(c)
  BY <1>3, StepCalm
<1>4. CASE \E l \in Loaders : OnLoaded(l)
  BY <1>1, <1>4, OnLoadedCalm
<1>5. CASE AgentExpires \/ RecentExpires
  BY <1>5, CalmKept DEF AgentExpires, RecentExpires, navVars
<1>6. CASE FollowLink \/ NewWindow
  BY <1>1, <1>6, BrowseCalm DEF FollowLink, NewWindow
<1>7. CASE Nav
  BY <1>1, <1>7, NavCalm
<1>8. CASE RestartShell
  BY <1>1, <1>8, RestartCalm
<1>9. CASE UNCHANGED vars
  BY <1>9, CalmKept DEF vars, tabVars, navVars
<1> QED
  BY <1>2, <1>3, <1>4, <1>5, <1>6, <1>7, <1>8, <1>9 DEF Next
-----------------------------------------------------------------------------
(* The theorems.                                                           *)

LEMMA IInvHolds == Spec => []IInv
<1> QED
  BY InitIInv, NextKeeps, PTL DEF Spec

\* Whatever calls, tools, loads and restarts overlap, the state keeps its type
\* and the index of the current tab is the index of a tab.
THEOREM ShellIsTyped == Spec => []TypeOK
<1>1. IInv => TypeOK
  BY TypeInvTypes DEF IInv
<1> QED
  BY <1>1, IInvHolds, PTL

\* The pinned tabs stay in front of the others, which the clamp of move_tab
\* counts on, and calls that pass the cap of new_tab together, outside the
\* lock, pass it by less than their number.
THEOREM TabsStayInOrder == Spec => []TabsInOrder
<1>1. IInv => TabsInOrder
  <2> SUFFICES ASSUME IInv PROVE TabsInOrder
    OBVIOUS
  <2>1. PinnedFirst
    BY DEF IInv, TypeInv, TabsOK, TabListOK, PinnedFirst
  <2> PICK O : O = Opening /\ O \subseteq Callers
    BY DEF Opening
  <2>2. Cardinality(O) \in Nat /\ Cardinality(Callers) \in Nat
    BY OpeningSize
  <2>3. Len(tabs) \in Nat /\ MaxTabs \in Nat
    BY TabShellAssumption DEF IInv, TypeInv, TabsOK, TabListOK
  <2>4. Len(tabs) + Cardinality(O) <= MaxTabs + Cardinality(Callers) - 1
    BY DEF IInv, RoomLeft
  <2>5. Len(tabs) <= MaxTabs + Cardinality(Callers) - 1
    BY <2>2, <2>3, <2>4
  <2> QED
    BY <2>1, <2>5 DEF TabsInOrder, TabsBounded
<1> QED
  BY <1>1, IInvHolds, PTL

\* navigate and new_tab check an agent's URL against its allowlist, and what
\* happens between the check and the load takes nothing from it: the load of a
\* URL off the list is never posted.
THEOREM AgentStaysConfined == Spec => []AgentConfined
<1>1. IInv => AgentConfined
  BY DEF IInv
<1> QED
  BY <1>1, IInvHolds, PTL

\* A session file that cannot be read takes two saves at once: whatever one save
\* writes, and wherever the process ends, session.json stays whole.
THEOREM OneSaveIsAtomic == Spec => []GarbledNeedsOverlap
<1>1. IInv => GarbledNeedsOverlap
  BY DEF IInv, SavesApart, GarbledNeedsOverlap
<1> QED
  BY <1>1, IInvHolds, PTL

LEMMA CalmHolds == Spec => []CalmInv
<1> QED
  BY InitCalm, CalmNext, IInvHolds, PTL DEF Spec

\* As long as calls wait for what earlier ones started, no operation is given up
\* or thrown away, and no tab is pinned or unpinned from behind another: once
\* every call, posted operation and loaded event is done, the window shows the
\* page of the current tab, or its source.
THEOREM SettledPageIsCurrent == Spec => []ShownIsCurrent
<1>1. CalmInv => ShownIsCurrent
  BY SettledPhase DEF CalmInv, ShownIsCurrent, Agrees
<1> QED
  BY <1>1, CalmHolds, PTL

\* Under the same conditions, and with no two saves at once, session.json then
\* holds the tabs as they are, less those it cannot keep: no call, and no loaded
\* event it leads to, ends with a change that nobody has saved.
THEOREM SettledTabsAreSaved == Spec => []SavedIsCurrent
<1>1. CalmInv => SavedIsCurrent
  BY SettledPhase DEF CalmInv, SavedIsCurrent, Clean
<1> QED
  BY <1>1, CalmHolds, PTL
=============================================================================
