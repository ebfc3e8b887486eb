----------------------------- MODULE ThreatFeed -----------------------------
(***************************************************************************)
(* Keeping the threat list up to date on Windows                           *)
(* (Core/Security/ThreatFeedCoordinator.cs).  One background task loads    *)
(* the cached list, refreshes it and then refreshes it periodically; the   *)
(* settings window starts refreshes and clears of its own.  _refreshGate   *)
(* admits one refresh or clear at a time, but the feed URL is read before  *)
(* the gate is entered, and the cached list is applied without it.  The    *)
(* timeout of a fetch ends with the headers of the response: its body is   *)
(* read, in the gate, for as long as the server takes.                     *)
(*                                                                         *)
(* A list is named by the feed it was fetched from.  Applying a list is    *)
(* one step here; DenylistPush models what happens inside it.              *)
(***************************************************************************)
EXTENDS Naturals

CONSTANTS
  Feeds,        \* feed URLs that pass ValidateFeedUrl
  NoFeed,       \* no URL is set, or one that does not pass
  Nothing,      \* the empty list, and no cache file
  UiTasks,      \* tasks the settings window can have running
  Background,   \* the task of Start
  Free,         \* nobody holds the gate
  MaxSaves,     \* bound: times the user changes the setting
  MaxRestarts   \* bound: times the process ends and starts again

ASSUME ThreatFeedAssumption ==
  /\ NoFeed \notin Feeds /\ Nothing \notin Feeds
  /\ Background \notin UiTasks /\ Free \notin UiTasks \cup {Background}
  /\ MaxSaves \in Nat /\ MaxRestarts \in Nat

Tasks == UiTasks \cup {Background}

VARIABLES
  feed_url,  \* the user's setting (persistent)
  cache,     \* the list in the cache file (persistent)
  managed,   \* the list in force
  pc,        \* per task
  url,       \* per task: the feed it resolved, later the list it fetched
  gate,      \* _refreshGate: the task that holds it, or Free
  loaded,    \* the list the background task read from the cache file
  saves, restarts,
  cleared,   \* history: the list was cleared and no feed was set since
  has_loop   \* history: a feed was set when this process started

bounds == <<saves, restarts, has_loop>>
vars == <<feed_url, cache, managed, pc, url, gate, loaded, bounds, cleared>>

InGate == {"fetch", "body", "apply", "clear_delete"}

TypeOK ==
  /\ feed_url \in Feeds \cup {NoFeed}
  /\ cache \in Feeds \cup {Nothing} /\ managed \in Feeds \cup {Nothing}
  /\ pc \in [Tasks -> {"idle", "load", "apply_cached", "queue", "fetch", "body", "apply",
                       "delay", "clear_queue", "clear_delete"}]
  /\ \A j \in Tasks : pc[j] \in {"queue", "fetch", "body"} => url[j] \in Feeds
  /\ url \in [Tasks -> Feeds \cup {NoFeed}]
  /\ loaded \in Feeds \cup {Nothing}
  /\ gate \in Tasks \cup {Free}
  /\ \A j \in Tasks : pc[j] \in InGate => gate = j
  /\ saves \in 0..MaxSaves /\ restarts \in 0..MaxRestarts 
  /\ cleared \in BOOLEAN /\ has_loop \in BOOLEAN

\* Start, in a fresh process: the background task with the feed set by then.
FreshPc == [j \in Tasks |-> IF j = Background THEN "load" ELSE "idle"]
FreshUrl == [j \in Tasks |-> IF j = Background THEN feed_url ELSE NoFeed]

Init ==
  /\ feed_url \in Feeds \cup {NoFeed}
  /\ cache \in Feeds \cup {Nothing}
  /\ managed = Nothing /\ cleared = FALSE
  /\ pc = FreshPc /\ url = FreshUrl /\ loaded = Nothing /\ gate = Free
  /\ saves = 0 /\ restarts = 0 /\ has_loop = (feed_url # NoFeed)

Goto(j, label) == pc' = [pc EXCEPT ![j] = label]

\* A refresh is over: the background task goes back to its loop.
EndRefresh(j) ==
  /\ Goto(j, IF j = Background THEN "delay" ELSE "idle")
  /\ url' = [url EXCEPT ![j] = NoFeed]
  /\ gate' = Free

-----------------------------------------------------------------------------
(* The background task *)

LoadCached ==
  /\ pc[Background] = "load"
  /\ loaded' = cache
  /\ Goto(Background, "apply_cached")
  /\ UNCHANGED <<feed_url, cache, managed, url, gate, bounds, cleared>>

\* With no feed at the start of the process the task is over.
ApplyCached ==
  /\ pc[Background] = "apply_cached"
  /\ managed' = loaded /\ loaded' = Nothing
  /\ Goto(Background, IF url[Background] = NoFeed THEN "idle" ELSE "queue")
  /\ UNCHANGED <<feed_url, cache, url, gate, bounds, cleared>>

\* Mistake: a round without a feed ends the loop.
PeriodicRefreshUntilCleared ==
  /\ pc[Background] = "delay"
  /\ url' = [url EXCEPT ![Background] = feed_url]
  /\ Goto(Background, IF feed_url = NoFeed THEN "idle" ELSE "queue")
  /\ UNCHANGED <<feed_url, cache, managed, gate, loaded, bounds, cleared>>

\* RunPeriodicRefresh after a delay: the setting is read anew, and a round
\* without a feed is skipped.
PeriodicRefresh ==
  /\ pc[Background] = "delay"
  /\ feed_url # NoFeed
  /\ url' = [url EXCEPT ![Background] = feed_url]
  /\ Goto(Background, "queue")
  /\ UNCHANGED <<feed_url, cache, managed, gate, loaded, bounds, cleared>>

-----------------------------------------------------------------------------
(* Refresh *)

EnterGate(j) ==
  /\ pc[j] = "queue"
  /\ gate = Free /\ gate' = j
  /\ Goto(j, "fetch")
  /\ UNCHANGED <<feed_url, cache, managed, url, loaded, bounds, cleared>>

\* GetAsync returns at the headers (ResponseHeadersRead); until then its timeout
\* of fifteen seconds runs.
HeadersRead(j) ==
  /\ pc[j] = "fetch"
  /\ Goto(j, "body")
  /\ UNCHANGED <<feed_url, cache, managed, url, gate, loaded, bounds, cleared>>

\* ReadBoundedAsync has the body; FetchAndStore replaces the cache file and
\* returns the list.
FetchAndStore(j) ==
  /\ pc[j] = "body"
  /\ cache' = url[j]
  /\ Goto(j, "apply")
  /\ UNCHANGED <<feed_url, managed, url, gate, loaded, bounds, cleared>>

\* Mistake: an exception leaves the gate taken.
FetchFailsInGate(j) ==
  /\ pc[j] \in {"fetch", "body"}
  /\ Goto(j, IF j = Background THEN "delay" ELSE "idle")
  /\ UNCHANGED <<feed_url, cache, managed, url, gate, loaded, bounds, cleared>>

\* Nothing was stored, and the list in force stays.
FetchFails(j) ==
  /\ pc[j] \in {"fetch", "body"}
  /\ EndRefresh(j)
  /\ UNCHANGED <<feed_url, cache, managed, loaded, bounds, cleared>>

ApplyFetched(j) ==
  /\ pc[j] = "apply"
  /\ managed' = url[j]
  /\ EndRefresh(j)
  /\ UNCHANGED <<feed_url, cache, loaded, bounds, cleared>>

-----------------------------------------------------------------------------
(* The settings window *)

Save(j, u) ==
  /\ pc[j] = "idle" /\ j \in UiTasks /\ saves < MaxSaves
  /\ saves' = saves + 1 /\ UNCHANGED <<restarts, has_loop>>
  /\ feed_url' = u /\ cleared' = FALSE

\* The setting is saved, then RefreshNow resolves it and starts a task.
SaveFeed(j, u) ==
  /\ Save(j, u)
  /\ url' = [url EXCEPT ![j] = u]
  /\ Goto(j, "queue")
  /\ UNCHANGED <<cache, managed, gate, loaded>>

\* The setting is emptied, then the window awaits ClearAndDisableAsync.
ClearFeed(j) ==
  /\ Save(j, NoFeed)
  /\ Goto(j, "clear_queue")
  /\ UNCHANGED <<cache, managed, url, gate, loaded>>

ClearList(j) ==
  /\ pc[j] = "clear_queue"
  /\ gate = Free /\ gate' = j
  /\ managed' = Nothing
  /\ Goto(j, "clear_delete")
  /\ UNCHANGED <<feed_url, cache, url, loaded, bounds, cleared>>

\* A file that cannot be deleted is only logged.
DeleteCache(j) ==
  /\ pc[j] = "clear_delete"
  /\ cache' \in {Nothing, cache}
  /\ cleared' = (feed_url = NoFeed)
  /\ Goto(j, "idle") /\ gate' = Free
  /\ UNCHANGED <<feed_url, managed, url, loaded, bounds>>

\* The process ends, at any point, and is started again: only the setting and
\* the cache file survive.
Restart ==
  /\ restarts < MaxRestarts
  /\ restarts' = restarts + 1
  /\ managed' = Nothing /\ cleared' = FALSE
  /\ pc' = FreshPc /\ url' = FreshUrl /\ loaded' = Nothing /\ gate' = Free
  /\ has_loop' = (feed_url # NoFeed)
  /\ UNCHANGED <<feed_url, cache, saves>>

-----------------------------------------------------------------------------

\* What a task in the gate does by itself.
Work(j) ==
  HeadersRead(j) \/ (pc[j] = "fetch" /\ FetchFails(j)) \/ ApplyFetched(j) \/ DeleteCache(j)

\* What it waits for: the body arrives, or the connection breaks.
AwaitBody(j) == pc[j] = "body" /\ (FetchAndStore(j) \/ FetchFails(j))

Next ==
  \/ LoadCached \/ ApplyCached \/ PeriodicRefresh
  \/ \E j \in Tasks : EnterGate(j) \/ ClearList(j) \/ Work(j) \/ AwaitBody(j)
  \/ \E j \in UiTasks : ClearFeed(j) \/ \E u \in Feeds : SaveFeed(j, u)
  \/ Restart

\* Tasks run, a request is answered or times out, and the gate serves its
\* waiters in turn (SemaphoreSlim queues them).  Nothing makes a body arrive.
Fairness ==
  /\ WF_vars(LoadCached \/ ApplyCached \/ PeriodicRefresh)
  /\ \A j \in Tasks : WF_vars(Work(j)) /\ SF_vars(EnterGate(j) \/ ClearList(j))

Spec == Init /\ [][Next]_vars /\ Fairness

\* No task waits for the rest of a body for ever.
BodiesEnd == \A j \in Tasks : []<>(pc[j] # "body")

\* A feed that the loop asks for again and again is at some time served.
FeedServed == []<>(pc[Background] = "fetch") => []<>(pc[Background] = "apply")

\* A feed that was set when the process started is followed: if from some point
\* on the user leaves it (or any other feed chosen since) alone, its list comes
\* into force for good - after failed rounds, after rounds without a feed, after
\* a restart, and whatever older refreshes were still waiting at the gate.  It
\* takes a server that serves the feed, and none that stalls in a body.
FollowedOnceStarted ==
  BodiesEnd /\ FeedServed =>
    \A u \in Feeds : <>[](feed_url = u /\ has_loop) => <>[](managed = u)

\* The settings window awaits ClearAndDisableAsync: whatever refreshes run or
\* wait, and however often they fail, the clear comes to its end unless one of
\* them stays in a body for ever (ThreatFeed.cs:178 reads it without a timeout).
ClearsEnd ==
  BodiesEnd => \A j \in UiTasks : pc[j] = "clear_queue" ~> pc[j] = "idle"

\* What the class comment says (ThreatFeedCoordinator.cs:17-18): a feed the user
\* configures is updated continuously as soon as it is valid.  Asked of servers
\* that answer, so that it is the coordinator that does not.
FeedIsFollowed ==
  BodiesEnd /\ FeedServed => \A u \in Feeds : <>[](feed_url = u) => <>[](managed = u)

\* What the comment on ClearAndDisableAsync says (ThreatFeedCoordinator.cs:180-184):
\* it holds the gate so that the list it cleared is not written back.
ClearedStaysCleared == cleared => managed = Nothing
=============================================================================
