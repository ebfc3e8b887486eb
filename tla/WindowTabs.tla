----------------------------- MODULE WindowTabs -----------------------------
(***************************************************************************)
(* The tabs of a Windows main window: the list and its current tab         *)
(* (Core/Tabs/TabManager.cs), one WebView per tab that is awake            *)
(* (Chrome/TabRuntimeCoordinator.cs), and the session that is saved two    *)
(* seconds after a change (Chrome/SessionSaveScheduler.cs) and restored by *)
(* the next process or at the user's wish.                                 *)
(*                                                                         *)
(* Every handler runs to its end on the thread of the user interface, with *)
(* all the events it raises: an operation here is a function from a window *)
(* to a window.  Between handlers come the WebViews' ready events, the     *)
(* timers, and the end of the process.  The contract of the WebView relied *)
(* on: a control that was disposed reports no success.  URLs and titles,   *)
(* the stack of closed tabs that holds nothing else, and which tab of a    *)
(* saved session was the current one, are left out.                        *)
(***************************************************************************)
EXTENDS HostNavigation, Lists, FiniteSets

CONSTANTS
  NoTabId,    \* no tab was activated yet
  Pinnable    \* bound: the tabs that are pinned at some time

VARIABLES
  running,  \* the process has its window
  win,      \* the window: see NoWindow
  dirty,    \* the debounce timer of SessionSaveScheduler is running
  saved,    \* tabs.db: the tabs in order and which are pinned
  owed      \* history: tabs that were saved and that nobody closed since

windowVars == <<running, win, dirty, saved, owed>>

NoWindow ==
  [tabs     |-> <<>>,      \* _tabs
   index    |-> 0,         \* _currentIndex, counted from 1
   active   |-> NoTabId,   \* _activeTabId
   pinned   |-> {},
   sleeping |-> {},
   runtime  |-> [t \in TabIds |-> "none"]]  \* or "starting", "wired"

Saved(w) == [tabs |-> w.tabs, pinned |-> w.pinned]

WindowInit ==
  /\ running = FALSE /\ win = NoWindow /\ dirty = FALSE
  /\ saved = Saved(NoWindow) /\ owed = {}

IndexOf(w, t) == SelectInSeq(w.tabs, LAMBDA x : x = t)

-----------------------------------------------------------------------------
(* The operations of TabManager with the handlers of their events.          *)

CreateRuntime(w, t) == [w EXCEPT !.runtime[t] = "starting"]

WakeTab(w, t) ==
  IF w.runtime[t] # "none" THEN w
  ELSE CreateRuntime([w EXCEPT !.sleeping = @ \ {t}], t)

OnTabSwitched(w, t) ==
  LET v == [w EXCEPT !.active = t] IN IF t \in w.sleeping THEN WakeTab(v, t) ELSE v

\* NewTab; also Duplicate, a tab that is opened again, and a page's new window.
NewTab(w, t) ==
  LET v == [w EXCEPT !.tabs = Append(@, t), !.index = Len(w.tabs) + 1]
  IN OnTabSwitched(CreateRuntime(v, t), t)

SwitchTo(w, t) ==
  IF IndexOf(w, t) = w.index THEN w
  ELSE OnTabSwitched([w EXCEPT !.index = IndexOf(w, t)], t)

\* The tab, its runtime and its flags go; a current tab hands over to the one
\* that takes its place.
CloseTab(w, t) ==
  LET i == IndexOf(w, t)
      v == [w EXCEPT !.tabs = RemoveAt(@, i), !.runtime[t] = "none",
                     !.pinned = @ \ {t}, !.sleeping = @ \ {t}]
      next == IF i > Len(v.tabs) THEN Len(v.tabs) ELSE i
  IN CASE i = 0 -> w
       [] i # 0 /\ i = w.index /\ v.tabs # <<>> ->
            OnTabSwitched([v EXCEPT !.index = next], v.tabs[next])
       [] i # 0 /\ v.tabs = <<>> -> [v EXCEPT !.index = 0]
       [] i # 0 /\ i < w.index /\ v.tabs # <<>> -> [v EXCEPT !.index = @ - 1]
       [] OTHER -> v

\* One after the other, in the order they have when the first is closed.
CloseAll(w, ts) ==
  LET closed[n \in 0..Len(w.tabs)] ==
        IF n = 0 THEN w
        ELSE IF w.tabs[n] \in ts THEN CloseTab(closed[n - 1], w.tabs[n])
        ELSE closed[n - 1]
  IN closed[Len(w.tabs)]

CloseOthers(w, keep) == CloseAll(w, Range(w.tabs) \ (w.pinned \cup {keep}))
CloseRight(w, t) ==
  CloseAll(w, {w.tabs[i] : i \in (IndexOf(w, t) + 1)..Len(w.tabs)} \ w.pinned)

\* Pinned tabs stand in front: the tab moves to the border of the two groups.
SetPinned(w, t, on) ==
  LET p == IF on THEN w.pinned \cup {t} ELSE w.pinned \ {t}
      v == [w EXCEPT !.pinned = p,
                     !.tabs = Moved(@, IndexOf(w, t), Cardinality(p) + IF on THEN 0 ELSE 1)]
  IN [v EXCEPT !.index = IndexOf(v, w.tabs[w.index])]

\* Mistake: a tab dragged to the place of the current one does not push it on.
FollowOutward(i, from, to) ==
  CASE i = from -> to
    [] from < i /\ to >= i -> i - 1
    [] OTHER -> i

\* Where the current tab is after a move.
Follow(i, from, to) ==
  CASE i = from -> to
    [] from < i /\ to >= i -> i - 1
    [] from > i /\ to <= i -> i + 1
    [] OTHER -> i

\* A tab is dragged within its group at most.
MoveTab(w, from, wanted) ==
  LET p == Cardinality(w.pinned)
      pinned == w.tabs[from] \in w.pinned
      to == CASE pinned /\ wanted > p -> p [] ~pinned /\ wanted <= p -> p + 1 [] OTHER -> wanted
  IN [w EXCEPT !.tabs = Moved(@, from, to), !.index = Follow(@, from, to)]

\* SelectTabsToSleep, of those that have been idle for long enough.
MaySleep(w) == {t \in Range(w.tabs) \ ({w.active} \cup w.pinned \cup w.sleeping) :
                  w.runtime[t] # "none"}

Slept(w, ts) == [w EXCEPT !.sleeping = @ \cup ts, !.runtime = Reset(@, ts, "none")]

\* RebuildTabsFromSnapshot: SeedSession, a runtime for every tab, the i-th shown.
Rebuilt(w, s, i) ==
  OnTabSwitched([w EXCEPT !.tabs = s.tabs, !.pinned = s.pinned, !.sleeping = {}, !.index = i,
                          !.runtime = Reset(@, Range(s.tabs), "starting")],
                s.tabs[i])

-----------------------------------------------------------------------------
(* What a handler does with the window it makes: hosts whose runtime went   *)
(* are disposed of, closed tabs mark the session dirty, and a window        *)
(* without a tab closes.                                                    *)

Awake(w) == {t \in TabIds : w.runtime[t] # "none"}
ClosedIn(w) == Range(win.tabs) \ Range(w.tabs)

\* Mistake: the rows are deleted first, and not in one transaction.
SaveRowByRow(w) ==
  \/ saved' = Saved(w) /\ owed' = (owed \ ClosedIn(w)) \cup Range(w.tabs)
  \/ saved' = Saved(NoWindow) /\ owed' = owed \ ClosedIn(w)

\* _sessionStore.Save: the whole list in one transaction, or the old one stays.
SaveSession(w) ==
  \/ saved' = Saved(w) /\ owed' = (owed \ ClosedIn(w)) \cup Range(w.tabs)
  \/ UNCHANGED saved /\ owed' = owed \ ClosedIn(w)

Ended == running' = FALSE /\ win' = NoWindow /\ dirty' = FALSE /\ EndHosts(Awake(win))

\* Window_Closing and OnClosed: the session is saved at once.
CloseWindow(w) == Ended /\ SaveSession(w)

Show(w) ==
  IF w.tabs = <<>> THEN CloseWindow(w)
  ELSE /\ win' = w
       /\ EndHosts(Awake(win) \ Awake(w))
       /\ dirty' = (dirty \/ ClosedIn(w) # {})
       /\ owed' = owed \ ClosedIn(w)
       /\ UNCHANGED <<running, saved>>

-----------------------------------------------------------------------------

Unused == TabIds \ (Range(win.tabs) \cup Range(saved.tabs) \cup owed)

\* RestoreSessionOrStart. A tabs.db that cannot be read counts as empty: what it
\* held is then forgotten.
StartWindow ==
  /\ ~running
  /\ \/ /\ \E i \in DOMAIN saved.tabs : win' = Rebuilt(NoWindow, saved, i)
        /\ UNCHANGED owed
     \/ /\ \E t \in Unused : win' = NewTab(NoWindow, t)
        /\ owed' = {}
  /\ running' = TRUE
  /\ UNCHANGED <<dirty, saved, hostVars>>

UserAction ==
  \E t \in Range(win.tabs) :
    \/ Show(SwitchTo(win, t))
    \/ /\ t \in Pinnable
       /\ Show(SetPinned(win, t, t \notin win.pinned))
    \/ Show(CloseTab(win, t))
    \/ Show(CloseOthers(win, t))
    \/ Show(CloseRight(win, t))
    \/ \E i \in DOMAIN win.tabs \ {IndexOf(win, t)} : Show(MoveTab(win, IndexOf(win, t), i))

OpenTab == \E t \in Unused : Show(NewTab(win, t))

SleepCheck == \E ts \in SUBSET MaySleep(win) \ {{}} : Show(Slept(win, ts))

\* RestoreSavedSession: all tabs are closed, in order, without closing the window,
\* and those of tabs.db built, some of them under the same ids.
RestoreSavedSession ==
  /\ \E i \in DOMAIN saved.tabs : win' = Rebuilt(CloseAll(win, Range(win.tabs)), saved, i)
  /\ EndHosts(Awake(win))
  /\ dirty' = TRUE
  /\ UNCHANGED <<running, saved, owed>>

\* CoreWebView2InitializationCompleted. A failure of the SDK is logged and leaves
\* the tab as it is; one of the wiring, a full session pool for one, closes it.
CoreReady(t) ==
  /\ win.runtime[t] = "starting"
  /\ \/ /\ session[t] = Unregistered
        /\ win' = [win EXCEPT !.runtime[t] = "wired"]
        /\ BeginHost(t)
        /\ UNCHANGED <<running, dirty, saved, owed>>
     \/ Show(CloseTab(win, t))

OnTabNavigationCompleted ==
  /\ \E t \in TabIds : win.runtime[t] = "wired"
  /\ dirty' = TRUE
  /\ UNCHANGED <<running, win, saved, owed, hostVars>>

Elapsed ==
  /\ dirty /\ dirty' = FALSE
  /\ SaveSession(win)
  /\ UNCHANGED <<running, win, hostVars>>

Crash == Ended /\ UNCHANGED <<saved, owed>>

WindowNext ==
  \/ StartWindow
  \/ /\ running
     /\ \/ UserAction \/ OpenTab \/ SleepCheck \/ RestoreSavedSession
        \/ \E t \in TabIds : CoreReady(t)
        \/ OnTabNavigationCompleted \/ Elapsed \/ CloseWindow(win) \/ Crash

\* Tabs and navigations together, as the window has them: handlers of both run on
\* the one thread, in any order.
BrowserNext == WindowNext \/ (HostEvents /\ UNCHANGED windowVars)

BrowserSpec ==
  HostsInit /\ WindowInit /\ [][BrowserNext]_<<hostVars, windowVars>>

-----------------------------------------------------------------------------

\* A tab has a runtime unless it sleeps, and a session exactly while its WebView
\* is wired: none is left behind for an id that comes back, and every page that
\* is up can be judged (TabRuntimeLifetime.cs:57, HostWebView.cs:257).
SessionsFollowTabs ==
  \A t \in TabIds :
    /\ t \in Awake(win) <=> IndexOf(win, t) # 0 /\ t \notin win.sleeping
    /\ session[t] # Unregistered <=> win.runtime[t] = "wired"

\* The tab shown is the current one, is awake, and pinned tabs are in front.
ActiveIsCurrent ==
  running =>
    /\ win.active = win.tabs[win.index] /\ win.active \in Awake(win)
    /\ \A i, j \in DOMAIN win.tabs :
         i < j => win.tabs[i] # win.tabs[j] /\ (win.tabs[j] \in win.pinned => win.tabs[i] \in win.pinned)

\* A tab that was saved stays so until it is closed, whatever ends and restores
\* come in between - if tabs.db can be read when the process starts.
NothingForgotten == owed \subseteq Range(saved.tabs)

WindowTabsKept == SessionsFollowTabs /\ ActiveIsCurrent /\ NothingForgotten
=============================================================================
