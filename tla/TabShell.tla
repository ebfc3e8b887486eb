------------------------------ MODULE TabShell ------------------------------
(***************************************************************************)
(* The tabs of the pywebview shell: the bridge methods that pages and the  *)
(* toolbar call (app/tab_ops.py, app/bridge/navigation.py, the source      *)
(* viewer of app/api_bridge.py), the tools an agent calls (app/mcp.py),    *)
(* the handler of loaded events (app/bridge_hooks.py) and the start and    *)
(* restart of the shell (main_webview.py).                                 *)
(*                                                                         *)
(* Every call runs in a thread of its own.  Only the change of the tab     *)
(* list is under the lock: the check before it, the save and the load      *)
(* after it are steps of their own, kept in todo[c].  Titles, groups and   *)
(* log lines are left out.                                                 *)
(***************************************************************************)
EXTENDS NavQueue, SessionStore

CONSTANTS
  Start,          \* START_URL, the local start page
  NoUrl,          \* the empty string
  Unsafe,         \* URLs is_navigation_safe or the threat cache turns down
  AgentHosts,     \* URLs whose host AEGIS_AGENT_ALLOWED_HOSTS allows
  Callers,        \* threads bridge calls run in
  Loaders,        \* threads loaded events are handled in
  SavedFiles,     \* what session.json may hold when the first process starts
  AgentTools,     \* tools whose scope the agent's token holds
  MaxCalls,       \* bound: bridge calls in a behaviour
  MaxExits        \* bound: ends of the process

Urls == Pages \ {SourceView}
Tab(url) == [url |-> url, pinned |-> FALSE]

Tabs == [url : Urls, pinned : BOOLEAN]
Sessions == [tabs : Seq(Tabs), current : Nat]

PinnedInFront(ts) ==
  \A i, j \in DOMAIN ts : i < j /\ ts[j].pinned => ts[i].pinned

\* The bridge methods, by their argument: an index, a URL, or none.
IndexMethods == {"close_tab", "switch_tab", "pin_tab", "unpin_tab", "set_tab_group"}
UrlMethods == {"new_tab", "navigate"}
PlainMethods == {"move_tab", "close_current_tab", "go_back", "go_home",
                 "restore_session", "view_source", "close_source_view"}

ASSUME TabShellAssumption ==
  /\ Start \in Pages /\ SourceView # Start /\ NoUrl \notin Pages
  /\ Unsafe \subseteq Pages /\ AgentHosts \subseteq Pages
  /\ Callers \cap Loaders = {} /\ Callers \cup Loaders = Savers
  /\ IsFiniteSet(Callers) /\ Callers # {}
  /\ AgentTools \subseteq IndexMethods \cup UrlMethods \cup PlainMethods \cup {"get_tabs"}
  /\ MaxTabs \in Nat \ {0} /\ MaxCalls \in Nat /\ MaxExits \in Nat /\ LoadBound > 0

\* The first session file is one the shell wrote.
ASSUME SavedFilesAssumption ==
  /\ SavedFiles \subseteq Sessions \cup {NoSession}
  /\ \A file \in SavedFiles \ {NoSession} : PinnedInFront(file.tabs)
  /\ NoSession \notin Sessions
  /\ Garbled \notin Sessions /\ Garbled # NoSession

VARIABLES
  tabs,           \* _tabs
  current,        \* _current, counted from 1
  todo,           \* todo[c]: what thread c has still to do, in order
  recent,         \* the rate-limited methods called less than 500 ms ago
  agentActive,    \* _agent_session is less than 60 s ago
  sourceReturn,   \* _source_view_return
  calls,          \* history: bridge calls made
  exits,          \* history: ends of the process
  calm,           \* history: nothing overlapped or was lost since the start
  savesOverlap,   \* history: two saves were under way at once
  agentStrayed    \* history: navigate or new_tab posted an agent's URL off its list

tabVars == <<tabs, current, todo, recent, agentActive, sourceReturn,
             calls, exits, calm, savesOverlap, agentStrayed>>
vars == <<navVars, sessionVars, tabVars>>

Threads == Callers \cup Loaders
Snapshot == [tabs |-> tabs, current |-> current]

Saving(c) == todo[c] # <<>> /\ Head(todo[c]).do \in {"write", "replace"}

\* Nothing runs, waits or is about to happen.
Settled ==
  /\ \A c \in Threads : todo[c] = <<>>
  /\ queue = <<>> /\ late = {} /\ loads = 0 /\ watchdog = "idle"
  /\ \A t \in NavThreads : nav[t] # "busy"

-----------------------------------------------------------------------------
(* Steps of a call.                                                        *)

Persist       == [do |-> "persist"]
Update(url)   == [do |-> "update", url |-> url]
Notify        == [do |-> "eval", what |-> "inject"]

\* _load, and who asked for a URL that went through the check.
CheckedLoad(url, agent) == [do |-> "load", url |-> url, agent |-> agent]
Load(url) == CheckedLoad(url, FALSE)

\* _is_navigation_safe_url: protocol and threat cache, and the allowlist while
\* an agent session is active.  The start page is no web host: it passes the
\* first check by name and never the second.
IsNavigationSafe(url) ==
  /\ url \notin Unsafe
  /\ agentActive => url \in AgentHosts

-----------------------------------------------------------------------------
(* Operations on the tab list, under the lock.                             *)

PinnedCount(ts) == Cardinality({i \in DOMAIN ts : ts[i].pinned})

\* Mistake: a tab is moved wherever it is dropped.
MoveTargetAnywhere(ts, f, t) == t

\* A tab moves inside its own zone: pinned tabs in front, normal ones behind.
MoveTarget(ts, f, t) ==
  IF ts[f].pinned THEN Clamp(t, 1, PinnedCount(ts))
                  ELSE Clamp(t, PinnedCount(ts) + 1, Len(ts))

\* Mistake: the index is not moved along.
MovedIndexKept(i, f, t) == i

\* Where the tab at position i is after the move from f to t.
MovedIndex(i, f, t) ==
  IF i = f THEN t
  ELSE IF f < i /\ i <= t THEN i - 1
  ELSE IF t <= i /\ i < f THEN i + 1
  ELSE i

\* An early return: the call is over and nothing has changed.
Returns(c) ==
  /\ todo' = [todo EXCEPT ![c] = <<>>]
  /\ UNCHANGED <<tabs, current>>

MoveTab(c, from, to) ==
  /\ {from, to} \subseteq DOMAIN tabs
  /\ LET t == MoveTarget(tabs, from, to)
     IN  IF from = to \/ from = t
         THEN Returns(c)
         ELSE /\ tabs' = Moved(tabs, from, t)
              /\ current' = MovedIndex(current, from, t)
              /\ todo' = [todo EXCEPT ![c] = <<Persist>>]
  /\ UNCHANGED <<recent, agentActive, sourceReturn>>

\* _remove_tab: the last tab stays; the index steps back when the tab that
\* left was at it or before it.
RemoveTab(i) ==
  /\ tabs' = RemoveAt(tabs, i)
  /\ current' = IF current >= i /\ current > 1 THEN current - 1 ELSE current

CloseTab(c, i) ==
  /\ i \in DOMAIN tabs
  /\ IF Len(tabs) = 1
     THEN Returns(c)
     ELSE /\ RemoveTab(i)
          /\ todo' = [todo EXCEPT ![c] = <<Load(tabs'[current'].url), Persist>>]
  /\ UNCHANGED <<recent, agentActive, sourceReturn>>

CloseCurrentTab(c) == CloseTab(c, current)

SwitchTab(c, i) ==
  /\ i \in DOMAIN tabs
  /\ current' = i
  /\ todo' = [todo EXCEPT ![c] = <<Persist, Load(tabs[i].url)>>]
  /\ UNCHANGED <<tabs, recent, agentActive, sourceReturn>>

\* _reorder_pinned: a stable partition.
Reordered(ts) ==
  Only(ts, {i \in DOMAIN ts : ts[i].pinned}) \o Only(ts, {i \in DOMAIN ts : ~ts[i].pinned})

\* Where the tab at position i stands after the partition.
ReorderedIndex(ts, i) ==
  IF ts[i].pinned
  THEN Cardinality({j \in 1..i : ts[j].pinned})
  ELSE PinnedCount(ts) + Cardinality({j \in 1..i : ~ts[j].pinned})

\* Mistake: the new order is not saved.
SetPinnedUnsaved(c, i, pinned) ==
  /\ i \in DOMAIN tabs
  /\ LET flipped == [tabs EXCEPT ![i].pinned = pinned]
     IN  tabs' = Reordered(flipped) /\ current' = ReorderedIndex(flipped, i)
  /\ UNCHANGED <<todo, recent, agentActive, sourceReturn>>

\* pin_tab and unpin_tab: the tab that moved becomes the current one, and
\* nothing is loaded.
SetPinned(c, i, pinned) ==
  /\ i \in DOMAIN tabs
  /\ IF tabs[i].pinned = pinned
     THEN Returns(c)
     ELSE LET flipped == [tabs EXCEPT ![i].pinned = pinned]
          IN  /\ tabs' = Reordered(flipped)
              /\ current' = ReorderedIndex(flipped, i)
              /\ todo' = [todo EXCEPT ![c] = <<Persist>>]
  /\ UNCHANGED <<recent, agentActive, sourceReturn>>

PinTab(c, i) == SetPinned(c, i, TRUE)
UnpinTab(c, i) == SetPinned(c, i, FALSE)

\* set_tab_group changes what no other decision reads, and saves.
SetTabGroup(c, i) ==
  /\ i \in DOMAIN tabs
  /\ todo' = [todo EXCEPT ![c] = <<Persist>>]
  /\ UNCHANGED <<tabs, current, recent, agentActive, sourceReturn>>

\* new_tab, the checks before the lock.
NewTab(c, url, agent) ==
  /\ todo' = [todo EXCEPT ![c] =
                IF "new_tab" \in recent \/ Len(tabs) >= MaxTabs THEN <<Notify>>
                ELSE <<[do |-> "open", url |-> url, agent |-> agent]>>]
  /\ UNCHANGED <<tabs, current, recent, agentActive, sourceReturn>>

\* navigate: the tab is updated and saved before the page is loaded.
Navigate(c, url, agent) ==
  /\ todo' = [todo EXCEPT ![c] =
                IF IsNavigationSafe(url)
                THEN <<Update(url), Persist, CheckedLoad(url, agent)>>
                ELSE <<Notify>>]
  /\ UNCHANGED <<tabs, current, recent, agentActive, sourceReturn>>

\* go_back and go_forward run history scripts, go_home loads the start page.
GoBack(c) ==
  /\ todo' = [todo EXCEPT ![c] = <<[do |-> "eval", what |-> "history"]>>]
  /\ UNCHANGED <<tabs, current, recent, agentActive, sourceReturn>>

GoHome(c) ==
  /\ todo' = [todo EXCEPT ![c] = <<Load(Start)>>]
  /\ UNCHANGED <<tabs, current, recent, agentActive, sourceReturn>>

\* get_current_url: the viewer's page has none.
CurrentUrl == IF page = SourceView THEN NoUrl ELSE page

\* Only a page of the shell itself may restore: a missing URL is no shell page.
IsTrustedSource == CurrentUrl = Start

\* seed_session: the tabs of the file that pass the checks once more.
Seeded(snap, agent) ==
  LET first == FirstTabs(snap.tabs)
      clean == Only(first, {i \in DOMAIN first : /\ first[i].url \notin Unsafe
                                                 /\ agent => first[i].url \in AgentHosts})
  IN  IF clean = <<>> THEN NoSession
      ELSE [tabs |-> clean, current |-> Clamp(snap.current, 1, Len(clean))]

SavedSession(agent) ==
  IF Loaded(sessionFile) = NoSession THEN NoSession ELSE Seeded(Loaded(sessionFile), agent)

\* restore_session loads the current tab and leaves the save to its event.
RestoreSession(c) ==
  /\ IF ~IsTrustedSource \/ SavedSession(agentActive) = NoSession
     THEN /\ todo' = [todo EXCEPT ![c] = <<Notify>>]
          /\ UNCHANGED <<tabs, current>>
     ELSE LET data == SavedSession(agentActive)
          IN  /\ tabs' = data.tabs
              /\ current' = data.current
              /\ todo' = [todo EXCEPT ![c] = <<Load(data.tabs[data.current].url)>>]
  /\ UNCHANGED <<recent, agentActive, sourceReturn>>

\* view_source fetches the page in the background; the viewer replaces
\* whatever page is shown when the fetch is done.
ViewSource(c) ==
  /\ IF \/ "view_source" \in recent
        \/ CurrentUrl \in {NoUrl, Start}
        \/ ~IsNavigationSafe(CurrentUrl)
     THEN /\ todo' = [todo EXCEPT ![c] = <<Notify>>]
          /\ UNCHANGED recent
     ELSE /\ todo' = [todo EXCEPT ![c] = <<[do |-> "fetch", url |-> CurrentUrl]>>]
          /\ recent' = recent \cup {"view_source"}
  /\ UNCHANGED <<tabs, current, agentActive, sourceReturn>>

CloseSourceView(c) ==
  /\ sourceReturn' = NoUrl
  /\ todo' = [todo EXCEPT ![c] =
                IF sourceReturn = NoUrl THEN <<>> ELSE <<Load(sourceReturn)>>]
  /\ UNCHANGED <<tabs, current, recent, agentActive>>

-----------------------------------------------------------------------------
(* Calls: by a page or the toolbar, and by an agent.                       *)

\* The bridge methods and the arguments they are called with.
Method(c, m, a, agent) ==
  \/ m = "move_tab" /\ \E from, to \in DOMAIN tabs : MoveTab(c, from, to)
  \/ m = "close_current_tab" /\ CloseCurrentTab(c)
  \/ m = "close_tab" /\ CloseTab(c, a)
  \/ m = "switch_tab" /\ SwitchTab(c, a)
  \/ m = "pin_tab" /\ PinTab(c, a)
  \/ m = "unpin_tab" /\ UnpinTab(c, a)
  \/ m = "set_tab_group" /\ SetTabGroup(c, a)
  \/ m = "new_tab" /\ NewTab(c, a, agent)
  \/ m = "navigate" /\ Navigate(c, a, agent)
  \/ m = "go_back" /\ GoBack(c)
  \/ m = "go_home" /\ GoHome(c)
  \/ m = "restore_session" /\ RestoreSession(c)
  \/ m = "view_source" /\ ViewSource(c)
  \/ m = "close_source_view" /\ CloseSourceView(c)

Args(m) == IF m \in IndexMethods THEN DOMAIN tabs
           ELSE IF m \in UrlMethods THEN Urls ELSE {NoUrl}

\* A pin makes another tab current than the one shown.
Disturbs(m, a) == m \in {"pin_tab", "unpin_tab"} /\ a # current

Idle(c) == todo[c] = <<>>

Call(c) ==
  /\ Idle(c) /\ calls < MaxCalls
  /\ \E m \in IndexMethods \cup UrlMethods \cup PlainMethods :
       \E a \in Args(m) :
         /\ Method(c, m, a, FALSE)
         /\ calm' = (calm /\ Settled /\ ~Disturbs(m, a))
  /\ calls' = calls + 1
  /\ UNCHANGED <<navVars, sessionVars, exits, savesOverlap, agentStrayed>>

\* Mistake: the tool runs before the session is marked.
HandleRequestUnmarked(c) ==
  /\ Idle(c) /\ calls < MaxCalls
  /\ \E m \in AgentTools : \E a \in Args(m) :
       todo' = [todo EXCEPT ![c] = <<[do |-> "tool", method |-> m, arg |-> a]>>]
  /\ calls' = calls + 1
  /\ UNCHANGED <<navVars, sessionVars, tabs, current, recent, agentActive, sourceReturn,
                 exits, calm, savesOverlap, agentStrayed>>

\* handle_request: a tool whose scope the token does not hold is refused and
\* changes nothing; otherwise the session is marked before the tool runs.
HandleRequest(c) ==
  /\ Idle(c) /\ calls < MaxCalls
  /\ agentActive' = TRUE
  /\ \E m \in AgentTools : \E a \in Args(m) :
       todo' = [todo EXCEPT ![c] = <<[do |-> "tool", method |-> m, arg |-> a]>>]
  /\ calls' = calls + 1
  /\ calm' = (calm /\ Settled)
  /\ UNCHANGED <<navVars, sessionVars, tabs, current, recent, sourceReturn,
                 exits, savesOverlap, agentStrayed>>

\* A minute after the last tool call; a call takes less to reach its check.
AgentExpires ==
  /\ agentActive
  /\ \A c \in Callers : todo[c] # <<>> => Head(todo[c]).do \notin {"tool", "open"}
  /\ agentActive' = FALSE
  /\ UNCHANGED <<navVars, sessionVars, tabs, current, todo, recent, sourceReturn,
                 calls, exits, calm, savesOverlap, agentStrayed>>

\* Half a second after a rate-limited call.
RecentExpires ==
  /\ \E m \in recent : recent' = recent \ {m}
  /\ UNCHANGED <<navVars, sessionVars, tabs, current, todo, agentActive, sourceReturn,
                 calls, exits, calm, savesOverlap, agentStrayed>>

-----------------------------------------------------------------------------
(* What a thread does next.                                                *)

At(c, step) == todo[c] # <<>> /\ Head(todo[c]).do = step
Now(c) == Head(todo[c])
Done(c) == todo' = [todo EXCEPT ![c] = Tail(@)]
Then(c, steps) == todo' = [todo EXCEPT ![c] = steps \o Tail(@)]

\* The tool of an agent's request calls its bridge method.
RunTool(c) ==
  /\ At(c, "tool")
  /\ \/ Method(c, Now(c).method, Now(c).arg, TRUE)
     \/ /\ \/ Now(c).method = "get_tabs"
           \/ Now(c).method \in IndexMethods /\ Now(c).arg \notin DOMAIN tabs
        /\ Done(c)
        /\ UNCHANGED <<tabs, current, recent, agentActive, sourceReturn>>
  /\ calm' = (calm /\ ~Disturbs(Now(c).method, Now(c).arg))
  /\ UNCHANGED <<navVars, sessionVars, calls, exits, savesOverlap, agentStrayed>>

\* new_tab after its checks: the time is noted, and a URL is checked.
OpenTab(c) ==
  /\ At(c, "open")
  /\ recent' = recent \cup {"new_tab"}
  /\ Then(c, IF Now(c).url = Start \/ IsNavigationSafe(Now(c).url)
             THEN <<[Now(c) EXCEPT !.do = "append"]>> ELSE <<Notify>>)
  /\ UNCHANGED <<navVars, sessionVars, tabs, current, agentActive, sourceReturn,
                 calls, exits, calm, savesOverlap, agentStrayed>>

\* new_tab under the lock.
AppendTab(c) ==
  /\ At(c, "append")
  /\ tabs' = Append(tabs, Tab(Now(c).url))
  /\ current' = Len(tabs')
  /\ Then(c, <<Persist, CheckedLoad(Now(c).url, Now(c).agent /\ Now(c).url # Start)>>)
  /\ UNCHANGED <<navVars, sessionVars, recent, agentActive, sourceReturn,
                 calls, exits, calm, savesOverlap, agentStrayed>>

\* _update_current, under the lock: whichever tab is current by then.
UpdateCurrent(c) ==
  /\ At(c, "update")
  /\ tabs' = [tabs EXCEPT ![current].url = Now(c).url]
  /\ Done(c)
  /\ UNCHANGED <<navVars, sessionVars, current, recent, agentActive, sourceReturn,
                 calls, exits, calm, savesOverlap, agentStrayed>>

\* _persist_session: the snapshot is taken under the lock, the save is not.
PersistSession(c) ==
  /\ At(c, "persist")
  /\ Then(c, IF Sanitized(Snapshot) = NoSession THEN <<>>
             ELSE <<[do |-> "save", snap |-> Snapshot]>>)
  /\ UNCHANGED <<navVars, sessionVars, tabs, current, recent, agentActive, sourceReturn,
                 calls, exits, calm, savesOverlap, agentStrayed>>

SaveSession(c) ==
  /\ \/ /\ At(c, "save")
        /\ SaveOpen(c)
        /\ Then(c, <<[Now(c) EXCEPT !.do = "write"], [do |-> "replace"]>>)
        /\ savesOverlap' = (savesOverlap \/ \E d \in Threads \ {c} : Saving(d))
     \/ /\ At(c, "write")
        /\ SaveWrite(c, Now(c).snap)
        /\ Done(c)
        /\ UNCHANGED savesOverlap
     \/ /\ At(c, "replace")
        /\ SaveReplace(c)
        /\ Done(c)
        /\ UNCHANGED savesOverlap
  /\ UNCHANGED <<navVars, tabs, current, recent, agentActive, sourceReturn,
                 calls, exits, calm, agentStrayed>>

PostLoad(c) ==
  /\ At(c, "load")
  /\ Post([do |-> "load", arg |-> Now(c).url])
  /\ Done(c)
  /\ agentStrayed' = (agentStrayed \/ (Now(c).agent /\ Now(c).url \notin AgentHosts))
  /\ UNCHANGED <<sessionVars, tabs, current, recent, agentActive, sourceReturn,
                 calls, exits, calm, savesOverlap>>

PostEval(c) ==
  /\ At(c, "eval")
  /\ Post([do |-> "eval", arg |-> Now(c).what])
  /\ Done(c)
  /\ UNCHANGED <<sessionVars, tabs, current, recent, agentActive, sourceReturn,
                 calls, exits, calm, savesOverlap, agentStrayed>>

\* The worker of view_source: a fetch that fails says so, one that succeeds
\* replaces the page and remembers where to return to.
FetchSource(c) ==
  /\ At(c, "fetch")
  /\ \/ /\ Then(c, <<Notify>>)
        /\ UNCHANGED <<navVars, sourceReturn>>
     \/ /\ sourceReturn' = Now(c).url
        /\ Post([do |-> "load_html", arg |-> SourceView])
        /\ Done(c)
  /\ UNCHANGED <<sessionVars, tabs, current, recent, agentActive,
                 calls, exits, calm, savesOverlap, agentStrayed>>

\* on_loaded reads the URL first and updates the tab later.
OnLoaded(l) ==
  /\ loads > 0 /\ Idle(l)
  /\ loads' = loads - 1
  /\ todo' = [todo EXCEPT ![l] =
                (IF CurrentUrl = NoUrl THEN <<>> ELSE <<Update(CurrentUrl), Persist>>)
                  \o <<Notify>>]
  /\ UNCHANGED <<queue, navThread, navStop, nav, working, late, watchdog, page,
                 sessionVars, tabs, current, recent, agentActive, sourceReturn,
                 calls, exits, calm, savesOverlap, agentStrayed>>

ThreadStep(c) ==
  \/ RunTool(c) \/ OpenTab(c) \/ AppendTab(c) \/ UpdateCurrent(c)
  \/ PersistSession(c) \/ SaveSession(c) \/ PostLoad(c) \/ PostEval(c)
  \/ FetchSource(c)

-----------------------------------------------------------------------------
(* The window and the process.                                             *)

\* The user follows a link, or a link asks for a new window and is opened in
\* this one when the gate of native_interception.py lets it.
Browse(url) ==
  /\ calls < MaxCalls /\ loads < LoadBound
  /\ page' = url
  /\ loads' = loads + 1
  /\ calls' = calls + 1
  /\ calm' = (calm /\ Settled)
  /\ UNCHANGED <<queue, navThread, navStop, nav, working, late, watchdog, sessionVars,
                 tabs, current, todo, recent, agentActive, sourceReturn, exits,
                 savesOverlap, agentStrayed>>

FollowLink == \E url \in Urls : Browse(url)
NewWindow == \E url \in Urls \ Unsafe : Browse(url)

\* Give-ups and thrown-away backlogs end the calm.
Nav ==
  /\ NavNext
  /\ calm' = (calm /\ late' \subseteq late /\ (watchdog = "drain" => queue = <<>>))
  /\ UNCHANGED <<sessionVars, tabs, current, todo, recent, agentActive, sourceReturn,
                 calls, exits, savesOverlap, agentStrayed>>

\* _init_stores_and_session: the saved session, or one start page.
FirstTabList ==
  IF SavedSession(FALSE) = NoSession THEN [tabs |-> <<Tab(Start)>>, current |-> 1]
  ELSE SavedSession(FALSE)

\* The process ends anywhere, and the next one starts from the files.  Bounds:
\* in the last calls (an end before them is a start with other files) and
\* inside a save (at any other time the files are whole).
RestartShell ==
  /\ exits < MaxExits /\ calls = MaxCalls /\ \E c \in Threads : Saving(c)
  /\ exits' = exits + 1
  /\ tabs' = FirstTabList.tabs /\ current' = FirstTabList.current
  /\ page' = tabs'[current'].url /\ loads' = 1
  /\ queue' = <<>> /\ navThread' = NoThread /\ navStop' = FALSE
  /\ nav' = [t \in NavThreads |-> "none"]
  /\ working' = [t \in NavThreads |-> NoOp]
  /\ late' = {} /\ watchdog' = "idle"
  /\ todo' = [c \in Threads |-> <<>>]
  /\ agentActive' = FALSE /\ recent' = {} /\ sourceReturn' = NoUrl
  /\ tmpOpen' = {}
  /\ calm' = TRUE
  /\ UNCHANGED <<sessionFile, tmpFile, tmpThere, calls, savesOverlap, agentStrayed>>

Init ==
  /\ NavInit
  /\ \E file \in SavedFiles : SessionInit(file)
  /\ tabs = FirstTabList.tabs /\ current = FirstTabList.current
  /\ page = tabs[current].url /\ loads = 1
  /\ todo = [c \in Threads |-> <<>>]
  /\ agentActive = FALSE /\ recent = {} /\ sourceReturn = NoUrl
  /\ calls = 0 /\ exits = 0 /\ calm = TRUE /\ savesOverlap = FALSE /\ agentStrayed = FALSE

Next ==
  \/ \E c \in Callers : Call(c) \/ HandleRequest(c)
  \/ \E c \in Threads : ThreadStep(c)
  \/ \E l \in Loaders : OnLoaded(l)
  \/ AgentExpires \/ RecentExpires
  \/ FollowLink \/ NewWindow
  \/ Nav
  \/ RestartShell

Spec == Init /\ [][Next]_vars

-----------------------------------------------------------------------------
(* Properties.                                                             *)

\* Types, and the index of the current tab is always the index of a tab.
TypeOK ==
  /\ NavTypeOK
  /\ tabs \in Seq(Tabs) /\ current \in DOMAIN tabs
  /\ DOMAIN todo = Threads
  /\ recent \subseteq {"new_tab", "view_source"} /\ agentActive \in BOOLEAN
  /\ sourceReturn \in Urls \cup {NoUrl}
  /\ tmpThere \in BOOLEAN /\ tmpOpen \subseteq Savers

\* The pinned tabs stand in front of the others, whatever calls overlap: the
\* clamp of move_tab counts on it.
PinnedFirst == PinnedInFront(tabs)

\* The cap of new_tab is checked outside the lock, so calls that overlap can
\* pass it together; it is passed by no more than the calls that can.
TabsBounded == Len(tabs) <= MaxTabs + Cardinality(Callers) - 1

\* What move_tab and new_tab rely on in the tab list.
TabsInOrder == PinnedFirst /\ TabsBounded

\* As long as calls wait for what earlier ones started, and no tab is pinned
\* or unpinned from behind another, the page shown once all is done is the
\* current tab's (or its source).
ShownIsCurrent ==
  calm /\ Settled => page \in {tabs[current].url, SourceView}

\* Under the same conditions session.json then holds the tabs as they are, less
\* those it cannot keep; with none to keep it is left as it was.
SavedIsCurrent ==
  calm /\ Settled /\ ~savesOverlap => Sanitized(Snapshot) \in {NoSession, sessionFile}

\* A session file that cannot be read takes two saves at once: an exit between
\* any two steps of a single save leaves the old session or the new one.
GarbledNeedsOverlap == sessionFile = Garbled => savesOverlap

\* A URL an agent passes to navigate or new_tab is loaded only when the
\* allowlist has it, whoever's calls come between.
AgentConfined == ~agentStrayed

\* What session_store.py says of its save: atomic, safe from a half-written
\* file.
NeverGarbled == sessionFile # Garbled
=============================================================================
