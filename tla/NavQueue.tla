------------------------------ MODULE NavQueue ------------------------------
(***************************************************************************)
(* The navigation queue of the pywebview shell (app/nav_queue.py) and the  *)
(* watchdog that restarts it (crash_reporter.start_watchdog through        *)
(* main_webview._start_watchdog).                                          *)
(*                                                                         *)
(* Window operations are posted by any thread and taken by a navigation    *)
(* thread, which runs each in a worker thread of its own and gives the     *)
(* worker up after a time.  A worker that was given up cannot be killed:   *)
(* its operation lands later, on whatever page the window shows then.      *)
(* What the window does with an operation is in Apply; the window itself   *)
(* is pywebview's and is modelled from how the shell uses it.              *)
(***************************************************************************)
EXTENDS Naturals, Sequences, FiniteSets

CONSTANTS
  Pages,           \* what the window can show
  SourceView,      \* the page of the source viewer, which has no URL of its own
  NavThreads,      \* identities of navigation threads that may be alive at once
  NoThread,        \* no navigation thread
  QueueLimit,      \* the backlog above which the watchdog suspects the thread (50)
  QueueBound,      \* bound: operations waiting at once
  LateBound,       \* bound: abandoned workers at once
  LoadBound        \* bound: loaded events waiting at once

ASSUME NavQueueAssumption ==
  /\ NoThread \notin NavThreads
  /\ SourceView \in Pages
  /\ QueueLimit \in Nat /\ QueueBound \in Nat
  /\ LateBound \in Nat /\ LoadBound \in Nat

\* What is posted: load a URL, show generated HTML, or run a script; of the
\* scripts only history navigation moves the window.
WindowOps ==
  [do : {"load"}, arg : Pages]
    \cup [do : {"load_html"}, arg : {SourceView}]
    \cup [do : {"eval"}, arg : {"inject", "history"}]

NoOp == [do |-> "none"]

VARIABLES
  queue,      \* _nav_q
  navThread,  \* _nav_thread
  navStop,    \* _nav_stop
  nav,        \* nav[t]: where thread t stands in _nav_loop
  working,    \* working[t]: the operation of the worker t waits for
  late,       \* operations of workers that were given up and still run
  watchdog,   \* where the watchdog stands in recover
  page,       \* the page the window shows
  loads       \* loaded events the window has raised and nobody handled yet

navVars == <<queue, navThread, navStop, nav, working, late, watchdog, page, loads>>

NavTypeOK ==
  /\ queue \in Seq(WindowOps)
  /\ navThread \in NavThreads \cup {NoThread}
  /\ navStop \in BOOLEAN
  /\ nav \in [NavThreads -> {"none", "get", "busy"}]
  /\ working \in [NavThreads -> WindowOps \cup {NoOp}]
  /\ late \subseteq WindowOps
  /\ watchdog \in {"idle", "drain", "stop", "restart"}
  /\ page \in Pages
  /\ loads \in 0..LoadBound

NavInit ==
  /\ queue = <<>>
  /\ navThread = NoThread
  /\ navStop = FALSE
  /\ nav = [t \in NavThreads |-> "none"]
  /\ working = [t \in NavThreads |-> NoOp]
  /\ late = {}
  /\ watchdog = "idle"

-----------------------------------------------------------------------------
(* Posting.                                                                *)

IsAlive(t) == t # NoThread /\ nav[t] # "none"

\* A thread that runs keeps its stop flag as it is; a new one clears it.
EnsureThread ==
  IF IsAlive(navThread)
  THEN UNCHANGED <<navThread, navStop, nav>>
  ELSE \E t \in NavThreads :
         /\ nav[t] = "none"
         /\ nav' = [nav EXCEPT ![t] = "get"]
         /\ navThread' = t
         /\ navStop' = FALSE

\* load, eval and load_html: make sure of a thread, then put.
Post(op) ==
  /\ Len(queue) < QueueBound
  /\ EnsureThread
  /\ queue' = Append(queue, op)
  /\ UNCHANGED <<working, late, watchdog, page, loads>>

-----------------------------------------------------------------------------
(* The window.                                                             *)

\* A load raises a loaded event; a history step may land on any page.
Apply(op) ==
  \/ /\ op.do = "eval" /\ op.arg = "inject"
     /\ UNCHANGED <<page, loads>>
  \/ /\ op.do \in {"load", "load_html"}
     /\ loads < LoadBound
     /\ page' = op.arg
     /\ loads' = loads + 1
  \/ /\ op.do = "eval" /\ op.arg = "history"
     /\ loads < LoadBound
     /\ page' \in Pages
     /\ loads' = loads + 1

-----------------------------------------------------------------------------
(* The navigation threads.                                                 *)

\* The loop condition, read before every get and at no other time.
NextTurn == IF navStop THEN "none" ELSE "get"

\* The half second of a get passed on an empty queue: the condition again.
GetTimeout(t) ==
  /\ nav[t] = "get" /\ queue = <<>>
  /\ nav' = [nav EXCEPT ![t] = NextTurn]
  /\ UNCHANGED <<queue, navThread, navStop, working, late, watchdog, page, loads>>

\* Take an operation and start its worker.
Take(t) ==
  /\ nav[t] = "get" /\ queue # <<>>
  /\ queue' = Tail(queue)
  /\ nav' = [nav EXCEPT ![t] = "busy"]
  /\ working' = [working EXCEPT ![t] = Head(queue)]
  /\ UNCHANGED <<navThread, navStop, late, watchdog, page, loads>>

\* The worker finished in time.
WorkerDone(t) ==
  /\ nav[t] = "busy"
  /\ Apply(working[t])
  /\ nav' = [nav EXCEPT ![t] = NextTurn]
  /\ working' = [working EXCEPT ![t] = NoOp]
  /\ UNCHANGED <<queue, navThread, navStop, late, watchdog>>

\* Mistake: the thread ends with the worker it gave up.
GiveUpAndEnd(t) ==
  /\ nav[t] = "busy"
  /\ Cardinality(late) < LateBound
  /\ late' = late \cup {working[t]}
  /\ nav' = [nav EXCEPT ![t] = "none"]
  /\ working' = [working EXCEPT ![t] = NoOp]
  /\ UNCHANGED <<queue, navThread, navStop, watchdog, page, loads>>

\* Six seconds passed: the thread goes on, the worker stays.
GiveUp(t) ==
  /\ nav[t] = "busy"
  /\ Cardinality(late) < LateBound
  /\ late' = late \cup {working[t]}
  /\ nav' = [nav EXCEPT ![t] = NextTurn]
  /\ working' = [working EXCEPT ![t] = NoOp]
  /\ UNCHANGED <<queue, navThread, navStop, watchdog, page, loads>>

\* A worker that was given up lands after all.
LateDone(op) ==
  /\ op \in late
  /\ Apply(op)
  /\ late' = late \ {op}
  /\ UNCHANGED <<queue, navThread, navStop, nav, working, watchdog>>

-----------------------------------------------------------------------------
(* The watchdog.                                                           *)

Healthy == Len(queue) <= QueueLimit /\ IsAlive(navThread)

\* Two identities to spare (a bound): for the thread the recovery starts and
\* for one that a poster starts before it.
WatchdogCheck ==
  /\ watchdog = "idle"
  /\ ~Healthy
  /\ Cardinality({t \in NavThreads : nav[t] = "none"}) >= 2
  /\ watchdog' = "drain"
  /\ UNCHANGED <<queue, navThread, navStop, nav, working, late, page, loads>>

\* recover, first half: throw the backlog away.
Drain ==
  /\ watchdog = "drain"
  /\ queue' = <<>>
  /\ watchdog' = "stop"
  /\ UNCHANGED <<navThread, navStop, nav, working, late, page, loads>>

\* recover, under the lock: tell the thread to stop and forget it.
Stop ==
  /\ watchdog = "stop"
  /\ navStop' = TRUE
  /\ navThread' = NoThread
  /\ watchdog' = "restart"
  /\ UNCHANGED <<queue, nav, working, late, page, loads>>

\* recover, second half: a new thread, which takes the stop back for all.
Restart ==
  /\ watchdog = "restart"
  /\ EnsureThread
  /\ watchdog' = "idle"
  /\ UNCHANGED <<queue, working, late, page, loads>>

NavStep(t) == GetTimeout(t) \/ Take(t) \/ WorkerDone(t) \/ GiveUp(t)
Recover == Drain \/ Stop \/ Restart

NavNext ==
  \/ \E t \in NavThreads : NavStep(t)
  \/ \E op \in late : LateDone(op)
  \/ WatchdogCheck
  \/ Recover

\* Threads are scheduled, and a wait with a timeout ends.  Nothing is assumed
\* of the workers: a window operation may hang for ever.
NavFairness ==
  /\ \A t \in NavThreads :
       /\ WF_navVars(GetTimeout(t))
       /\ WF_navVars(Take(t))
       /\ WF_navVars(GiveUp(t))
  /\ WF_navVars(Recover)

\* Whatever operations hang, and however the watchdog's recoveries fall between
\* them, what is posted is taken (or thrown away by a recovery): a hanging
\* operation, a thread told to stop, or two threads that share the queue after
\* a recovery, never leave a backlog behind.
BacklogDrains == queue # <<>> ~> queue = <<>>
=============================================================================
