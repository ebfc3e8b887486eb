----------------------------- MODULE NativeLayer -----------------------------
(***************************************************************************)
(* How the pywebview shell attaches its native layer to the window: the    *)
(* start of main_webview.py, gate_window_open and post_start_setup of      *)
(* app/native_interception.py, app/native_hardening.py and                 *)
(* app/native_monitoring.py.                                               *)
(*                                                                         *)
(* Two threads wait for the window's control and subscribe one handler to  *)
(* its ready event, which is raised once and calls whoever subscribed by   *)
(* then; a watchdog notices when nobody was called.  A part of the layer   *)
(* that cannot be attached is named in the log.  pywebview and WebView2    *)
(* are modelled from how the shell uses them.                              *)
(***************************************************************************)
EXTENDS Naturals, FiniteSets

CONSTANT Subscribers      \* the threads that run _subscribe_core_ready

\* Parts attached to the core, and the request policy, which is attached to
\* the window.
CoreParts == {"fingerprint", "newWindow", "downloads", "crashListener",
              "settings", "enhancedSecurity"}
Parts == CoreParts \cup {"requestPolicy"}

VARIABLES
  gate,       \* who answers new-window requests in pywebview: its handler
              \* replaced ("class"), its own ("own"), nobody ("none")
  control,    \* the window's control: "absent", "created", "ready"
  core,       \* the control has a core (_resolve_core is not None)
  sub,        \* sub[s]: "poll", "subscribed", "gaveUp"
  called,     \* handlers the ready event has still to call
  ran,        \* post_start_ran
  setup,      \* the next step of post_start_setup
  watching,   \* _install_watchdog still waits
  attached,   \* attached[p]: how often part p was attached
  logged,     \* parts whose absence is in the log
  doNotTrack, \* config.do_not_track
  webMessage, \* Settings.IsWebMessageEnabled
  doc,        \* the document shown: where it is from, whether it got the
              \* message channel, whether the request policy acted on its
              \* request, whether a request without a host was acted on since
  before,     \* the document shown before it
  opened      \* the last new-window request: its URL's safety, loads it caused

nativeVars == <<gate, control, core, sub, called, ran, setup, watching, attached,
                logged, doNotTrack, webMessage, doc, before, opened>>
startVars == <<gate, control, core, sub, called, ran, watching, doNotTrack>>
pageVars == <<webMessage, doc, before, opened>>

NativeTypeOK ==
  /\ gate \in {"class", "own", "none"}
  /\ control \in {"absent", "created", "ready"} /\ core \in BOOLEAN
  /\ sub \in [Subscribers -> {"poll", "subscribed", "gaveUp"}]
  /\ called \in 0..Cardinality(Subscribers)
  /\ ran \in BOOLEAN /\ watching \in BOOLEAN
  /\ setup \in {"none", "interception", "crashListener", "hardening", "policy", "done"}
  /\ attached \in [Parts -> 0..Cardinality(Subscribers)]
  /\ logged \subseteq Parts
  /\ doNotTrack \in BOOLEAN /\ webMessage \in BOOLEAN
  /\ {doc, before} \subseteq
       [from : {"local", "remote"}, channel : BOOLEAN, policed : BOOLEAN, hostless : BOOLEAN]
  /\ opened \in [safe : BOOLEAN, loads : 0..(1 + Cardinality(Subscribers))]

\* The class-level gate is put in place before the window exists, or fails;
\* pywebview switches the message channel on for its bridge.
NativeInit ==
  /\ gate \in {"class", "own", "none"}
  /\ control = "absent" /\ core = FALSE
  /\ sub = [s \in Subscribers |-> "poll"] /\ called = 0
  /\ ran = FALSE /\ setup = "none" /\ watching = TRUE
  /\ attached = [p \in Parts |-> 0] /\ logged = {}
  /\ doNotTrack \in BOOLEAN
  /\ webMessage = TRUE
  /\ doc = [from |-> "local", channel |-> TRUE, policed |-> FALSE, hostless |-> FALSE]
  /\ before = doc
  /\ opened = [safe |-> TRUE, loads |-> 0]

-----------------------------------------------------------------------------
(* The control and the threads that wait for it.                           *)

CreateControl ==
  /\ control = "absent"
  /\ control' = "created"
  /\ UNCHANGED <<gate, core, sub, called, ran, setup, watching, attached, logged,
                 doNotTrack, pageVars>>

\* InitializationCompleted, raised once, with a core or without one.
RaiseReady ==
  /\ control = "created"
  /\ control' = "ready"
  /\ core' \in BOOLEAN
  /\ called' = Cardinality({s \in Subscribers : sub[s] = "subscribed"})
  /\ UNCHANGED <<gate, sub, ran, setup, watching, attached, logged, doNotTrack, pageVars>>

\* _subscribe_core_ready: nothing tells it that the event has passed.
Subscribe(s) ==
  /\ sub[s] = "poll" /\ control # "absent"
  /\ sub' = [sub EXCEPT ![s] = "subscribed"]
  /\ UNCHANGED <<gate, control, core, called, ran, setup, watching, attached, logged,
                 doNotTrack, pageVars>>

\* Thirty seconds without a control.
StopPolling(s) ==
  /\ sub[s] = "poll" /\ control = "absent"
  /\ sub' = [sub EXCEPT ![s] = "gaveUp"]
  /\ logged' = Parts
  /\ UNCHANGED <<gate, control, core, called, ran, setup, watching, attached,
                 doNotTrack, pageVars>>

\* Mistake: whether the setup ran already is not asked.
OnCoreReadyAgain ==
  /\ called > 0 /\ setup \in {"none", "done"}
  /\ called' = called - 1
  /\ ran' = TRUE
  /\ setup' = "interception"
  /\ UNCHANGED <<gate, control, core, sub, watching, attached, logged, doNotTrack, pageVars>>

\* _on_core_ready, in the thread of the window; the setup runs once.
OnCoreReady ==
  /\ called > 0 /\ setup \in {"none", "done"}
  /\ called' = called - 1
  /\ ran' = TRUE
  /\ setup' = IF ran THEN setup ELSE "interception"
  /\ UNCHANGED <<gate, control, core, sub, watching, attached, logged, doNotTrack, pageVars>>

\* Mistake: the watchdog speaks only when nobody could subscribe.
WatchdogOfSubscribers ==
  /\ watching
  /\ watching' = FALSE
  /\ logged' = IF \A s \in Subscribers : sub[s] = "gaveUp" THEN Parts ELSE logged
  /\ UNCHANGED <<gate, control, core, sub, called, ran, setup, attached, doNotTrack, pageVars>>

\* _install_watchdog: the setup ran, or thirty seconds have passed.
InstallWatchdog ==
  /\ watching
  /\ watching' = FALSE
  /\ logged' = IF ran THEN logged ELSE Parts
  /\ UNCHANGED <<gate, control, core, sub, called, ran, setup, attached, doNotTrack, pageVars>>

-----------------------------------------------------------------------------
(* The setup, in the thread of the window.                                 *)

\* Each wanted part is attached or, for want of a core or of an API, logged.
Attach(wanted, ok) ==
  /\ attached' = [p \in Parts |-> IF p \in wanted /\ ok[p] THEN attached[p] + 1
                                  ELSE attached[p]]
  /\ logged' = logged \cup {p \in wanted : ~ok[p]}

AttachCore(wanted) ==
  \E ok \in [wanted -> BOOLEAN] : (~core => \A p \in wanted : ~ok[p]) /\ Attach(wanted, ok)

\* The core-level gate only makes up for a missing class-level one, lest a
\* safe URL be loaded twice.
InterceptionParts ==
  {"fingerprint", "downloads"} \cup (IF gate = "class" THEN {} ELSE {"newWindow"})

InstallInterception ==
  /\ setup = "interception"
  /\ AttachCore(InterceptionParts)
  /\ setup' = "crashListener"
  /\ UNCHANGED <<startVars, pageVars>>

\* Probe and monitoring only observe; the crash listener follows them.
InstallCrashListener ==
  /\ setup = "crashListener"
  /\ AttachCore({"crashListener"})
  /\ setup' = "hardening"
  /\ UNCHANGED <<startVars, pageVars>>

WindowHardening ==
  /\ setup = "hardening"
  /\ AttachCore({"settings", "enhancedSecurity"})
  /\ setup' = "policy"
  /\ UNCHANGED <<startVars, pageVars>>

\* The request policy comes with do_not_track; where the event is missing, or
\* the option is off, nothing is attached and nothing is logged.
ApplyRequestPolicy ==
  /\ setup = "policy"
  /\ setup' = "done"
  /\ \/ /\ doNotTrack
        /\ attached' = [attached EXCEPT !["requestPolicy"] = @ + 1]
     \/ UNCHANGED attached
  /\ UNCHANGED <<startVars, logged, pageVars>>

-----------------------------------------------------------------------------
(* Requests and pages.                                                     *)

HasPolicy == attached["requestPolicy"] > 0

\* What comes of a request in _on_request: the switch is "set" by the host of
\* its URL, "closed" because setting failed, or "kept": no policy, no headers,
\* no settings, or a failure with no settings to close.
Outcomes == {"set", "closed", "kept"}

Acts(outcome) == HasPolicy \/ outcome = "kept"

\* Mistake: the switch goes by the page that sends the request.
OnRequestOfPage(host, outcome) ==
  webMessage' = CASE outcome = "set" -> doc.from = "local"
                  [] outcome = "closed" -> FALSE
                  [] outcome = "kept" -> webMessage

\* _on_request: a request whose URL has no host counts as local.
OnRequest(host, outcome) ==
  webMessage' = CASE outcome = "set" -> ~host
                  [] outcome = "closed" -> FALSE
                  [] outcome = "kept" -> webMessage

\* A document is requested, and gets the channel as it was set by then: the
\* setting works from the next navigation on.  The shell's own pages have no
\* host (file:, load_html); a page from elsewhere may have none either.
LoadDocument(from, host, outcome) ==
  /\ control = "ready" /\ core /\ Acts(outcome)
  /\ from = "local" => ~host
  /\ OnRequest(host, outcome)
  /\ doc' = [from |-> from, channel |-> webMessage, policed |-> outcome # "kept",
             hostless |-> outcome = "set" /\ ~host]
  /\ before' = doc
  /\ UNCHANGED <<startVars, setup, attached, logged, opened>>

\* The document shown asks for something; a remote page, too, may ask for what
\* has no host (data:, blob:).
LoadResource(host, outcome) ==
  /\ control = "ready" /\ core /\ Acts(outcome)
  /\ OnRequest(host, outcome)
  /\ doc' = [doc EXCEPT !.hostless = @ \/ (outcome = "set" /\ ~host)]
  /\ UNCHANGED <<startVars, setup, attached, logged, before, opened>>

\* A new window is asked for: pywebview's handler, replaced or not, and the
\* core-level one each load what they let pass into this window.
NewWindowRequested(safe) ==
  /\ control = "ready" /\ core
  /\ opened' = [safe |-> safe,
                loads |-> (IF gate = "own" \/ (gate = "class" /\ safe) THEN 1 ELSE 0)
                            + (IF safe THEN attached["newWindow"] ELSE 0)]
  /\ UNCHANGED <<startVars, setup, attached, logged, webMessage, doc, before>>

-----------------------------------------------------------------------------
SetupStep ==
  InstallInterception \/ InstallCrashListener \/ WindowHardening \/ ApplyRequestPolicy

NativeNext ==
  \/ CreateControl \/ RaiseReady
  \/ \E s \in Subscribers : Subscribe(s) \/ StopPolling(s)
  \/ OnCoreReady \/ InstallWatchdog \/ SetupStep
  \/ \E host \in BOOLEAN, outcome \in Outcomes :
       \/ \E from \in {"local", "remote"} : LoadDocument(from, host, outcome)
       \/ LoadResource(host, outcome)
  \/ \E safe \in BOOLEAN : NewWindowRequested(safe)

NativeSpec == NativeInit /\ [][NativeNext]_nativeVars

\* Threads are scheduled, waits with a timeout end, and the window's thread
\* finishes what it was called for.  The window itself may never come up.
NativeFairness ==
  /\ WF_nativeVars(InstallWatchdog)
  /\ WF_nativeVars(OnCoreReady)
  /\ WF_nativeVars(SetupStep)

-----------------------------------------------------------------------------
(* Properties.                                                             *)

\* Two threads subscribe the same handler, the event calls both, and two gates
\* may answer the same request: unless pywebview kept its own handler, a new
\* window's safe URL is still loaded at most once into this window and an
\* unsafe one never.
NewWindowGated ==
  gate # "own" => opened.loads <= (IF opened.safe THEN 1 ELSE 0)

\* The switch of the message channel goes by the request at hand and works one
\* document late: a remote document has no channel when the one before it was
\* remote, the policy acted on that one's request, and all it acted on from
\* then on had a host.  One request without a host opens the channel again for
\* the next document, wherever that is from.
ChannelLagsByOne ==
  doc.from = "remote" /\ before.from = "remote" /\ before.policed /\ ~before.hostless
    => ~doc.channel

\* What a remote page is given, by its links or by the channel.
PagesConfined == NewWindowGated /\ ChannelLagsByOne

\* Whatever order the window, the subscribers and the setup come in, every
\* part of the core's layer ends up attached or named in the log; the new
\* window's part only where the class-level gate is missing.
AttachedOrLogged ==
  <>(\A p \in CoreParts :
       attached[p] > 0 \/ p \in logged \/ (p = "newWindow" /\ gate = "class"))
=============================================================================
