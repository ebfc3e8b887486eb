----------------------------- MODULE MCDesktop -----------------------------
(***************************************************************************)
(* One instance for three parts of the Windows application: the threat     *)
(* feed, the approval of navigations, and the tabs of a window, whose      *)
(* sessions begin and end as those of navigations do.  Each behaviour      *)
(* exercises one part, chosen in its first state.                          *)
(***************************************************************************)
EXTENDS ThreatFeed, WindowTabs

CONSTANTS
  feed1, feed2, ui1, ui2,
  Quiet   \* bound: tabs without a session where approvals are exercised

VARIABLE focus

DesktopInit ==
  /\ focus \in {"feed", "approvals", "window"}
  /\ Init /\ (focus # "feed" => feed_url = NoFeed /\ cache = Nothing)
  /\ HostsInit /\ (focus # "approvals" => confirming)
  /\ WindowInit

InFeed(A) == focus = "feed" /\ A /\ UNCHANGED <<focus, hostVars, windowVars>>
InApprovals(A) == focus = "approvals" /\ A /\ UNCHANGED <<focus, vars, windowVars>>
InWindow(A) == focus = "window" /\ A /\ UNCHANGED <<focus, vars>>

Feed      == InFeed(Next)
Approvals == InApprovals(HostsNext) /\ \A t \in Quiet : session'[t] = Unregistered
Window    == InWindow(WindowNext)

DesktopNext == Feed \/ Approvals \/ Window

desktopVars == <<focus, vars, hostVars, windowVars>>

(* The fairness of ThreatFeed, in its own behaviours.                      *)
DesktopFairness ==
  /\ WF_desktopVars(InFeed(LoadCached \/ ApplyCached \/ PeriodicRefresh))
  /\ \A j \in Tasks :
       /\ WF_desktopVars(InFeed(Work(j)))
       /\ SF_desktopVars(InFeed(EnterGate(j) \/ ClearList(j)))

DesktopSpec == DesktopInit /\ [][DesktopNext]_desktopVars /\ DesktopFairness

(* WindowTabsKept where sessions follow the tabs of a window: elsewhere    *)
(* they begin and end by themselves.                                       *)
WindowKept == focus = "window" => WindowTabsKept
=============================================================================
