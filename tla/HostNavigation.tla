--------------------------- MODULE HostNavigation ---------------------------
(***************************************************************************)
(* How a Windows tab gets a navigation authorized: the NavigationStarting  *)
(* handlers of WebView/HostWebView.cs, the one panel that asks the user    *)
(* (Chrome/ApprovalPanelController.cs), and behind them the broker and the *)
(* core, reduced to the requests they have registered and the document     *)
(* generation, which host, broker and core only move together.  All        *)
(* handlers run on the thread of the user interface, one after the other;  *)
(* what is uncertain is their order, and what a page asks for while the    *)
(* panel is up or before an approved navigation starts.                    *)
(*                                                                         *)
(* Left out: the upgrade to https, which starts another navigation, and    *)
(* what is in WindowsBroker: expiry of a session, the emergency switch.    *)
(***************************************************************************)
EXTENDS Naturals, SequencesExt

CONSTANTS
  TabIds,        \* tab ids; the session of a tab is s-<TabId>
  Addresses,     \* what is navigated to
  HighRisk,      \* the addresses the core wants confirmed
  Unregistered,  \* the session is in neither broker nor core
  NoRequest,
  NoPanel,
  MaxRequests,   \* bound: requests for confirmation in a behaviour
  MaxDocuments   \* bound: documents of one session

ASSUME HostNavigationAssumption ==
  /\ HighRisk \subseteq Addresses
  /\ MaxRequests \in Nat /\ MaxDocuments \in Nat
  /\ Unregistered \notin Nat /\ NoRequest \notin Nat
  /\ NoPanel \notin [tab : TabIds, request : 1..MaxRequests]

VARIABLES
  confirming,   \* NavigationConfirmationGate.IsRequired
  session,      \* the document generation of the tab's session, or Unregistered
  pending,      \* _pendingConfirmation: a request, or NoRequest
  resumption,   \* _pendingResumption: the request it was approved for
  panel,        \* the visible panel: PendingTabId and the request it displays
  requests,     \* the core's ledgers: "asked", "issued", or "over"
  allowed,      \* history: requests the panel displayed when Allow was pressed
  landed        \* history: navigations that an approval let through

hostVars == <<confirming, session, pending, resumption, panel, requests, allowed, landed>>

HostsInit ==
  /\ confirming \in BOOLEAN
  /\ session = [t \in TabIds |-> Unregistered]
  /\ pending = [t \in TabIds |-> NoRequest] /\ resumption = pending
  /\ panel = NoPanel
  /\ requests = <<>>
  /\ allowed = {} /\ landed = <<>>

Reset(f, ts, value) == [t \in TabIds |-> IF t \in ts THEN value ELSE f[t]]

\* The requests rs are no longer pending nor issued in the core.
Closed(rs) ==
  [r \in DOMAIN requests |-> IF r \in rs THEN [requests[r] EXCEPT !.status = "over"]
                                         ELSE requests[r]]
Of(ts) == {r \in DOMAIN requests : requests[r].tab \in ts}
PendingIn(ts) == {pending[t] : t \in ts} \ {NoRequest}

-----------------------------------------------------------------------------
(* A session begins when the WebView is wired and ends with its host.       *)

BeginHost(t) ==
  /\ session' = Reset(session, {t}, 0)
  /\ UNCHANGED <<confirming, pending, resumption, panel, requests, allowed, landed>>

\* Mistake: the sessions of the hosts stay registered.
SessionsKept(ts) == session

SessionsReset(ts) == Reset(session, ts, Unregistered)

\* Dispose of the hosts of these tabs: what is pending is rejected, which takes
\* the panel down, and the session is destroyed. Another host starts anew.
EndHosts(ts) ==
  /\ panel' = IF PendingIn(ts) # {} THEN NoPanel ELSE panel
  /\ pending' = Reset(pending, ts, NoRequest)
  /\ resumption' = Reset(resumption, ts, NoRequest)
  /\ requests' = Closed(Of(ts))
  /\ session' = SessionsReset(ts)
  /\ UNCHANGED <<confirming, allowed, landed>>

-----------------------------------------------------------------------------
(* A top-level navigation that is let through starts the next document; the *)
(* core forgets what it had pending and issued for the one before.          *)

Advance(t) ==
  /\ session[t] < MaxDocuments
  /\ session' = [session EXCEPT ![t] = @ + 1]

\* Mistake: neither the host nor the core compares the address.
ResumesAnywhere(t, u) ==
  /\ resumption[t] # NoRequest
  /\ requests[resumption[t]].generation = session[t] /\ requests[resumption[t]].status = "issued"

\* TryResumeApprovedNavigation: an approval lets the very next navigation
\* through, if it is to the approved address and broker and core redeem it.
Resumes(t, u) ==
  /\ resumption[t] # NoRequest
  /\ requests[resumption[t]] = [tab |-> t, url |-> u, generation |-> session[t], status |-> "issued"]

Resume(t, u) ==
  /\ Resumes(t, u)
  /\ Advance(t) /\ requests' = Closed(Of({t}))
  /\ landed' = Append(landed, [tab |-> t, url |-> u, request |-> resumption[t]])
  /\ resumption' = [resumption EXCEPT ![t] = NoRequest]
  /\ UNCHANGED <<confirming, pending, panel, allowed>>

\* An address the core lets pass is redeemed at once.
LetThrough(t, u) ==
  /\ u \notin HighRisk
  /\ Advance(t) /\ requests' = Closed(Of({t}))
  /\ resumption' = [resumption EXCEPT ![t] = NoRequest]
  /\ UNCHANGED <<confirming, pending, panel, allowed, landed>>

\* The core registers a pending approval and answers RequireConfirmation.
NextRequest == Len(requests) + 1
Asked(t, u) == [tab |-> t, url |-> u, generation |-> session[t], status |-> "asked"]
CoreAsks(u) == u \in HighRisk /\ NextRequest <= MaxRequests

\* Mistake: the panel shows the new request and leaves the other tab's pending.
NobodyDisplaced(t) == {}

\* The panel has no queue: the request of the tab it shows is rejected first.
Displaced(t) ==
  {d \in TabIds \ {t} : panel # NoPanel /\ panel.tab = d /\ pending[d] # NoRequest}

Ask(t, u) ==
  /\ CoreAsks(u) /\ pending[t] = NoRequest
  /\ requests' = Append(Closed(PendingIn(Displaced(t))), Asked(t, u))
  /\ pending' = [Reset(pending, Displaced(t), NoRequest) EXCEPT ![t] = NextRequest]
  /\ resumption' = Reset(resumption, {t} \cup Displaced(t), NoRequest)
  /\ panel' = [tab |-> t, request |-> NextRequest]
  /\ UNCHANGED <<confirming, session, allowed, landed>>

\* RejectPendingNavigation; whoever showed the request takes the panel down.
Reject(ts) ==
  /\ requests' = Closed(PendingIn(ts))
  /\ pending' = Reset(pending, ts, NoRequest)
  /\ resumption' = [t \in TabIds |-> IF t \in ts /\ pending[t] # NoRequest
                                     THEN NoRequest ELSE resumption[t]]
  /\ panel' = IF PendingIn(ts) # {} THEN NoPanel ELSE panel
  /\ UNCHANGED <<confirming, session, allowed, landed>>

\* A build without the gate denies what would have to be confirmed, and leaves
\* the pending approval in the core; so does a frame, with the gate or without.
LeaveUnconfirmed(t, u) ==
  /\ CoreAsks(u)
  /\ requests' = Append(requests, Asked(t, u))
  /\ UNCHANGED <<confirming, session, pending, panel, allowed, landed>>

\* Refused for another reason: the address, the switch, a full ledger.
Refuse(t) ==
  /\ resumption' = [resumption EXCEPT ![t] = NoRequest]
  /\ UNCHANGED <<confirming, session, pending, panel, requests, allowed, landed>>

TopNavigation(t, u) ==
  /\ session[t] # Unregistered
  /\ \/ Resume(t, u)
     \/ /\ ~Resumes(t, u)
        /\ IF ~confirming
           THEN LetThrough(t, u) \/ (LeaveUnconfirmed(t, u) /\ UNCHANGED resumption)
           ELSE IF pending[t] # NoRequest
           THEN Reject({t})   \* and denies this one too
           ELSE LetThrough(t, u) \/ Ask(t, u) \/ Refuse(t)

FrameNavigation(t, u) ==
  /\ session[t] # Unregistered
  /\ LeaveUnconfirmed(t, u) /\ UNCHANGED resumption

-----------------------------------------------------------------------------
(* The buttons of the panel, and time.                                      *)

\* ApprovePendingNavigation, which then starts the navigation: a message to the
\* WebView, behind whatever the page has under way.
Allow ==
  /\ panel # NoPanel
  /\ LET t == panel.tab  r == pending[t] IN
     /\ r # NoRequest
     /\ allowed' = allowed \cup {panel.request}
     /\ pending' = [pending EXCEPT ![t] = NoRequest]
     /\ IF requests[r].status = "asked"
        THEN /\ requests' = [requests EXCEPT ![r].status = "issued"]
             /\ resumption' = [resumption EXCEPT ![t] = r]
        ELSE UNCHANGED <<requests, resumption>>
  /\ panel' = NoPanel
  /\ UNCHANGED <<confirming, session, landed>>

Deny == panel # NoPanel /\ Reject({panel.tab})

\* The core lets pending approvals and issued actions expire; the host and the
\* panel do not notice.
Expire(r) ==
  /\ requests[r].status # "over"
  /\ requests' = Closed({r})
  /\ UNCHANGED <<confirming, session, pending, resumption, panel, allowed, landed>>

HostEvents ==
  \/ \E t \in TabIds, u \in Addresses : TopNavigation(t, u) \/ FrameNavigation(t, u)
  \/ Allow \/ Deny
  \/ \E r \in DOMAIN requests : Expire(r)

HostsNext ==
  \/ HostEvents
  \/ \E t \in TabIds : IF session[t] = Unregistered THEN BeginHost(t) ELSE EndHosts({t})

HostsSpec == HostsInit /\ [][HostsNext]_hostVars

-----------------------------------------------------------------------------

\* What the panel shows is the request its tab waits for, and no other tab waits:
\* nothing stays pending out of the user's sight (ApprovalPanelController.cs:9-13).
PanelIsTheRequest ==
  \A t \in TabIds :
    pending[t] # NoRequest <=> panel # NoPanel /\ panel.tab = t /\ panel.request = pending[t]

\* What an approval let through is what the user allowed with that very request
\* on display, in that tab, and it is let through once (HostWebView.cs:270-273).
ApprovedOnce ==
  /\ IsInjective([i \in DOMAIN landed |-> landed[i].request])
  /\ \A i \in DOMAIN landed :
       /\ landed[i].request \in allowed
       /\ LET r == requests[landed[i].request] IN r.tab = landed[i].tab /\ r.url = landed[i].url

\* The user decides on what is shown, and on nothing else.
WhatIsShownIsApproved == PanelIsTheRequest /\ ApprovedOnce
=============================================================================
