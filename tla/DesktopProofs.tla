---------------------------- MODULE DesktopProofs ----------------------------
(***************************************************************************)
(* Proofs about the window of the Windows application, for any tabs,       *)
(* addresses and bounds: what the user is shown is what is approved,       *)
(* whichever tabs are opened, closed, put to sleep or restored meanwhile.  *)
(* And about the threat feed: when a list that was cleared stays cleared.  *)
(***************************************************************************)
EXTENDS MCDesktop, ListProofs

Request ==
  [tab : TabIds, url : Addresses, generation : Nat, status : {"asked", "issued", "over"}]

\* The panel shows the one request that is pending.
PanelShowsPending ==
  /\ panel # NoPanel => /\ panel.tab \in TabIds
                        /\ pending[panel.tab] # NoRequest
                        /\ panel.request = pending[panel.tab]
  /\ \A t \in TabIds : pending[t] # NoRequest => panel # NoPanel /\ panel.tab = t

\* What a tab waits for was asked; what it may resume was allowed.
RequestsAreKnown ==
  \A t \in TabIds :
    /\ pending[t] \in DOMAIN requests \cup {NoRequest}
    /\ resumption[t] # NoRequest => resumption[t] \in DOMAIN requests \cap allowed

\* An approval that was used is used up in the core.
LandedIsOver ==
  \A i \in DOMAIN landed :
    /\ landed[i].request \in DOMAIN requests
    /\ requests[landed[i].request].status = "over"

HostsTypeOK ==
  /\ session \in [TabIds -> Nat \cup {Unregistered}]
  /\ pending \in [TabIds -> Nat \cup {NoRequest}]
  /\ resumption \in [TabIds -> Nat \cup {NoRequest}]
  /\ requests \in Seq(Request)
  /\ landed \in Seq([tab : TabIds, url : Addresses, request : Nat])

HostsInv ==
  HostsTypeOK /\ PanelShowsPending /\ RequestsAreKnown /\ LandedIsOver /\ ApprovedOnce

-----------------------------------------------------------------------------
(* The requests of the core: none is dropped, one that is over stays so.   *)

\* What every step does to the requests there are.
RequestsKept ==
  /\ requests' \in Seq(Request)
  /\ DOMAIN requests \subseteq DOMAIN requests'
  /\ \A r \in DOMAIN requests :
       /\ requests'[r].tab = requests[r].tab /\ requests'[r].url = requests[r].url
       /\ requests[r].status = "over" => requests'[r].status = "over"

LEMMA ClosedKeeps ==
  ASSUME requests \in Seq(Request), NEW rs
  PROVE  /\ Closed(rs) \in Seq(Request)
         /\ DOMAIN Closed(rs) = DOMAIN requests /\ Len(Closed(rs)) = Len(requests)
         /\ \A r \in DOMAIN requests :
              /\ Closed(rs)[r].tab = requests[r].tab /\ Closed(rs)[r].url = requests[r].url
              /\ requests[r].status = "over" \/ r \in rs => Closed(rs)[r].status = "over"
<1>1. /\ Len(requests) \in Nat /\ DOMAIN requests = 1..Len(requests)
      /\ \A r \in DOMAIN requests : requests[r] \in Request
  OBVIOUS
<1>2. \A r \in DOMAIN requests : Closed(rs)[r] \in Request
  BY <1>1 DEF Closed, Request
<1>3. Closed(rs) \in [1..Len(requests) -> Request]
  BY <1>1, <1>2 DEF Closed
<1>4. Closed(rs) \in Seq(Request) /\ Len(Closed(rs)) = Len(requests)
  BY <1>1, <1>3
<1> QED
  BY <1>1, <1>3, <1>4 DEF Closed, Request

LEMMA ClosedRequestsKept ==
  ASSUME requests \in Seq(Request), NEW rs, requests' = Closed(rs)
  PROVE  RequestsKept
BY ClosedKeeps DEF RequestsKept

LEMMA AskedRequestsKept ==
  ASSUME requests \in Seq(Request), NEW old \in Seq(Request),
         DOMAIN old = DOMAIN requests,
         \A r \in DOMAIN requests :
           /\ old[r].tab = requests[r].tab /\ old[r].url = requests[r].url
           /\ requests[r].status = "over" => old[r].status = "over",
         NEW q \in Request, requests' = Append(old, q)
  PROVE  /\ RequestsKept
         /\ Len(requests) + 1 \in DOMAIN requests'
<1>1. Len(old) = Len(requests) /\ Len(requests) \in Nat
  OBVIOUS
<1>2. DOMAIN requests' = 1..(Len(requests) + 1) /\ requests' \in Seq(Request)
  BY <1>1
<1>3. \A r \in DOMAIN requests : requests'[r] = old[r]
  BY <1>1
<1> QED
  BY <1>1, <1>2, <1>3 DEF RequestsKept

-----------------------------------------------------------------------------
(* What stays true of the navigations that were let through.               *)

LEMMA LandedStays ==
  ASSUME HostsInv, RequestsKept, allowed \subseteq allowed', landed' = landed
  PROVE  LandedIsOver' /\ ApprovedOnce'
<1>1. \A i \in DOMAIN landed : landed[i].request \in DOMAIN requests
  BY DEF HostsInv, LandedIsOver
<1>2. LandedIsOver'
  BY <1>1 DEF HostsInv, LandedIsOver, RequestsKept
<1>3. IsInjective([i \in DOMAIN landed |-> landed[i].request])'
  BY DEF HostsInv, ApprovedOnce, IsInjective
<1>4. ASSUME NEW i \in DOMAIN landed
      PROVE  /\ landed[i].request \in allowed'
             /\ requests'[landed[i].request].tab = landed[i].tab
             /\ requests'[landed[i].request].url = landed[i].url
  BY <1>1 DEF HostsInv, ApprovedOnce, RequestsKept
<1> QED
  BY <1>2, <1>3, <1>4 DEF ApprovedOnce

\* A tab resumes what it was allowed, which is issued and so was not used yet.
LEMMA LandedOnceMore ==
  ASSUME HostsInv, NEW t \in TabIds, NEW u \in Addresses, Resume(t, u)
  PROVE  LandedIsOver' /\ ApprovedOnce' /\ landed' \in Seq([tab : TabIds, url : Addresses, request : Nat])
<1> DEFINE r == resumption[t]
           new == [tab |-> t, url |-> u, request |-> r]
<1>1. /\ r \in DOMAIN requests /\ r \in allowed /\ r \in Nat
      /\ requests[r].status = "issued" /\ requests[r].tab = t /\ requests[r].url = u
  BY DEF Resume, Resumes, HostsInv, RequestsAreKnown, HostsTypeOK
<1>2. /\ requests' = Closed(Of({t})) /\ landed' = Append(landed, new)
      /\ allowed' = allowed /\ requests \in Seq(Request)
      /\ landed \in Seq([tab : TabIds, url : Addresses, request : Nat])
  BY DEF Resume, HostsInv, HostsTypeOK
<1>3. RequestsKept /\ requests'[r].status = "over" /\ r \in DOMAIN requests'
  <2>1. r \in Of({t})
    BY <1>1 DEF Of
  <2> QED
    BY <1>1, <1>2, <2>1, ClosedKeeps, ClosedRequestsKept
<1>4. \A i \in DOMAIN landed : landed[i].request # r
  BY <1>1 DEF HostsInv, LandedIsOver
<1>5. new \in [tab : TabIds, url : Addresses, request : Nat]
  BY <1>1
<1>6. /\ landed' \in Seq([tab : TabIds, url : Addresses, request : Nat])
      /\ DOMAIN landed = 1..Len(landed) /\ Len(landed) \in Nat
      /\ DOMAIN landed' = 1..(Len(landed) + 1)
      /\ landed'[Len(landed) + 1] = new
      /\ \A i \in DOMAIN landed : landed'[i] = landed[i]
  BY <1>2, <1>5
<1>7. LandedIsOver'
  BY <1>3, <1>6, SMTT(30) DEF HostsInv, LandedIsOver, RequestsKept
<1>8. IsInjective([i \in DOMAIN landed |-> landed[i].request])'
  BY <1>4, <1>6 DEF HostsInv, ApprovedOnce, IsInjective
<1>9. ASSUME NEW i \in DOMAIN landed'
      PROVE  /\ landed'[i].request \in allowed'
             /\ requests'[landed'[i].request].tab = landed'[i].tab
             /\ requests'[landed'[i].request].url = landed'[i].url
  <2>1. CASE i = Len(landed) + 1
    <3>1. landed'[i].request = r /\ landed'[i].tab = t /\ landed'[i].url = u
      BY <1>6, <2>1
    <3> QED
      BY <1>1, <1>2, <1>3, <3>1 DEF RequestsKept
  <2>2. CASE i \in DOMAIN landed
    <3>1. landed'[i] = landed[i]
      BY <1>6, <2>2
    <3>2. /\ landed[i].request \in DOMAIN requests /\ landed[i].request \in allowed
          /\ requests[landed[i].request].tab = landed[i].tab
          /\ requests[landed[i].request].url = landed[i].url
      BY <2>2 DEF HostsInv, ApprovedOnce, LandedIsOver
    <3> QED
      BY <1>2, <1>3, <3>1, <3>2 DEF RequestsKept
  <2> QED
    BY <1>6, <2>1, <2>2
<1> QED
  BY <1>6, <1>7, <1>8, <1>9 DEF ApprovedOnce

-----------------------------------------------------------------------------
(* What moves the panel, the pending requests and the resumptions.         *)

\* Whatever ends the requests that tabs wait for takes the panel down, and
\* nothing else does.
LEMMA WaitingEnds ==
  ASSUME HostsTypeOK, PanelShowsPending, NEW ts \in SUBSET TabIds,
         pending' = Reset(pending, ts, NoRequest),
         panel' = IF PendingIn(ts) # {} THEN NoPanel ELSE panel
  PROVE  PanelShowsPending' /\ pending' \in [TabIds -> Nat \cup {NoRequest}]
<1>1. \A t \in TabIds : pending'[t] = IF t \in ts THEN NoRequest ELSE pending[t]
  BY DEF Reset
<1>2. pending' \in [TabIds -> Nat \cup {NoRequest}]
  BY DEF Reset, HostsTypeOK
<1>3. CASE \E t \in ts : pending[t] # NoRequest
  <2>1. panel' = NoPanel
    BY <1>3 DEF PendingIn
  <2>2. \A t \in TabIds : pending'[t] = NoRequest
    BY <1>1, <1>3 DEF PanelShowsPending
  <2> QED
    BY <1>2, <2>1, <2>2 DEF PanelShowsPending
<1>4. CASE \A t \in ts : pending[t] = NoRequest
  <2>1. panel' = panel
    BY <1>4 DEF PendingIn
  <2>2. \A t \in TabIds : pending'[t] = pending[t]
    BY <1>1, <1>4
  <2> QED
    BY <1>2, <2>1, <2>2 DEF PanelShowsPending
<1> QED
  BY <1>3, <1>4

LEMMA KnownStay ==
  ASSUME HostsInv, RequestsKept, allowed \subseteq allowed',
         \A t \in TabIds : /\ pending'[t] \in {pending[t], NoRequest}
                          /\ resumption'[t] \in {resumption[t], NoRequest}
  PROVE  RequestsAreKnown'
BY DEF HostsInv, RequestsAreKnown, RequestsKept

LEMMA RejectStep ==
  ASSUME HostsInv, NEW ts \in SUBSET TabIds, Reject(ts)
  PROVE  HostsInv'
<1> USE DEF HostsInv
<1>1. RequestsKept
  BY ClosedRequestsKept DEF Reject, HostsTypeOK
<1>2. PanelShowsPending' /\ pending' \in [TabIds -> Nat \cup {NoRequest}]
  BY WaitingEnds DEF Reject
<1>3. RequestsAreKnown'
  BY <1>1, KnownStay DEF Reject, Reset
<1>4. LandedIsOver' /\ ApprovedOnce'
  BY <1>1, LandedStays DEF Reject
<1>5. HostsTypeOK'
  BY <1>1, <1>2 DEF Reject, HostsTypeOK, RequestsKept
<1> QED
  BY <1>2, <1>3, <1>4, <1>5

LEMMA EndHostsStep ==
  ASSUME HostsInv, NEW ts \in SUBSET TabIds, EndHosts(ts)
  PROVE  HostsInv'
<1> USE DEF HostsInv
<1>1. RequestsKept
  BY ClosedRequestsKept DEF EndHosts, HostsTypeOK
<1>2. PanelShowsPending' /\ pending' \in [TabIds -> Nat \cup {NoRequest}]
  BY WaitingEnds DEF EndHosts
<1>3. RequestsAreKnown'
  BY <1>1, KnownStay DEF EndHosts, Reset
<1>4. LandedIsOver' /\ ApprovedOnce'
  BY <1>1, LandedStays DEF EndHosts
<1>5. HostsTypeOK'
  BY <1>1, <1>2 DEF EndHosts, SessionsReset, Reset, HostsTypeOK, RequestsKept
<1> QED
  BY <1>2, <1>3, <1>4, <1>5

LEMMA BeginHostStep ==
  ASSUME HostsInv, NEW t \in TabIds, BeginHost(t)
  PROVE  HostsInv'
<1> USE DEF HostsInv
<1>1. RequestsKept /\ UNCHANGED <<pending, resumption, panel, requests, allowed, landed>>
  BY DEF BeginHost, RequestsKept, HostsTypeOK
<1>2. HostsTypeOK'
  BY DEF BeginHost, Reset, HostsTypeOK
<1>3. PanelShowsPending'
  BY <1>1 DEF PanelShowsPending
<1> QED
  BY <1>1, <1>2, <1>3, KnownStay, LandedStays

LEMMA ExpireStep ==
  ASSUME HostsInv, NEW r \in DOMAIN requests, Expire(r)
  PROVE  HostsInv'
<1> USE DEF HostsInv
<1>1. RequestsKept
  BY ClosedRequestsKept DEF Expire, HostsTypeOK
<1>2. PanelShowsPending' /\ HostsTypeOK'
  BY <1>1 DEF Expire, PanelShowsPending, HostsTypeOK, RequestsKept
<1> QED
  BY <1>1, <1>2, KnownStay, LandedStays DEF Expire

-----------------------------------------------------------------------------
(* Navigations.                                                            *)

LEMMA AdvanceType ==
  ASSUME HostsTypeOK, NEW t \in TabIds, session[t] # Unregistered, Advance(t)
  PROVE  session' \in [TabIds -> Nat \cup {Unregistered}]
BY DEF HostsTypeOK, Advance

LEMMA ResumeStep ==
  ASSUME HostsInv, NEW t \in TabIds, NEW u \in Addresses, session[t] # Unregistered, Resume(t, u)
  PROVE  HostsInv'
<1> USE DEF HostsInv
<1>1. RequestsKept
  BY ClosedRequestsKept DEF Resume, HostsTypeOK
<1>2. session' \in [TabIds -> Nat \cup {Unregistered}]
  BY AdvanceType DEF Resume
<1>3. PanelShowsPending'
  BY DEF Resume, PanelShowsPending
<1>4. RequestsAreKnown'
  BY <1>1, KnownStay DEF Resume, HostsTypeOK
<1>5. LandedIsOver' /\ ApprovedOnce' /\ landed' \in Seq([tab : TabIds, url : Addresses, request : Nat])
  BY LandedOnceMore
<1>6. HostsTypeOK'
  BY <1>1, <1>2, <1>5 DEF Resume, HostsTypeOK, RequestsKept
<1> QED
  BY <1>3, <1>4, <1>5, <1>6

LEMMA LetThroughStep ==
  ASSUME HostsInv, NEW t \in TabIds, NEW u \in Addresses, session[t] # Unregistered,
         LetThrough(t, u)
  PROVE  HostsInv'
<1> USE DEF HostsInv
<1>1. RequestsKept
  BY ClosedRequestsKept DEF LetThrough, HostsTypeOK
<1>2. session' \in [TabIds -> Nat \cup {Unregistered}]
  BY AdvanceType DEF LetThrough
<1>3. PanelShowsPending'
  BY DEF LetThrough, PanelShowsPending
<1>4. RequestsAreKnown'
  BY <1>1, KnownStay DEF LetThrough, HostsTypeOK
<1>5. HostsTypeOK'
  BY <1>1, <1>2 DEF LetThrough, HostsTypeOK, RequestsKept
<1> QED
  BY <1>1, <1>3, <1>4, <1>5, LandedStays DEF LetThrough

LEMMA AskedType ==
  ASSUME HostsTypeOK, NEW t \in TabIds, NEW u \in Addresses, session[t] # Unregistered
  PROVE  Asked(t, u) \in Request
BY DEF HostsTypeOK, Asked, Request

LEMMA LeaveUnconfirmedStep ==
  ASSUME HostsInv, NEW t \in TabIds, NEW u \in Addresses, session[t] # Unregistered,
         LeaveUnconfirmed(t, u), resumption' = resumption
  PROVE  HostsInv'
<1> USE DEF HostsInv
<1>1. RequestsKept
  BY AskedType, AskedRequestsKept DEF LeaveUnconfirmed, HostsTypeOK
<1>2. PanelShowsPending' /\ HostsTypeOK'
  BY <1>1 DEF LeaveUnconfirmed, PanelShowsPending, HostsTypeOK, RequestsKept
<1> QED
  BY <1>1, <1>2, KnownStay, LandedStays DEF LeaveUnconfirmed

LEMMA RefuseStep ==
  ASSUME HostsInv, NEW t \in TabIds, Refuse(t)
  PROVE  HostsInv'
<1> USE DEF HostsInv
<1>1. RequestsKept
  BY DEF Refuse, RequestsKept, HostsTypeOK
<1>2. PanelShowsPending' /\ HostsTypeOK'
  BY DEF Refuse, PanelShowsPending, HostsTypeOK
<1>3. RequestsAreKnown'
  BY <1>1, KnownStay DEF Refuse, HostsTypeOK
<1> QED
  BY <1>1, <1>2, <1>3, LandedStays DEF Refuse

\* Only the tab on the panel can be waiting: it is the one displaced.
LEMMA AskStep ==
  ASSUME HostsInv, NEW t \in TabIds, NEW u \in Addresses, session[t] # Unregistered, Ask(t, u)
  PROVE  HostsInv'
<1> USE DEF HostsInv
<1> DEFINE D == Displaced(t)
           old == Closed(PendingIn(D))
<1>1. /\ pending' = [Reset(pending, D, NoRequest) EXCEPT ![t] = NextRequest]
      /\ resumption' = Reset(resumption, {t} \cup D, NoRequest)
      /\ panel' = [tab |-> t, request |-> NextRequest]
      /\ requests' = Append(old, Asked(t, u))
      /\ session' = session /\ allowed' = allowed /\ landed' = landed
      /\ pending[t] = NoRequest
  BY DEF Ask
<1>2. RequestsKept /\ NextRequest \in DOMAIN requests'
  <2>1. requests \in Seq(Request) /\ NextRequest = Len(requests) + 1
    BY DEF HostsTypeOK, NextRequest
  <2> QED
    BY <1>1, <2>1, ClosedKeeps, AskedType, AskedRequestsKept
<1>3. NextRequest \in Nat /\ NextRequest # NoRequest
  BY HostNavigationAssumption DEF NextRequest, HostsTypeOK
<1>4. /\ pending' \in [TabIds -> Nat \cup {NoRequest}]
      /\ resumption' \in [TabIds -> Nat \cup {NoRequest}]
      /\ pending'[t] = NextRequest
      /\ \A d \in TabIds \ {t} : pending'[d] = NoRequest
  <2>1. \A d \in TabIds \ {t} : pending[d] # NoRequest => d \in D
    BY DEF PanelShowsPending, Displaced
  <2> QED
    BY <1>1, <1>3, <2>1 DEF HostsTypeOK, Reset
<1>5. [tab |-> t, request |-> NextRequest] # NoPanel
  <2>1. NextRequest \in 1..MaxRequests
    BY <1>3, HostNavigationAssumption DEF Ask, CoreAsks, NextRequest, HostsTypeOK
  <2> QED
    BY <2>1, HostNavigationAssumption
<1>6. PanelShowsPending'
  BY <1>1, <1>3, <1>4, <1>5 DEF PanelShowsPending
<1>7. \A d \in TabIds : resumption'[d] \in {resumption[d], NoRequest}
  BY <1>1 DEF Reset
<1>8. RequestsAreKnown'
  BY <1>1, <1>2, <1>4, <1>7 DEF RequestsAreKnown, RequestsKept
<1>9. HostsTypeOK'
  BY <1>1, <1>2, <1>4 DEF HostsTypeOK, RequestsKept
<1> QED
  BY <1>1, <1>2, <1>6, <1>8, <1>9, LandedStays

\* What is approved is what was displayed.
LEMMA AllowStep ==
  ASSUME HostsInv, Allow
  PROVE  HostsInv'
<1> USE DEF HostsInv
<1> DEFINE t == panel.tab
           r == pending[t]
<1>1. /\ t \in TabIds /\ r # NoRequest /\ panel.request = r /\ panel # NoPanel
      /\ r \in DOMAIN requests
      /\ \A d \in TabIds \ {t} : pending[d] = NoRequest
  BY DEF Allow, PanelShowsPending, RequestsAreKnown
<1>2. /\ allowed' = allowed \cup {r} /\ pending' = [pending EXCEPT ![t] = NoRequest]
      /\ panel' = NoPanel /\ session' = session /\ landed' = landed
      /\ \/ /\ requests[r].status = "asked"
            /\ requests' = [requests EXCEPT ![r].status = "issued"]
            /\ resumption' = [resumption EXCEPT ![t] = r]
         \/ UNCHANGED <<requests, resumption>>
  BY <1>1 DEF Allow
<1>3. RequestsKept
  <2>1. \A q \in DOMAIN requests : requests[q] \in Request
    BY DEF HostsTypeOK
  <2>2. CASE UNCHANGED requests
    BY <2>2 DEF RequestsKept, HostsTypeOK
  <2>3. CASE requests[r].status = "asked" /\ requests' = [requests EXCEPT ![r].status = "issued"]
    <3>1. [requests[r] EXCEPT !.status = "issued"] \in Request
      BY <1>1, <2>1 DEF Request
    <3>2. requests' \in Seq(Request) /\ DOMAIN requests' = DOMAIN requests
      BY <1>1, <2>3, <3>1 DEF HostsTypeOK
    <3>3. \A q \in DOMAIN requests :
            requests'[q] = IF q = r THEN [requests[r] EXCEPT !.status = "issued"] ELSE requests[q]
      BY <1>1, <2>3
    <3> QED
      BY <2>1, <2>3, <3>2, <3>3 DEF RequestsKept, Request
  <2> QED
    BY <1>2, <2>2, <2>3
<1>4. r \in Nat
  BY <1>1 DEF HostsTypeOK
<1>5. HostsTypeOK'
  BY <1>1, <1>2, <1>3, <1>4 DEF HostsTypeOK, RequestsKept
<1>6. PanelShowsPending'
  BY <1>1, <1>2 DEF PanelShowsPending, HostsTypeOK
<1>7. RequestsAreKnown'
  BY <1>1, <1>2, <1>3 DEF RequestsAreKnown, RequestsKept, HostsTypeOK
<1> QED
  BY <1>2, <1>3, <1>5, <1>6, <1>7, LandedStays

-----------------------------------------------------------------------------

LEMMA HostEventsStep ==
  ASSUME HostsInv, HostEvents
  PROVE  HostsInv'
<1>1. ASSUME NEW t \in TabIds, NEW u \in Addresses, TopNavigation(t, u) PROVE HostsInv'
  <2>1. session[t] # Unregistered
    BY <1>1 DEF TopNavigation
  <2>2. \/ Resume(t, u) \/ LetThrough(t, u) \/ Reject({t}) \/ Ask(t, u) \/ Refuse(t)
        \/ LeaveUnconfirmed(t, u) /\ resumption' = resumption
    BY <1>1 DEF TopNavigation
  <2>3. {t} \in SUBSET TabIds
    OBVIOUS
  <2> QED
    BY <2>1, <2>2, <2>3, ResumeStep, LetThroughStep, RejectStep, AskStep, RefuseStep,
       LeaveUnconfirmedStep
<1>2. ASSUME NEW t \in TabIds, NEW u \in Addresses, FrameNavigation(t, u) PROVE HostsInv'
  BY <1>2, LeaveUnconfirmedStep DEF FrameNavigation
<1>3. CASE Deny
  <2>1. {panel.tab} \in SUBSET TabIds
    BY <1>3 DEF Deny, HostsInv, PanelShowsPending
  <2> QED
    BY <1>3, <2>1, RejectStep DEF Deny
<1> QED
  BY <1>1, <1>2, <1>3, AllowStep, ExpireStep DEF HostEvents

LEMMA HostsStutter == HostsInv /\ UNCHANGED hostVars => HostsInv'
<1> SUFFICES ASSUME HostsInv, UNCHANGED hostVars PROVE HostsInv'
  OBVIOUS
<1> USE DEF HostsInv, hostVars
<1>1. RequestsKept
  BY DEF RequestsKept, HostsTypeOK
<1>2. HostsTypeOK' /\ PanelShowsPending' /\ RequestsAreKnown'
  BY DEF HostsTypeOK, PanelShowsPending, RequestsAreKnown
<1> QED
  BY <1>1, <1>2, LandedStays

LEMMA HostsInitInv == HostsInit => HostsInv
<1> SUFFICES ASSUME HostsInit PROVE HostsInv
  OBVIOUS
<1>1. HostsTypeOK /\ PanelShowsPending /\ RequestsAreKnown
  BY DEF HostsInit, HostsTypeOK, PanelShowsPending, RequestsAreKnown
<1>2. DOMAIN landed = {}
  BY DEF HostsInit
<1> QED
  BY <1>1, <1>2 DEF HostsInv, LandedIsOver, ApprovedOnce, IsInjective

LEMMA HostsStep == HostsInv /\ [HostsNext]_hostVars => HostsInv'
<1>1. ASSUME HostsInv, NEW t \in TabIds, BeginHost(t) \/ EndHosts({t}) PROVE HostsInv'
  BY <1>1, BeginHostStep, EndHostsStep
<1> QED
  BY <1>1, HostEventsStep, HostsStutter DEF HostsNext

\* Handlers of the tabs begin hosts, end sets of them, or leave them alone.
LEMMA WindowActs ==
  ASSUME WindowNext
  PROVE  \/ \E t \in TabIds : BeginHost(t)
         \/ \E ts \in SUBSET TabIds : EndHosts(ts)
         \/ UNCHANGED hostVars
<1> DEFINE Acts == \/ \E t \in TabIds : BeginHost(t)
                   \/ \E ts \in SUBSET TabIds : EndHosts(ts)
                   \/ UNCHANGED hostVars
<1>1. \A w : Awake(w) \in SUBSET TabIds /\ Awake(win) \ Awake(w) \in SUBSET TabIds
  BY DEF Awake
<1>2. ASSUME Ended PROVE Acts
  BY <1>1, <1>2 DEF Ended
<1>3. ASSUME NEW w, Show(w) PROVE Acts
  BY <1>1, <1>2, <1>3 DEF Show, CloseWindow
<1>4. CASE UserAction \/ OpenTab \/ SleepCheck
  BY <1>3, <1>4 DEF UserAction, OpenTab, SleepCheck
<1>5. CASE RestoreSavedSession
  BY <1>1, <1>5 DEF RestoreSavedSession
<1>6. ASSUME NEW t \in TabIds, CoreReady(t) PROVE Acts
  BY <1>3, <1>6 DEF CoreReady
<1>7. CASE CloseWindow(win) \/ Crash
  BY <1>2, <1>7 DEF CloseWindow, Crash
<1>8. CASE StartWindow \/ OnTabNavigationCompleted \/ Elapsed
  BY <1>8 DEF StartWindow, OnTabNavigationCompleted, Elapsed
<1> QED
  BY <1>4, <1>5, <1>6, <1>7, <1>8 DEF WindowNext

LEMMA BrowserStep == HostsInv /\ [BrowserNext]_<<hostVars, windowVars>> => HostsInv'
<1> SUFFICES ASSUME HostsInv, [BrowserNext]_<<hostVars, windowVars>> PROVE HostsInv'
  OBVIOUS
<1>1. CASE WindowNext
  BY <1>1, WindowActs, BeginHostStep, EndHostsStep, HostsStutter
<1>2. CASE HostEvents
  BY <1>2, HostEventsStep
<1> QED
  BY <1>1, <1>2, HostsStutter DEF BrowserNext

LEMMA ShownIsRequested == HostsInv => WhatIsShownIsApproved
BY DEF HostsInv, HostsTypeOK, PanelShowsPending, PanelIsTheRequest, WhatIsShownIsApproved

\* The user decides on what the panel shows and on nothing else, and each decision
\* lets one navigation through, in the tab and to the address it was made for,
\* although hosts begin and end at any time (HostWebView.cs, ApprovalPanelController.cs).
THEOREM UserDecides == HostsSpec => []WhatIsShownIsApproved
BY HostsInitInv, HostsStep, ShownIsRequested, PTL DEF HostsSpec

\* The same for a whole window: hosts begin and end with the tabs that are opened,
\* closed, put to sleep and restored, and with the process.
THEOREM UserDecidesInWindow == BrowserSpec => []WhatIsShownIsApproved
BY HostsInitInv, BrowserStep, ShownIsRequested, PTL DEF BrowserSpec
-----------------------------------------------------------------------------
(* Tabs in a list: where they are after one is removed, inserted or moved.  *)

\* A tab that went from one place to another comes from there: Follow undoes it.
LEMMA FollowFinds ==
  ASSUME NEW n \in Nat, NEW i \in 1..n, NEW from \in 1..n, NEW to \in 1..n
  PROVE  /\ Follow(i, from, to) \in 1..n
         /\ CameFrom(Follow(i, from, to), from, to) = i
BY DEF Follow, CameFrom

\* The list of tabs: no tab twice, and the pinned ones are those in front.
TabsOK(ts, p) ==
  /\ ts \in Seq(TabIds) /\ p \in SUBSET TabIds /\ IsFiniteSet(p)
  /\ \A i, j \in DOMAIN ts : ts[i] = ts[j] => i = j
  /\ p \subseteq Range(ts)
  /\ Cardinality(p) <= Len(ts)
  /\ \A i \in DOMAIN ts : ts[i] \in p <=> i <= Cardinality(p)

LEMMA InRange ==
  ASSUME NEW ts \in Seq(TabIds), NEW t
  PROVE  t \in Range(ts) <=> \E i \in 1..Len(ts) : ts[i] = t
BY DEF Range

LEMMA Place ==
  ASSUME NEW w, w.tabs \in Seq(TabIds), NEW t,
         \A i, j \in DOMAIN w.tabs : w.tabs[i] = w.tabs[j] => i = j
  PROVE  /\ t \in Range(w.tabs) => IndexOf(w, t) \in 1..Len(w.tabs) /\ w.tabs[IndexOf(w, t)] = t
         /\ t \notin Range(w.tabs) => IndexOf(w, t) = 0
<1> DEFINE I == {i \in 1..Len(w.tabs) : w.tabs[i] = t}
<1>1. IndexOf(w, t) = IF I # {} THEN Min(I) ELSE 0
  BY DEF IndexOf, SelectInSeq
<1>2. CASE t \notin Range(w.tabs)
  BY <1>1, <1>2, InRange
<1>3. CASE t \in Range(w.tabs)
  <2>1. PICK i \in 1..Len(w.tabs) : w.tabs[i] = t
    BY <1>3, InRange
  <2>2. I = {i}
    BY <2>1
  <2>3. Min({i}) = i
    BY <2>1 DEF Min
  <2> QED
    BY <1>1, <1>3, <2>1, <2>2, <2>3
<1> QED
  BY <1>2, <1>3

LEMMA TabsRemoved ==
  ASSUME NEW ts, NEW p, TabsOK(ts, p), NEW i \in 1..Len(ts)
  PROVE  /\ TabsOK(RemoveAt(ts, i), p \ {ts[i]})
         /\ Range(RemoveAt(ts, i)) = Range(ts) \ {ts[i]}
<1> DEFINE r == RemoveAt(ts, i)
           q == p \ {ts[i]}
<1>1. /\ r \in Seq(TabIds) /\ Len(r) = Len(ts) - 1
      /\ \A j \in 1..(Len(ts) - 1) : r[j] = IF j < i THEN ts[j] ELSE ts[j + 1]
  BY Removed DEF TabsOK
<1> HIDE DEF r
<1>2. /\ ts \in Seq(TabIds) /\ Len(ts) \in Nat /\ DOMAIN ts = 1..Len(ts)
      /\ DOMAIN r = 1..(Len(ts) - 1)
  BY <1>1 DEF TabsOK
<1>3. \A j, k \in DOMAIN r : r[j] = r[k] => j = k
  BY <1>1, <1>2, SMTT(30) DEF TabsOK
<1>4. Range(r) = Range(ts) \ {ts[i]}
  <2>1. ASSUME NEW t PROVE t \in Range(r) <=> t \in Range(ts) \ {ts[i]}
    <3>1. ASSUME NEW j \in 1..(Len(ts) - 1), r[j] = t
          PROVE  t \in Range(ts) \ {ts[i]}
      <4>1. (IF j < i THEN j ELSE j + 1) \in 1..Len(ts) /\ (IF j < i THEN j ELSE j + 1) # i
        BY <1>2
      <4>2. ts[IF j < i THEN j ELSE j + 1] = t
        BY <1>1, <3>1
      <4> QED
        BY <1>2, <4>1, <4>2, InRange DEF TabsOK
    <3>2. ASSUME NEW j \in 1..Len(ts), ts[j] = t, j # i
          PROVE  t \in Range(r)
      <4>1. (IF j < i THEN j ELSE j - 1) \in 1..(Len(ts) - 1)
        BY <1>2, <3>2
      <4>2. r[IF j < i THEN j ELSE j - 1] = t
        BY <1>1, <1>2, <3>2, <4>1
      <4> QED
        BY <1>1, <1>2, <4>1, <4>2, InRange
    <3> QED
      BY <1>1, <1>2, <3>1, <3>2, InRange
  <2> QED
    BY <2>1
<1>5. IsFiniteSet(q) /\ Cardinality(p) \in Nat
      /\ Cardinality(q) = IF ts[i] \in p THEN Cardinality(p) - 1 ELSE Cardinality(p)
  BY FS_RemoveElement, FS_CardinalityType DEF TabsOK
<1>6. ts[i] \in p <=> i <= Cardinality(p)
  BY <1>2 DEF TabsOK
<1>7. ASSUME NEW j \in DOMAIN r PROVE r[j] \in q <=> j <= Cardinality(q)
  <2>1. CASE j < i
    <3>1. r[j] = ts[j] /\ ts[j] # ts[i] /\ (ts[j] \in p <=> j <= Cardinality(p))
      BY <1>1, <1>2, <2>1 DEF TabsOK
    <3> QED
      BY <1>2, <1>5, <1>6, <2>1, <3>1
  <2>2. CASE ~(j < i)
    <3>1. r[j] = ts[j + 1] /\ ts[j + 1] # ts[i] /\ (ts[j + 1] \in p <=> j + 1 <= Cardinality(p))
      BY <1>1, <1>2, <2>2 DEF TabsOK
    <3> QED
      BY <1>2, <1>5, <1>6, <2>2, <3>1
  <2> QED
    BY <2>1, <2>2
<1>8. Cardinality(q) <= Len(r)
  <2>1. ts[i] \notin p => Cardinality(p) < i
    BY <1>5, <1>6, <1>2
  <2> QED
    BY <1>1, <1>2, <1>5, <2>1 DEF TabsOK
<1>9. q \in SUBSET TabIds /\ q \subseteq Range(r)
  BY <1>4 DEF TabsOK
<1> QED
  BY <1>1, <1>3, <1>4, <1>5, <1>7, <1>8, <1>9 DEF TabsOK, r

LEMMA TabsMoved ==
  ASSUME NEW ts, NEW p, TabsOK(ts, p), NEW from \in 1..Len(ts), NEW to \in 1..Len(ts),
         NEW q, q = p \/ q = p \cup {ts[from]} \/ q = p \ {ts[from]},
         \A i \in 1..Len(ts) : ts[CameFrom(i, from, to)] \in q <=> i <= Cardinality(q)
  PROVE  TabsOK(Moved(ts, from, to), q) /\ Range(Moved(ts, from, to)) = Range(ts)
<1> DEFINE r == Moved(ts, from, to)
<1>1. /\ r \in Seq(TabIds) /\ Len(r) = Len(ts)
      /\ \A j \in 1..Len(ts) : /\ CameFrom(j, from, to) \in 1..Len(ts)
                               /\ r[j] = ts[CameFrom(j, from, to)]
  <2>1. ts \in Seq(TabIds)
    BY DEF TabsOK
  <2>2. r \in Seq(TabIds) /\ Len(r) = Len(ts)
    BY <2>1, MovedFrom
  <2>3. \A j \in 1..Len(ts) : /\ CameFrom(j, from, to) \in 1..Len(ts)
                              /\ r[j] = ts[CameFrom(j, from, to)]
    BY <2>1, MovedFrom
  <2> QED
    BY <2>2, <2>3
<1> HIDE DEF r
<1>2. /\ ts \in Seq(TabIds) /\ Len(ts) \in Nat /\ DOMAIN ts = 1..Len(ts)
      /\ DOMAIN r = 1..Len(ts)
  BY <1>1 DEF TabsOK
<1>3. ASSUME NEW j \in 1..Len(ts), NEW k \in 1..Len(ts), CameFrom(j, from, to) = CameFrom(k, from, to)
      PROVE  j = k
  BY <1>2, <1>3 DEF CameFrom
<1>4. \A j, k \in DOMAIN r : r[j] = r[k] => j = k
  BY <1>1, <1>2, <1>3 DEF TabsOK
<1>5. Range(r) = Range(ts)
  <2>1. ASSUME NEW t PROVE t \in Range(r) <=> t \in Range(ts)
    <3>1. ASSUME NEW j \in 1..Len(ts), ts[j] = t PROVE t \in Range(r)
      <4>1. Follow(j, from, to) \in 1..Len(ts) /\ CameFrom(Follow(j, from, to), from, to) = j
        BY <1>2, FollowFinds
      <4>2. r[Follow(j, from, to)] = t
        BY <1>1, <3>1, <4>1
      <4> QED
        BY <1>1, <4>1, <4>2, InRange
    <3> QED
      BY <1>1, <1>2, <3>1, InRange, SMTT(30)
  <2> QED
    BY <2>1
<1>6. IsFiniteSet(q) /\ Cardinality(q) \in Nat /\ q \in SUBSET TabIds /\ q \subseteq Range(r)
  <2>1. ts[from] \in Range(ts) /\ ts[from] \in TabIds
    BY <1>2, InRange
  <2> QED
    BY <1>5, <2>1, FS_AddElement, FS_RemoveElement, FS_CardinalityType DEF TabsOK
<1>7. Cardinality(q) <= Len(r)
  <2>1. CASE q = p
    BY <1>1, <2>1 DEF TabsOK
  <2>2. CASE q # p
    <3>1. Cardinality(q) <= Cardinality(p) + 1 /\ Cardinality(p) \in Nat
      BY FS_AddElement, FS_RemoveElement, FS_CardinalityType, SMTT(30) DEF TabsOK
    <3>2. CASE Cardinality(p) < Len(ts)
      BY <1>1, <1>2, <1>6, <3>1, <3>2
    <3>3. CASE Cardinality(p) = Len(ts)
      <4>1. ts[from] \in p
        BY <1>2, <3>3 DEF TabsOK
      <4>2. q = p \ {ts[from]}
        BY <2>2, <4>1
      <4>3. Cardinality(q) = Cardinality(p) - 1
        BY <4>1, <4>2, FS_RemoveElement DEF TabsOK
      <4> QED
        BY <1>1, <1>2, <3>1, <3>3, <4>3
    <3> QED
      BY <1>2, <3>1, <3>2, <3>3 DEF TabsOK
  <2> QED
    BY <2>1, <2>2
<1>8. \A j \in DOMAIN r : r[j] \in q <=> j <= Cardinality(q)
  BY <1>1, <1>2
<1> QED
  BY <1>1, <1>4, <1>5, <1>6, <1>7, <1>8 DEF TabsOK, r
-----------------------------------------------------------------------------
(* What every operation makes of a window.                                 *)

Windows ==
  [tabs : Seq(TabIds), index : Nat, active : TabIds \cup {NoTabId}, pinned : SUBSET TabIds,
   sleeping : SUBSET TabIds, runtime : [TabIds -> {"none", "starting", "wired"}]]

\* The tab at the current place is the one shown, and it is not asleep.
CurrentShown(w) ==
  w.tabs # <<>> =>
    w.index \in 1..Len(w.tabs) /\ w.active = w.tabs[w.index] /\ w.active \notin w.sleeping

\* A tab of the list has a runtime unless it sleeps, and no other tab has one.
RuntimesMatch(w) ==
  /\ w.sleeping \subseteq Range(w.tabs)
  /\ \A t \in TabIds : w.runtime[t] # "none" <=> t \in Range(w.tabs) /\ t \notin w.sleeping

WindowOK(w) ==
  w \in Windows /\ TabsOK(w.tabs, w.pinned) /\ CurrentShown(w) /\ RuntimesMatch(w)

\* What became of the runtimes: kept, gone, or started where there was none.
RuntimesFollow(w, v) ==
  \A t \in TabIds : \/ v.runtime[t] \in {w.runtime[t], "none"}
                    \/ w.runtime[t] = "none" /\ v.runtime[t] = "starting"

\* Closing tabs leaves no runtime to a tab that is gone.
Shrinks(w, v) ==
  /\ Range(v.tabs) \subseteq Range(w.tabs)
  /\ \A t \in TabIds : \/ v.runtime[t] = w.runtime[t]
                       \/ v.runtime[t] = "none" /\ t \notin Range(v.tabs)
                       \/ w.runtime[t] = "none" /\ v.runtime[t] = "starting"

\* A window whose tabs are in order, all but which one is shown.
Hidden(v) ==
  v \in Windows /\ TabsOK(v.tabs, v.pinned) /\ RuntimesMatch(v)

LEMMA Switched ==
  ASSUME NEW v, Hidden(v), v.index \in 1..Len(v.tabs), NEW t, t = v.tabs[v.index]
  PROVE  /\ WindowOK(OnTabSwitched(v, t))
         /\ OnTabSwitched(v, t).tabs = v.tabs /\ OnTabSwitched(v, t).pinned = v.pinned
         /\ \A x \in TabIds :
              \/ OnTabSwitched(v, t).runtime[x] = v.runtime[x]
              \/ v.runtime[x] = "none" /\ OnTabSwitched(v, t).runtime[x] = "starting"
<1> DEFINE u == [v EXCEPT !.active = t]
           x == [[u EXCEPT !.sleeping = @ \ {t}] EXCEPT !.runtime[t] = "starting"]
<1>1. v \in Windows /\ t \in TabIds /\ t \in Range(v.tabs)
  BY InRange DEF Hidden, Windows
<1>2. /\ u \in Windows /\ u.tabs = v.tabs /\ u.index = v.index /\ u.active = t
      /\ u.pinned = v.pinned /\ u.sleeping = v.sleeping /\ u.runtime = v.runtime
  BY <1>1 DEF Windows
<1> HIDE DEF u
<1>3. /\ x \in Windows /\ x.tabs = v.tabs /\ x.index = v.index /\ x.active = t
      /\ x.pinned = v.pinned /\ x.sleeping = v.sleeping \ {t}
      /\ x.runtime = [v.runtime EXCEPT ![t] = "starting"]
  BY <1>1, <1>2 DEF Windows
<1>4. OnTabSwitched(v, t) = IF t \in v.sleeping THEN WakeTab(u, t) ELSE u
  BY DEF OnTabSwitched, u
<1>5. t \in v.sleeping => WakeTab(u, t) = x
  BY <1>1, <1>2 DEF WakeTab, CreateRuntime, Hidden, RuntimesMatch
<1> HIDE DEF x
<1>6. CASE t \in v.sleeping
  <2>1. OnTabSwitched(v, t) = x /\ v.runtime[t] = "none"
    BY <1>1, <1>4, <1>5, <1>6 DEF Hidden, RuntimesMatch
  <2>2. v.runtime \in [TabIds -> {"none", "starting", "wired"}]
    BY <1>1 DEF Windows
  <2>3. RuntimesMatch(x)
    BY <1>1, <1>3, <2>2 DEF Hidden, RuntimesMatch
  <2>4. WindowOK(x)
    BY <1>3, <2>3 DEF Hidden, WindowOK, CurrentShown
  <2> QED
    BY <1>3, <2>1, <2>2, <2>4
<1>7. CASE t \notin v.sleeping
  <2>1. OnTabSwitched(v, t) = u
    BY <1>4, <1>7
  <2>2. RuntimesMatch(u)
    BY <1>2 DEF Hidden, RuntimesMatch
  <2>3. WindowOK(u)
    BY <1>2, <1>7, <2>2 DEF Hidden, WindowOK, CurrentShown
  <2> QED
    BY <1>2, <2>1, <2>3
<1> QED
  BY <1>6, <1>7

LEMMA SwitchToKeeps ==
  ASSUME NEW w, WindowOK(w), NEW t \in Range(w.tabs)
  PROVE  WindowOK(SwitchTo(w, t)) /\ RuntimesFollow(w, SwitchTo(w, t))
         /\ Range(SwitchTo(w, t).tabs) = Range(w.tabs)
<1> DEFINE v == [w EXCEPT !.index = IndexOf(w, t)]
<1>1. IndexOf(w, t) \in 1..Len(w.tabs) /\ w.tabs[IndexOf(w, t)] = t
  BY Place DEF WindowOK, TabsOK
<1>2. w \in Windows /\ Len(w.tabs) \in Nat
  BY DEF WindowOK, Windows
<1>3. /\ v \in Windows /\ v.tabs = w.tabs /\ v.index = IndexOf(w, t)
      /\ v.pinned = w.pinned /\ v.sleeping = w.sleeping /\ v.runtime = w.runtime
  BY <1>1, <1>2 DEF Windows
<1>4. SwitchTo(w, t) = IF IndexOf(w, t) = w.index THEN w ELSE OnTabSwitched(v, t)
  BY DEF SwitchTo
<1> HIDE DEF v
<1>5. Hidden(v) /\ v.index \in 1..Len(v.tabs) /\ t = v.tabs[v.index]
  BY <1>1, <1>3 DEF WindowOK, Hidden, RuntimesMatch
<1>6. /\ WindowOK(OnTabSwitched(v, t)) /\ RuntimesFollow(w, OnTabSwitched(v, t))
      /\ Range(OnTabSwitched(v, t).tabs) = Range(w.tabs)
  BY <1>3, <1>5, Switched DEF RuntimesFollow
<1> QED
  BY <1>4, <1>6 DEF RuntimesFollow

LEMMA NewTabKeeps ==
  ASSUME NEW w, WindowOK(w), NEW t \in TabIds \ Range(w.tabs)
  PROVE  WindowOK(NewTab(w, t)) /\ RuntimesFollow(w, NewTab(w, t))
         /\ Range(NewTab(w, t).tabs) = Range(w.tabs) \cup {t} /\ NewTab(w, t).tabs # <<>>
<1> DEFINE n == Len(w.tabs) + 1
           ts == Append(w.tabs, t)
           v == [w EXCEPT !.tabs = ts, !.index = n]
           x == [v EXCEPT !.runtime[t] = "starting"]
<1>1. w \in Windows /\ w.tabs \in Seq(TabIds) /\ n \in Nat /\ Len(w.tabs) \in Nat
  BY DEF WindowOK, Windows
<1>2. ts \in Seq(TabIds) /\ Len(ts) = n /\ ts[n] = t /\ \A i \in 1..Len(w.tabs) : ts[i] = w.tabs[i]
  BY <1>1
<1> HIDE DEF ts, n
<1>3. /\ v \in Windows /\ v.tabs = ts /\ v.index = n
      /\ v.pinned = w.pinned /\ v.sleeping = w.sleeping /\ v.runtime = w.runtime
  BY <1>1, <1>2 DEF Windows
<1> HIDE DEF v
<1>4. /\ x \in Windows /\ x.tabs = ts /\ x.index = n
      /\ x.pinned = w.pinned /\ x.sleeping = w.sleeping
      /\ x.runtime = [w.runtime EXCEPT ![t] = "starting"]
  BY <1>3 DEF Windows
<1>5. NewTab(w, t) = OnTabSwitched(x, t)
  BY DEF NewTab, CreateRuntime, x, v, ts, n
<1> HIDE DEF x
<1>6. Range(ts) = Range(w.tabs) \cup {t}
  <2>1. n = Len(w.tabs) + 1
    BY DEF n
  <2>2. ASSUME NEW y PROVE y \in Range(ts) <=> y \in Range(w.tabs) \cup {t}
    BY <1>1, <1>2, <2>1, InRange
  <2> QED
    BY <2>2
<1>7. TabsOK(ts, w.pinned)
  <2>1. n = Len(w.tabs) + 1
    BY DEF n
  <2>2. \A i \in 1..Len(w.tabs) : w.tabs[i] # t
    BY <1>1, InRange
  <2>3. \A i, j \in DOMAIN ts : ts[i] = ts[j] => i = j
    BY <1>1, <1>2, <2>1, <2>2 DEF WindowOK, TabsOK
  <2>4. Cardinality(w.pinned) \in Nat /\ Cardinality(w.pinned) <= Len(w.tabs)
    BY FS_CardinalityType DEF WindowOK, TabsOK
  <2>5. t \notin w.pinned
    BY DEF WindowOK, TabsOK
  <2>6. ASSUME NEW i \in DOMAIN ts PROVE ts[i] \in w.pinned <=> i <= Cardinality(w.pinned)
    <3>1. CASE i = n
      BY <1>1, <1>2, <2>1, <2>4, <2>5, <3>1
    <3>2. CASE i # n
      <4>1. i \in 1..Len(w.tabs)
        BY <1>1, <1>2, <2>1, <3>2
      <4> QED
        BY <1>1, <1>2, <4>1 DEF WindowOK, TabsOK
    <3> QED
      BY <3>1, <3>2
  <2> QED
    BY <1>1, <1>2, <1>6, <2>1, <2>3, <2>4, <2>6 DEF WindowOK, TabsOK
<1>8. RuntimesMatch(x)
  <2>1. w.runtime \in [TabIds -> {"none", "starting", "wired"}] /\ t \notin w.sleeping
    BY <1>1 DEF Windows, WindowOK, RuntimesMatch
  <2> QED
    BY <1>4, <1>6, <2>1 DEF WindowOK, RuntimesMatch
<1>9. Hidden(x) /\ x.index \in 1..Len(x.tabs) /\ t = x.tabs[x.index]
  BY <1>1, <1>2, <1>4, <1>7, <1>8 DEF Hidden, n
<1>10. w.runtime[t] = "none" /\ w.runtime \in [TabIds -> {"none", "starting", "wired"}]
  BY <1>1 DEF WindowOK, RuntimesMatch, Windows
<1>11. /\ WindowOK(NewTab(w, t)) /\ NewTab(w, t).tabs = ts
       /\ \A y \in TabIds : \/ NewTab(w, t).runtime[y] = x.runtime[y]
                            \/ x.runtime[y] = "none" /\ NewTab(w, t).runtime[y] = "starting"
  <2>1. /\ WindowOK(OnTabSwitched(x, t)) /\ OnTabSwitched(x, t).tabs = x.tabs
        /\ \A y \in TabIds :
             \/ OnTabSwitched(x, t).runtime[y] = x.runtime[y]
             \/ x.runtime[y] = "none" /\ OnTabSwitched(x, t).runtime[y] = "starting"
    BY <1>9, Switched
  <2> QED
    BY <1>4, <1>5, <2>1
<1>12. RuntimesFollow(w, NewTab(w, t))
  BY <1>4, <1>10, <1>11 DEF RuntimesFollow
<1>13. ts # <<>>
  BY <1>1, <1>2 DEF n
<1> QED
  BY <1>6, <1>11, <1>12, <1>13
LEMMA CloseTabKeeps ==
  ASSUME NEW w, WindowOK(w), NEW t
  PROVE  /\ WindowOK(CloseTab(w, t)) /\ Shrinks(w, CloseTab(w, t))
         /\ Range(CloseTab(w, t).tabs) = Range(w.tabs) \ {t}
<1> DEFINE i == IndexOf(w, t)
           ts == RemoveAt(w.tabs, i)
           v == [w EXCEPT !.tabs = RemoveAt(@, i), !.runtime[t] = "none",
                          !.pinned = @ \ {t}, !.sleeping = @ \ {t}]
           next == IF i > Len(v.tabs) THEN Len(v.tabs) ELSE i
           shown == [v EXCEPT !.index = next]
           none == [v EXCEPT !.index = 0]
           before == [v EXCEPT !.index = @ - 1]
<1>1. CloseTab(w, t) =
        CASE i = 0 -> w
          [] i # 0 /\ i = w.index /\ v.tabs # <<>> -> OnTabSwitched(shown, v.tabs[next])
          [] i # 0 /\ v.tabs = <<>> -> none
          [] i # 0 /\ i < w.index /\ v.tabs # <<>> -> before
          [] OTHER -> v
  BY DEF CloseTab
<1>2. /\ w \in Windows /\ TabsOK(w.tabs, w.pinned) /\ w.tabs \in Seq(TabIds)
      /\ Len(w.tabs) \in Nat /\ w.index \in Nat
      /\ w.runtime \in [TabIds -> {"none", "starting", "wired"}]
  BY DEF WindowOK, Windows
<1>3. CASE t \notin Range(w.tabs)
  <2>1. i = 0
    BY <1>2, <1>3, Place DEF TabsOK
  <2>2. CloseTab(w, t) = w
    BY <1>1, <2>1
  <2> QED
    BY <1>3, <2>2 DEF Shrinks
<1>4. CASE t \in Range(w.tabs)
  <2>1. i \in 1..Len(w.tabs) /\ w.tabs[i] = t /\ t \in TabIds
    <3>1. i \in 1..Len(w.tabs) /\ w.tabs[i] = t
      BY <1>2, <1>4, Place DEF TabsOK
    <3> QED
      BY <1>2, <3>1
  <2> HIDE DEF i
  <2>2. /\ TabsOK(ts, w.pinned \ {t}) /\ Range(ts) = Range(w.tabs) \ {t}
    BY <1>2, <2>1, TabsRemoved
  <2>3. /\ ts \in Seq(TabIds) /\ Len(ts) = Len(w.tabs) - 1
        /\ \A j \in 1..(Len(w.tabs) - 1) : ts[j] = IF j < i THEN w.tabs[j] ELSE w.tabs[j + 1]
    BY <1>2, <2>1, Removed
  <2> HIDE DEF ts
  <2>4. /\ v \in Windows /\ v.tabs = ts /\ v.pinned = w.pinned \ {t}
        /\ v.sleeping = w.sleeping \ {t} /\ v.runtime = [w.runtime EXCEPT ![t] = "none"]
        /\ v.index = w.index /\ v.active = w.active
    BY <1>2, <2>3 DEF Windows, ts
  <2> HIDE DEF v
  <2>5. RuntimesMatch(v)
    BY <1>2, <2>2, <2>4 DEF WindowOK, RuntimesMatch
  <2>6. Hidden(v) /\ Shrinks(w, v)
    BY <1>2, <2>1, <2>2, <2>4, <2>5 DEF Hidden, Shrinks
  <2>7. CASE i = w.index /\ v.tabs # <<>>
    <3>1. next \in 1..Len(ts) /\ next \in Nat
      BY <1>2, <2>1, <2>3, <2>4, <2>7
    <3> HIDE DEF next
    <3>2. /\ shown \in Windows /\ shown.tabs = ts /\ shown.index = next
          /\ shown.pinned = v.pinned /\ shown.sleeping = v.sleeping /\ shown.runtime = v.runtime
      BY <2>4, <3>1 DEF Windows
    <3> HIDE DEF shown
    <3>3. Hidden(shown)
      BY <2>2, <2>4, <2>5, <3>2 DEF Hidden, RuntimesMatch
    <3>4. shown.index \in 1..Len(shown.tabs) /\ v.tabs[next] = shown.tabs[shown.index]
      BY <2>4, <3>1, <3>2
    <3>5. CloseTab(w, t) = OnTabSwitched(shown, v.tabs[next])
      BY <1>1, <2>1, <2>7
    <3>6. /\ WindowOK(CloseTab(w, t)) /\ CloseTab(w, t).tabs = ts
          /\ \A x \in TabIds :
               \/ CloseTab(w, t).runtime[x] = v.runtime[x]
               \/ v.runtime[x] = "none" /\ CloseTab(w, t).runtime[x] = "starting"
      BY <3>2, <3>3, <3>4, <3>5, Switched
    <3>7. Shrinks(w, CloseTab(w, t))
      <4>1. \A x \in TabIds : v.runtime[x] = IF x = t THEN "none" ELSE w.runtime[x]
        BY <1>2, <2>4
      <4>2. \A x \in TabIds : CloseTab(w, t).runtime[x] = "starting" => x \in Range(ts)
        BY <3>6 DEF WindowOK, RuntimesMatch
      <4> QED
        BY <1>2, <2>2, <3>6, <4>1, <4>2 DEF Shrinks
    <3> QED
      BY <2>2, <3>6, <3>7
  <2>8. CASE v.tabs = <<>>
    <3>1. CloseTab(w, t) = none
      BY <1>1, <2>1, <2>8
    <3>2. /\ none \in Windows /\ none.tabs = ts /\ none.pinned = v.pinned
          /\ none.sleeping = v.sleeping /\ none.runtime = v.runtime
      BY <2>4 DEF Windows
    <3> HIDE DEF none
    <3>3. WindowOK(none) /\ Shrinks(w, none)
      <4>1. CurrentShown(none)
        BY <2>4, <2>8, <3>2 DEF CurrentShown
      <4>2. RuntimesMatch(none)
        BY <2>4, <2>6, <3>2 DEF Hidden, RuntimesMatch
      <4>3. TabsOK(none.tabs, none.pinned)
        BY <2>4, <2>6, <3>2 DEF Hidden
      <4>4. Shrinks(w, none)
        BY <2>4, <2>6, <3>2 DEF Shrinks
      <4> QED
        BY <3>2, <4>1, <4>2, <4>3, <4>4 DEF WindowOK
    <3> QED
      BY <2>2, <3>1, <3>2, <3>3
  <2>9. CASE i < w.index /\ v.tabs # <<>>
    <3>1. CloseTab(w, t) = before
      BY <1>1, <1>2, <2>1, <2>9
    <3>2. w.index \in 1..Len(w.tabs) /\ w.active = w.tabs[w.index] /\ w.active \notin w.sleeping
      BY <1>2, <2>1 DEF WindowOK, CurrentShown
    <3>3. /\ before \in Windows /\ before.tabs = ts /\ before.pinned = v.pinned
          /\ before.sleeping = v.sleeping /\ before.runtime = v.runtime
          /\ before.index = w.index - 1 /\ before.active = w.active
      <4>1. w.index - 1 \in Nat
        BY <1>2, <2>1, <2>9, <3>2
      <4> QED
        BY <2>4, <4>1 DEF Windows
    <3> HIDE DEF before
    <3>4. CurrentShown(before)
      <4>1. w.index - 1 \in 1..Len(ts) /\ ts[w.index - 1] = w.tabs[w.index]
        BY <1>2, <2>1, <2>3, <2>9, <3>2
      <4> QED
        BY <2>4, <3>2, <3>3, <4>1 DEF CurrentShown
    <3>5. WindowOK(before) /\ Shrinks(w, before)
      BY <2>4, <2>6, <3>3, <3>4 DEF Hidden, WindowOK, RuntimesMatch, Shrinks
    <3> QED
      BY <2>2, <3>1, <3>3, <3>5
  <2>10. CASE i > w.index /\ v.tabs # <<>>
    <3>1. CloseTab(w, t) = v
      BY <1>1, <1>2, <2>1, <2>10
    <3>2. w.index \in 1..Len(w.tabs) /\ w.active = w.tabs[w.index] /\ w.active \notin w.sleeping
      BY <1>2, <2>1 DEF WindowOK, CurrentShown
    <3>3. CurrentShown(v)
      <4>1. w.index \in 1..Len(ts) /\ ts[w.index] = w.tabs[w.index]
        BY <1>2, <2>1, <2>3, <2>10, <3>2, SMTT(30)
      <4> QED
        BY <2>4, <3>2, <4>1 DEF CurrentShown
    <3> QED
      BY <2>2, <2>4, <2>6, <3>1, <3>3 DEF Hidden, WindowOK
  <2> QED
    BY <1>2, <2>1, <2>7, <2>8, <2>9, <2>10
<1> QED
  BY <1>3, <1>4

LEMMA SetPinnedKeeps ==
  ASSUME NEW w, WindowOK(w), NEW t \in Range(w.tabs)
  PROVE  /\ WindowOK(SetPinned(w, t, t \notin w.pinned))
         /\ RuntimesFollow(w, SetPinned(w, t, t \notin w.pinned))
         /\ Range(SetPinned(w, t, t \notin w.pinned).tabs) = Range(w.tabs)
<1> DEFINE on == t \notin w.pinned
           p == IF on THEN w.pinned \cup {t} ELSE w.pinned \ {t}
           i == IndexOf(w, t)
           to == Cardinality(p) + IF on THEN 0 ELSE 1
           ts == Moved(w.tabs, i, to)
           v == [w EXCEPT !.pinned = p, !.tabs = Moved(@, i, to)]
           k == IndexOf(v, w.tabs[w.index])
           u == [v EXCEPT !.index = k]
<1>1. /\ w \in Windows /\ TabsOK(w.tabs, w.pinned) /\ w.tabs \in Seq(TabIds)
      /\ Len(w.tabs) \in Nat /\ w.index \in Nat /\ IsFiniteSet(w.pinned)
      /\ Cardinality(w.pinned) \in Nat /\ Cardinality(w.pinned) <= Len(w.tabs)
      /\ w.pinned \in SUBSET TabIds
  BY FS_CardinalityType DEF WindowOK, Windows, TabsOK
<1>2. i \in 1..Len(w.tabs) /\ w.tabs[i] = t /\ t \in TabIds
  <2>1. i \in 1..Len(w.tabs) /\ w.tabs[i] = t
    BY <1>1, Place DEF TabsOK
  <2> QED
    BY <1>1, <2>1
<1> HIDE DEF i
<1>3. /\ \A j \in 1..Len(w.tabs) : w.tabs[j] \in w.pinned <=> j <= Cardinality(w.pinned)
      /\ \A j \in 1..Len(w.tabs) : w.tabs[j] = t => j = i
  BY <1>1, <1>2 DEF TabsOK
<1>4. /\ IsFiniteSet(p) /\ to \in 1..Len(w.tabs) /\ p \in SUBSET TabIds
      /\ \A j \in 1..Len(w.tabs) : w.tabs[CameFrom(j, i, to)] \in p <=> j <= Cardinality(p)
  <2>1. CASE on
    <3>1. p = w.pinned \cup {t} /\ Cardinality(p) = Cardinality(w.pinned) + 1 /\ IsFiniteSet(p)
      BY <1>1, <2>1, FS_AddElement
    <3>2. to = Cardinality(w.pinned) + 1 /\ i > Cardinality(w.pinned)
      BY <1>1, <1>2, <1>3, <2>1, <3>1
    <3> HIDE DEF p, to
    <3>3. ASSUME NEW j \in 1..Len(w.tabs)
          PROVE  w.tabs[CameFrom(j, i, to)] \in p <=> j <= Cardinality(p)
      <4>1. CASE j = to
        BY <1>2, <3>1, <3>2, <4>1 DEF CameFrom
      <4>2. CASE to < j /\ j <= i
        <5>1. CameFrom(j, i, to) = j - 1 /\ j - 1 \in 1..Len(w.tabs) /\ j - 1 # i
          BY <1>1, <1>2, <3>2, <4>2 DEF CameFrom
        <5> QED
          BY <1>1, <1>3, <3>1, <3>2, <4>2, <5>1
      <4>3. CASE j < to \/ j > i
        <5>1. CameFrom(j, i, to) = j /\ j # i
          BY <1>1, <1>2, <3>2, <4>3 DEF CameFrom
        <5> QED
          BY <1>1, <1>2, <1>3, <3>1, <3>2, <4>3, <5>1
      <4> QED
        BY <1>1, <1>2, <3>2, <4>1, <4>2, <4>3
    <3>4. to \in 1..Len(w.tabs)
      BY <1>1, <1>2, <3>2
    <3>5. p \in SUBSET TabIds
      BY <1>1, <1>2, <3>1
    <3> QED
      BY <3>1, <3>3, <3>4, <3>5
  <2>2. CASE ~on
    <3>1. p = w.pinned \ {t} /\ Cardinality(p) = Cardinality(w.pinned) - 1 /\ IsFiniteSet(p)
      BY <1>1, <2>2, FS_RemoveElement
    <3>2. to = Cardinality(w.pinned) /\ i <= Cardinality(w.pinned)
      BY <1>1, <1>2, <1>3, <2>2, <3>1
    <3> HIDE DEF p, to
    <3>3. ASSUME NEW j \in 1..Len(w.tabs)
          PROVE  w.tabs[CameFrom(j, i, to)] \in p <=> j <= Cardinality(p)
      <4>1. CASE j = to
        BY <1>1, <1>2, <3>1, <3>2, <4>1 DEF CameFrom
      <4>2. CASE i <= j /\ j < to
        <5>1. CameFrom(j, i, to) = j + 1 /\ j + 1 \in 1..Len(w.tabs) /\ j + 1 # i
          BY <1>1, <1>2, <3>2, <4>2 DEF CameFrom
        <5> QED
          BY <1>1, <1>3, <3>1, <3>2, <4>2, <5>1
      <4>3. CASE j < i \/ j > to
        <5>1. CameFrom(j, i, to) = j /\ j # i
          BY <1>1, <1>2, <3>2, <4>3 DEF CameFrom
        <5> QED
          BY <1>1, <1>2, <1>3, <3>1, <3>2, <4>3, <5>1
      <4> QED
        BY <1>1, <1>2, <3>2, <4>1, <4>2, <4>3
    <3>4. to \in 1..Len(w.tabs)
      BY <1>1, <1>2, <3>2
    <3>5. p \in SUBSET TabIds
      BY <1>1, <1>2, <3>1
    <3> QED
      BY <3>1, <3>3, <3>4, <3>5
  <2> QED
    BY <2>1, <2>2
<1>5. p = w.pinned \/ p = w.pinned \cup {w.tabs[i]} \/ p = w.pinned \ {w.tabs[i]}
  BY <1>2
<1>6. SetPinned(w, t, on) = u
  BY DEF SetPinned, i
<1> HIDE DEF p, to
<1>7. TabsOK(ts, p) /\ Range(ts) = Range(w.tabs)
  <2>1. PICK l : l = w.tabs
    OBVIOUS
  <2>2. PICK q : q = p
    OBVIOUS
  <2>3. PICK j \in 1..Len(l) : j = i
    BY <1>2, <2>1
  <2>4. PICK k2 \in 1..Len(l) : k2 = to
    BY <1>4, <2>1
  <2>5. TabsOK(l, w.pinned) /\ (q = w.pinned \/ q = w.pinned \cup {l[j]} \/ q = w.pinned \ {l[j]})
    BY <1>1, <1>5, <2>1, <2>2, <2>3
  <2>6. \A n \in 1..Len(l) : l[CameFrom(n, j, k2)] \in q <=> n <= Cardinality(q)
    BY <1>4, <2>1, <2>2, <2>3, <2>4
  <2>7. TabsOK(Moved(l, j, k2), q) /\ Range(Moved(l, j, k2)) = Range(l)
    BY <2>5, <2>6, TabsMoved
  <2> QED
    BY <2>1, <2>2, <2>3, <2>4, <2>7
<1> HIDE DEF ts
<1>8. /\ v \in Windows /\ v.tabs = ts /\ v.pinned = p /\ v.index = w.index
      /\ v.active = w.active /\ v.sleeping = w.sleeping /\ v.runtime = w.runtime
  BY <1>1, <1>4, <1>7 DEF Windows, TabsOK, ts
<1> HIDE DEF v
<1>9. /\ w.index \in 1..Len(w.tabs) /\ w.active = w.tabs[w.index] /\ w.active \notin w.sleeping
      /\ w.active \in Range(ts)
  BY <1>1, <1>2, <1>7, InRange DEF WindowOK, CurrentShown
<1>10. k \in 1..Len(ts) /\ ts[k] = w.active /\ k \in Nat
  BY <1>7, <1>8, <1>9, Place DEF TabsOK
<1> HIDE DEF k
<1>11. /\ u \in Windows /\ u.tabs = ts /\ u.pinned = p /\ u.index = k
       /\ u.active = w.active /\ u.sleeping = w.sleeping /\ u.runtime = w.runtime
  BY <1>8, <1>10 DEF Windows
<1> HIDE DEF u
<1>12. WindowOK(u) /\ RuntimesFollow(w, u)
  BY <1>7, <1>9, <1>10, <1>11 DEF WindowOK, CurrentShown, RuntimesMatch, RuntimesFollow
<1> QED
  BY <1>6, <1>7, <1>11, <1>12

LEMMA MoveTabKeeps ==
  ASSUME NEW w, WindowOK(w), NEW from \in 1..Len(w.tabs), NEW wanted \in 1..Len(w.tabs)
  PROVE  /\ WindowOK(MoveTab(w, from, wanted)) /\ RuntimesFollow(w, MoveTab(w, from, wanted))
         /\ Range(MoveTab(w, from, wanted).tabs) = Range(w.tabs)
<1> DEFINE p == Cardinality(w.pinned)
           pinned == w.tabs[from] \in w.pinned
           to == CASE pinned /\ wanted > p -> p [] ~pinned /\ wanted <= p -> p + 1 [] OTHER -> wanted
           ts == Moved(w.tabs, from, to)
           u == [w EXCEPT !.tabs = Moved(@, from, to), !.index = Follow(@, from, to)]
<1>1. /\ w \in Windows /\ TabsOK(w.tabs, w.pinned) /\ w.tabs \in Seq(TabIds)
      /\ Len(w.tabs) \in Nat /\ w.index \in Nat /\ p \in Nat /\ p <= Len(w.tabs)
      /\ \A j \in 1..Len(w.tabs) : w.tabs[j] \in w.pinned <=> j <= p
  BY FS_CardinalityType DEF WindowOK, Windows, TabsOK
<1>2. MoveTab(w, from, wanted) = u
  BY DEF MoveTab
<1>3. pinned <=> from <= p
  BY <1>1
<1>4. to \in 1..Len(w.tabs) /\ (from <= p <=> to <= p)
  BY <1>1, <1>3
<1> HIDE DEF p, to
<1>5. ASSUME NEW j \in 1..Len(w.tabs)
      PROVE  w.tabs[CameFrom(j, from, to)] \in w.pinned <=> j <= p
  <2>1. CameFrom(j, from, to) \in 1..Len(w.tabs)
    BY <1>1, <1>4 DEF CameFrom
  <2>2. CameFrom(j, from, to) <= p <=> j <= p
    BY <1>1, <1>4 DEF CameFrom
  <2> QED
    BY <1>1, <2>1, <2>2
<1>6. TabsOK(ts, w.pinned) /\ Range(ts) = Range(w.tabs)
  BY <1>1, <1>4, <1>5, TabsMoved DEF p
<1>7. \A j \in 1..Len(w.tabs) : ts[j] = w.tabs[CameFrom(j, from, to)]
  BY <1>1, <1>4, MovedFrom, SMTT(30)
<1>8. Len(ts) = Len(w.tabs)
  BY <1>1, <1>4, MovedFrom
<1> HIDE DEF ts
<1>9. /\ w.index \in 1..Len(w.tabs) /\ w.active = w.tabs[w.index] /\ w.active \notin w.sleeping
  BY <1>1 DEF WindowOK, CurrentShown
<1>10. /\ Follow(w.index, from, to) \in 1..Len(w.tabs)
       /\ CameFrom(Follow(w.index, from, to), from, to) = w.index
  <2>1. \A i \in 1..Len(w.tabs) : /\ Follow(i, from, to) \in 1..Len(w.tabs)
                                  /\ CameFrom(Follow(i, from, to), from, to) = i
    BY <1>1, <1>4, FollowFinds
  <2> QED
    BY <1>9, <2>1
<1>11. /\ u \in Windows /\ u.tabs = ts /\ u.pinned = w.pinned
       /\ u.index = Follow(w.index, from, to) /\ u.active = w.active
       /\ u.sleeping = w.sleeping /\ u.runtime = w.runtime
  <2>1. Follow(w.index, from, to) \in Nat /\ ts \in Seq(TabIds)
    BY <1>1, <1>6, <1>10 DEF TabsOK
  <2> QED
    BY <1>1, <2>1 DEF Windows, ts
<1> HIDE DEF u
<1>12. ts[u.index] = w.active
  BY <1>7, <1>9, <1>10, <1>11
<1>13. WindowOK(u) /\ RuntimesFollow(w, u)
  BY <1>6, <1>8, <1>9, <1>10, <1>11, <1>12
     DEF WindowOK, CurrentShown, RuntimesMatch, RuntimesFollow
<1> QED
  BY <1>2, <1>6, <1>11, <1>13

LEMMA SleptKeeps ==
  ASSUME NEW w, WindowOK(w), NEW ts \in SUBSET MaySleep(w)
  PROVE  WindowOK(Slept(w, ts)) /\ RuntimesFollow(w, Slept(w, ts))
         /\ Range(Slept(w, ts).tabs) = Range(w.tabs)
<1> DEFINE u == [w EXCEPT !.sleeping = @ \cup ts, !.runtime = Reset(@, ts, "none")]
<1>1. w \in Windows /\ w.runtime \in [TabIds -> {"none", "starting", "wired"}]
  BY DEF WindowOK, Windows
<1>2. ts \subseteq Range(w.tabs) /\ w.active \notin ts /\ ts \subseteq TabIds
  <2>1. Range(w.tabs) \subseteq TabIds
    BY <1>1 DEF Range, Windows
  <2> QED
    BY <2>1 DEF MaySleep
<1>3. /\ Reset(w.runtime, ts, "none") \in [TabIds -> {"none", "starting", "wired"}]
      /\ \A t \in TabIds : Reset(w.runtime, ts, "none")[t] = IF t \in ts THEN "none" ELSE w.runtime[t]
  BY <1>1 DEF Reset
<1>4. /\ u \in Windows /\ u.tabs = w.tabs /\ u.pinned = w.pinned /\ u.index = w.index
      /\ u.active = w.active /\ u.sleeping = w.sleeping \cup ts
      /\ u.runtime = Reset(w.runtime, ts, "none")
  BY <1>1, <1>2, <1>3 DEF Windows
<1>5. Slept(w, ts) = u
  BY DEF Slept
<1> HIDE DEF u
<1>6. WindowOK(u) /\ RuntimesFollow(w, u)
  BY <1>2, <1>3, <1>4 DEF WindowOK, CurrentShown, RuntimesMatch, RuntimesFollow
<1> QED
  BY <1>4, <1>5, <1>6

LEMMA RebuiltIsOK ==
  ASSUME NEW w, w \in Windows, \A t \in TabIds : w.runtime[t] = "none",
         NEW s, TabsOK(s.tabs, s.pinned), NEW i \in 1..Len(s.tabs)
  PROVE  /\ WindowOK(Rebuilt(w, s, i)) /\ Rebuilt(w, s, i).tabs = s.tabs
         /\ \A t \in TabIds : Rebuilt(w, s, i).runtime[t] # "wired"
<1> DEFINE v == [w EXCEPT !.tabs = s.tabs, !.pinned = s.pinned, !.sleeping = {}, !.index = i,
                          !.runtime = Reset(@, Range(s.tabs), "starting")]
<1>1. /\ w.runtime \in [TabIds -> {"none", "starting", "wired"}]
      /\ s.tabs \in Seq(TabIds) /\ s.pinned \in SUBSET TabIds /\ i \in Nat
  BY DEF Windows, TabsOK
<1>2. /\ Reset(w.runtime, Range(s.tabs), "starting") \in [TabIds -> {"none", "starting", "wired"}]
      /\ \A t \in TabIds : Reset(w.runtime, Range(s.tabs), "starting")[t] =
                             IF t \in Range(s.tabs) THEN "starting" ELSE "none"
  BY <1>1 DEF Reset
<1>3. /\ v \in Windows /\ v.tabs = s.tabs /\ v.pinned = s.pinned /\ v.index = i
      /\ v.sleeping = {} /\ v.runtime = Reset(w.runtime, Range(s.tabs), "starting")
  BY <1>1, <1>2 DEF Windows
<1>4. Rebuilt(w, s, i) = OnTabSwitched(v, s.tabs[i])
  BY DEF Rebuilt
<1> HIDE DEF v
<1>5. Hidden(v) /\ v.index \in 1..Len(v.tabs) /\ s.tabs[i] = v.tabs[v.index]
  BY <1>2, <1>3 DEF Hidden, RuntimesMatch
<1>6. /\ WindowOK(OnTabSwitched(v, s.tabs[i])) /\ OnTabSwitched(v, s.tabs[i]).tabs = v.tabs
      /\ \A x \in TabIds :
           \/ OnTabSwitched(v, s.tabs[i]).runtime[x] = v.runtime[x]
           \/ v.runtime[x] = "none" /\ OnTabSwitched(v, s.tabs[i]).runtime[x] = "starting"
  BY <1>5, Switched
<1> QED
  BY <1>2, <1>3, <1>4, <1>6
-----------------------------------------------------------------------------
(* Closing several tabs.  The proofs about the recursion look at the first  *)
(* number for which the claim fails.                                        *)

\* The body of the recursion in CloseAll.
ClosedUpto(w, ts, m, closed) ==
  [n \in 0..m |-> IF n = 0 THEN w
                  ELSE IF w.tabs[n] \in ts THEN CloseTab(closed[n - 1], w.tabs[n])
                  ELSE closed[n - 1]]

LEMMA ClosedExists ==
  ASSUME NEW w, NEW ts, NEW m \in Nat
  PROVE  \E closed : closed = ClosedUpto(w, ts, m, closed)
<1> DEFINE F(closed, n) == ClosedUpto(w, ts, n, closed)
           Bad == {n \in Nat : ~ \E closed : closed = F(closed, n)}
<1>1. SUFFICES ASSUME Bad # {} PROVE FALSE
  OBVIOUS
<1>2. PICK l \in Bad : \A k \in Bad : l <= k
  BY <1>1, LeastElement
<1>3. l # 0
  <2>1. [n \in 0..0 |-> w] = F([n \in 0..0 |-> w], 0)
    BY DEF ClosedUpto
  <2> QED
    BY <2>1
<1>4. PICK old : old = F(old, l - 1)
  <2>1. l \in Nat /\ \A k \in Nat : k < l => k \notin Bad
    <3>1. Bad \subseteq Nat
      OBVIOUS
    <3> HIDE DEF Bad
    <3> QED
      BY <1>2, <3>1
  <2>2. l - 1 \in Nat /\ l - 1 < l
    BY <1>3, <2>1
  <2>3. l - 1 \notin Bad
    BY <2>1, <2>2
  <2> QED
    BY <2>2, <2>3
<1> DEFINE new == [n \in 0..l |-> IF n < l THEN old[n]
                                  ELSE IF w.tabs[l] \in ts THEN CloseTab(old[l - 1], w.tabs[l])
                                  ELSE old[l - 1]]
<1>5. new = F(new, l)
  <2>1. \A n \in 0..l : new[n] = F(new, l)[n]
    <3> SUFFICES ASSUME NEW n \in 0..l PROVE new[n] = F(new, l)[n]
      OBVIOUS
    <3>1. CASE n < l
      <4>1. new[n] = F(old, l - 1)[n]
        BY <1>4, <3>1
      <4>2. n # 0 => new[n - 1] = old[n - 1]
        BY <3>1
      <4> QED
        BY <3>1, <4>1, <4>2 DEF ClosedUpto
    <3>2. CASE n = l
      BY <1>3, <3>2 DEF ClosedUpto
    <3> QED
      BY <3>1, <3>2
  <2> QED
    BY <2>1 DEF ClosedUpto
<1> QED
  BY <1>5

LEMMA CloseAllStep ==
  ASSUME NEW w, Len(w.tabs) \in Nat, NEW ts
  PROVE  \E closed :
           /\ \A n \in 0..Len(w.tabs) :
                closed[n] = IF n = 0 THEN w
                            ELSE IF w.tabs[n] \in ts THEN CloseTab(closed[n - 1], w.tabs[n])
                            ELSE closed[n - 1]
           /\ CloseAll(w, ts) = closed[Len(w.tabs)]
<1> DEFINE Is(closed) == closed = ClosedUpto(w, ts, Len(w.tabs), closed)
           c == CHOOSE closed : Is(closed)
<1>1. Is(c)
  <2>1. \E closed : Is(closed)
    BY ClosedExists
  <2> HIDE DEF Is
  <2> QED
    BY <2>1
<1>2. CloseAll(w, ts) = c[Len(w.tabs)]
  BY DEF CloseAll, ClosedUpto
<1> HIDE DEF c
<1>3. \A n \in 0..Len(w.tabs) :
         c[n] = IF n = 0 THEN w
                ELSE IF w.tabs[n] \in ts THEN CloseTab(c[n - 1], w.tabs[n])
                ELSE c[n - 1]
  BY <1>1 DEF ClosedUpto
<1> QED
  BY <1>2, <1>3

LEMMA ShrinksFurther ==
  ASSUME NEW w, NEW v, NEW u, Shrinks(w, v), Shrinks(v, u), RuntimesMatch(u)
  PROVE  Shrinks(w, u)
<1>1. \A x \in TabIds : u.runtime[x] = "starting" => x \in Range(v.tabs)
  BY DEF Shrinks, RuntimesMatch
<1> QED
  BY <1>1 DEF Shrinks

\* The tabs that were to be closed are gone, and the window is in order.
LEMMA CloseAllKeeps ==
  ASSUME NEW w, WindowOK(w), NEW ts
  PROVE  /\ WindowOK(CloseAll(w, ts)) /\ Shrinks(w, CloseAll(w, ts))
         /\ Range(CloseAll(w, ts).tabs) \cap ts = {}
<1> DEFINE m == Len(w.tabs)
<1>1. m \in Nat /\ w.tabs \in Seq(TabIds)
  BY DEF WindowOK, Windows
<1>2. PICK c :
        /\ \A n \in 0..m :
             c[n] = IF n = 0 THEN w
                    ELSE IF w.tabs[n] \in ts THEN CloseTab(c[n - 1], w.tabs[n])
                    ELSE c[n - 1]
        /\ CloseAll(w, ts) = c[m]
  BY <1>1, CloseAllStep
<1> DEFINE Good(n) ==
             /\ WindowOK(c[n]) /\ Shrinks(w, c[n])
             /\ \A i \in 1..n : w.tabs[i] \in ts => w.tabs[i] \notin Range(c[n].tabs)
           Bad == {n \in 0..m : ~Good(n)}
<1>3. Good(0)
  <2>1. c[0] = w
    BY <1>1, <1>2
  <2> QED
    BY <2>1 DEF Shrinks
<1>4. ASSUME NEW n \in 1..m, Good(n - 1) PROVE Good(n)
  <2>1. c[n] = IF w.tabs[n] \in ts THEN CloseTab(c[n - 1], w.tabs[n]) ELSE c[n - 1]
    BY <1>1, <1>2
  <2>2. CASE w.tabs[n] \notin ts
    <3>1. c[n] = c[n - 1]
      BY <2>1, <2>2
    <3> QED
      BY <1>1, <1>4, <2>2, <3>1
  <2>3. CASE w.tabs[n] \in ts
    <3>1. PICK v : v = c[n - 1]
      OBVIOUS
    <3>2. PICK t : t = w.tabs[n]
      OBVIOUS
    <3>3. c[n] = CloseTab(v, t) /\ WindowOK(v) /\ Shrinks(w, v)
          /\ \A i \in 1..(n - 1) : w.tabs[i] \in ts => w.tabs[i] \notin Range(v.tabs)
      BY <1>4, <2>1, <2>3, <3>1, <3>2
    <3>4. /\ WindowOK(CloseTab(v, t)) /\ Shrinks(v, CloseTab(v, t))
          /\ Range(CloseTab(v, t).tabs) = Range(v.tabs) \ {t}
      BY <3>3, CloseTabKeeps
    <3>5. Shrinks(w, CloseTab(v, t))
      BY <3>3, <3>4, ShrinksFurther DEF WindowOK
    <3>6. ASSUME NEW i \in 1..n, w.tabs[i] \in ts
          PROVE  w.tabs[i] \notin Range(CloseTab(v, t).tabs)
      <4>1. CASE i = n
        BY <3>2, <3>4, <4>1
      <4>2. CASE i # n
        BY <1>1, <3>3, <3>4, <3>6, <4>2
      <4> QED
        BY <4>1, <4>2
    <3> QED
      BY <3>3, <3>4, <3>5, <3>6
  <2> QED
    BY <2>2, <2>3
<1>5. Bad = {}
  <2> SUFFICES ASSUME Bad # {} PROVE FALSE
    OBVIOUS
  <2>1. Bad \subseteq Nat
    OBVIOUS
  <2>2. PICK l \in Bad : \A k \in Bad : l <= k
    <3> HIDE DEF Bad
    <3> QED
      BY <2>1, LeastElement
  <2>3. l \in 1..m /\ l - 1 \notin Bad
    <3> HIDE DEF Good, m
    <3> QED
      BY <1>1, <1>3, <2>2
  <2> HIDE DEF Good, m
  <2> QED
    BY <1>1, <1>4, <2>2, <2>3
<1>6. Good(m)
  BY <1>1, <1>5
<1>7. \A t \in Range(w.tabs) : t \in ts => t \notin Range(CloseAll(w, ts).tabs)
  BY <1>1, <1>2, <1>6, InRange
<1> QED
  BY <1>2, <1>6, <1>7 DEF Shrinks
-----------------------------------------------------------------------------
(* The window with its sessions and tabs.db.                               *)

SessionsMatch == \A t \in TabIds : session[t] # Unregistered <=> win.runtime[t] = "wired"

\* What was saved is a window's list; what is owed is in it, and in the window.
SavedOK == TabsOK(saved.tabs, saved.pinned) /\ owed \subseteq Range(saved.tabs)

WindowInv ==
  /\ WindowOK(win) /\ SessionsMatch /\ SavedOK
  /\ IF running THEN win.tabs # <<>> /\ owed \subseteq Range(win.tabs) ELSE win = NoWindow

LEMMA NoWindowOK ==
  /\ WindowOK(NoWindow) /\ NoWindow.tabs = <<>> /\ NoWindow.pinned = {}
  /\ Range(NoWindow.tabs) = {} /\ \A t \in TabIds : NoWindow.runtime[t] = "none"
<1> DEFINE none == [t \in TabIds |-> "none"]
<1>1. none \in [TabIds -> {"none", "starting", "wired"}] /\ \A t \in TabIds : none[t] = "none"
  OBVIOUS
<1>2. /\ NoWindow.tabs = <<>> /\ NoWindow.pinned = {} /\ NoWindow.index = 0
      /\ NoWindow.active = NoTabId /\ NoWindow.sleeping = {} /\ NoWindow.runtime = none
  BY DEF NoWindow
<1>3. NoWindow \in Windows
  <2> HIDE DEF none
  <2> QED
    BY <1>1 DEF NoWindow, Windows, none
<1>4. <<>> \in Seq(TabIds) /\ Len(<<>>) = 0 /\ Range(<<>>) = {}
  BY DEF Range
<1>5. IsFiniteSet({}) /\ Cardinality({}) = 0
  BY FS_EmptySet
<1>6. TabsOK(NoWindow.tabs, NoWindow.pinned)
  BY <1>2, <1>4, <1>5 DEF TabsOK
<1> HIDE DEF none
<1>7. RuntimesMatch(NoWindow) /\ CurrentShown(NoWindow)
  BY <1>1, <1>2, <1>4 DEF RuntimesMatch, CurrentShown
<1> QED
  BY <1>1, <1>2, <1>3, <1>4, <1>6, <1>7 DEF WindowOK

\* The hosts that end are those whose runtime went: the others keep theirs.
LEMMA SessionsFollowRuntimes ==
  ASSUME WindowInv, NEW w, WindowOK(w), RuntimesFollow(win, w), win' = w,
         EndHosts(Awake(win) \ Awake(w))
  PROVE  SessionsMatch'
<1>1. \A t \in TabIds : session'[t] = IF t \in Awake(win) \ Awake(w) THEN Unregistered ELSE session[t]
  BY DEF EndHosts, SessionsReset, Reset
<1> QED
  BY <1>1 DEF WindowInv, SessionsMatch, RuntimesFollow, Awake

LEMMA AllHostsEnded ==
  ASSUME WindowInv, EndHosts(Awake(win))
  PROVE  \A t \in TabIds : session'[t] = Unregistered
<1>1. \A t \in TabIds : session'[t] = IF t \in Awake(win) THEN Unregistered ELSE session[t]
  BY DEF EndHosts, SessionsReset, Reset
<1> QED
  BY <1>1 DEF WindowInv, SessionsMatch, Awake

LEMMA SaveSessionKeeps ==
  ASSUME WindowInv, running, NEW w, WindowOK(w), SaveSession(w)
  PROVE  SavedOK' /\ owed' \subseteq owed \cup Range(w.tabs)
<1>1. CASE saved' = Saved(w) /\ owed' = (owed \ ClosedIn(w)) \cup Range(w.tabs)
  <2>1. saved'.tabs = w.tabs /\ saved'.pinned = w.pinned
    BY <1>1 DEF Saved
  <2>2. owed' \subseteq Range(w.tabs)
    BY <1>1 DEF WindowInv, ClosedIn
  <2> QED
    BY <1>1, <2>1, <2>2 DEF WindowOK, SavedOK
<1>2. CASE UNCHANGED saved /\ owed' = owed \ ClosedIn(w)
  BY <1>2 DEF WindowInv, SavedOK
<1> QED
  BY <1>1, <1>2 DEF SaveSession

LEMMA EndedKeeps ==
  ASSUME WindowInv, Ended, SavedOK'
  PROVE  WindowInv'
<1>1. running' = FALSE /\ win' = NoWindow
  BY DEF Ended
<1>2. \A t \in TabIds : session'[t] = Unregistered
  BY AllHostsEnded DEF Ended
<1>3. SessionsMatch'
  BY <1>1, <1>2, NoWindowOK DEF SessionsMatch
<1> QED
  BY <1>1, <1>3, NoWindowOK DEF WindowInv

LEMMA CloseWindowKeeps ==
  ASSUME WindowInv, running, NEW w, WindowOK(w), CloseWindow(w)
  PROVE  WindowInv'
<1>1. SavedOK'
  BY SaveSessionKeeps DEF CloseWindow
<1> QED
  BY <1>1, EndedKeeps DEF CloseWindow

LEMMA ShowKeeps ==
  ASSUME WindowInv, running, NEW w, WindowOK(w), RuntimesFollow(win, w), Show(w)
  PROVE  WindowInv'
<1>1. CASE w.tabs = <<>>
  BY <1>1, CloseWindowKeeps DEF Show
<1>2. CASE w.tabs # <<>>
  <2>1. /\ win' = w /\ EndHosts(Awake(win) \ Awake(w))
        /\ owed' = owed \ ClosedIn(w) /\ running' = running /\ saved' = saved
    BY <1>2 DEF Show
  <2>2. SessionsMatch'
    BY <2>1, SessionsFollowRuntimes
  <2>3. owed' \subseteq Range(w.tabs) /\ SavedOK'
    BY <2>1 DEF WindowInv, ClosedIn, SavedOK
  <2> QED
    BY <1>2, <2>1, <2>2, <2>3 DEF WindowInv
<1> QED
  BY <1>1, <1>2

LEMMA ShrunkFollows ==
  ASSUME NEW w, NEW v, Shrinks(w, v)
  PROVE  RuntimesFollow(w, v)
BY DEF Shrinks, RuntimesFollow

LEMMA UserActionKeeps == WindowInv /\ running /\ UserAction => WindowInv'
<1> SUFFICES ASSUME WindowInv, running, NEW t \in Range(win.tabs),
                    \/ Show(SwitchTo(win, t))
                    \/ Show(SetPinned(win, t, t \notin win.pinned))
                    \/ Show(CloseTab(win, t))
                    \/ Show(CloseOthers(win, t))
                    \/ Show(CloseRight(win, t))
                    \/ \E i \in DOMAIN win.tabs \ {IndexOf(win, t)} :
                         Show(MoveTab(win, IndexOf(win, t), i))
             PROVE  WindowInv'
  BY DEF UserAction
<1>1. WindowOK(win) /\ win.tabs \in Seq(TabIds)
  BY DEF WindowInv, WindowOK, Windows
<1>2. CASE Show(SwitchTo(win, t))
  BY <1>1, <1>2, SwitchToKeeps, ShowKeeps
<1>3. CASE Show(SetPinned(win, t, t \notin win.pinned))
  BY <1>1, <1>3, SetPinnedKeeps, ShowKeeps
<1>4. CASE Show(CloseTab(win, t))
  BY <1>1, <1>4, CloseTabKeeps, ShrunkFollows, ShowKeeps
<1>5. ASSUME NEW ts, Show(CloseAll(win, ts)) PROVE WindowInv'
  BY <1>1, <1>5, CloseAllKeeps, ShrunkFollows, ShowKeeps
<1>6. ASSUME NEW i \in DOMAIN win.tabs, Show(MoveTab(win, IndexOf(win, t), i)) PROVE WindowInv'
  <2>1. IndexOf(win, t) \in 1..Len(win.tabs) /\ i \in 1..Len(win.tabs)
    BY <1>1, Place DEF WindowOK, TabsOK
  <2>2. WindowOK(MoveTab(win, IndexOf(win, t), i))
        /\ RuntimesFollow(win, MoveTab(win, IndexOf(win, t), i))
    BY <1>1, <2>1, MoveTabKeeps
  <2> QED
    BY <1>6, <2>2, ShowKeeps
<1> QED
  BY <1>2, <1>3, <1>4, <1>5, <1>6 DEF CloseOthers, CloseRight

LEMMA StartWindowKeeps == WindowInv /\ StartWindow => WindowInv'
<1> SUFFICES ASSUME WindowInv, StartWindow PROVE WindowInv'
  OBVIOUS
<1>1. win = NoWindow /\ running' = TRUE /\ saved' = saved /\ session' = session
  BY DEF WindowInv, StartWindow, hostVars
<1>2. \A t \in TabIds : session[t] = Unregistered
  BY <1>1, NoWindowOK DEF WindowInv, SessionsMatch
<1>3. ASSUME NEW i \in DOMAIN saved.tabs, win' = Rebuilt(NoWindow, saved, i), owed' = owed
      PROVE  WindowInv'
  <2>1. i \in 1..Len(saved.tabs) /\ TabsOK(saved.tabs, saved.pinned) /\ saved.tabs # <<>>
    BY DEF WindowInv, SavedOK, TabsOK
  <2>2. NoWindow \in Windows
    BY NoWindowOK DEF WindowOK
  <2>3. /\ WindowOK(Rebuilt(NoWindow, saved, i)) /\ Rebuilt(NoWindow, saved, i).tabs = saved.tabs
        /\ \A t \in TabIds : Rebuilt(NoWindow, saved, i).runtime[t] # "wired"
    BY <2>1, <2>2, NoWindowOK, RebuiltIsOK
  <2>4. SessionsMatch' /\ SavedOK'
    BY <1>1, <1>2, <1>3, <2>3 DEF SessionsMatch, SavedOK, WindowInv
  <2> QED
    BY <1>1, <1>3, <2>1, <2>3, <2>4 DEF WindowInv, SavedOK
<1>4. ASSUME NEW t \in Unused, win' = NewTab(NoWindow, t), owed' = {}
      PROVE  WindowInv'
  <2>1. t \in TabIds \ Range(NoWindow.tabs)
    BY NoWindowOK DEF Unused
  <2>2. /\ WindowOK(NewTab(NoWindow, t)) /\ RuntimesFollow(NoWindow, NewTab(NoWindow, t))
        /\ NewTab(NoWindow, t).tabs # <<>>
    BY <2>1, NoWindowOK, NewTabKeeps
  <2>3. SessionsMatch' /\ SavedOK'
    BY <1>1, <1>2, <1>4, <2>2, NoWindowOK DEF SessionsMatch, RuntimesFollow, SavedOK, WindowInv
  <2> QED
    BY <1>1, <1>4, <2>2, <2>3 DEF WindowInv
<1> QED
  BY <1>3, <1>4 DEF StartWindow

LEMMA RestoreKeeps == WindowInv /\ running /\ RestoreSavedSession => WindowInv'
<1> SUFFICES ASSUME WindowInv, running, RestoreSavedSession PROVE WindowInv'
  OBVIOUS
<1> DEFINE w == CloseAll(win, Range(win.tabs))
<1>1. PICK i \in DOMAIN saved.tabs : win' = Rebuilt(w, saved, i)
  BY DEF RestoreSavedSession
<1>2. EndHosts(Awake(win)) /\ running' = running /\ saved' = saved /\ owed' = owed
  BY DEF RestoreSavedSession
<1>3. /\ WindowOK(w) /\ Range(w.tabs) = {}
  <2>1. WindowOK(win)
    BY DEF WindowInv
  <2>2. WindowOK(w) /\ Shrinks(win, w) /\ Range(w.tabs) \cap Range(win.tabs) = {}
    BY <2>1, CloseAllKeeps
  <2> QED
    BY <2>2 DEF Shrinks
<1> HIDE DEF w
<1>4. w \in Windows /\ \A t \in TabIds : w.runtime[t] = "none"
  BY <1>3 DEF WindowOK, RuntimesMatch
<1>5. i \in 1..Len(saved.tabs) /\ TabsOK(saved.tabs, saved.pinned) /\ saved.tabs # <<>>
  BY DEF WindowInv, SavedOK, TabsOK
<1>6. /\ WindowOK(win') /\ win'.tabs = saved.tabs
      /\ \A t \in TabIds : win'.runtime[t] # "wired"
  BY <1>1, <1>4, <1>5, RebuiltIsOK
<1>7. SessionsMatch' /\ SavedOK'
  BY <1>2, <1>6, AllHostsEnded DEF SessionsMatch, WindowInv, SavedOK
<1> QED
  BY <1>2, <1>5, <1>6, <1>7 DEF WindowInv, SavedOK

LEMMA CoreReadyKeeps ==
  ASSUME WindowInv, HostsTypeOK, running, NEW t \in TabIds, CoreReady(t)
  PROVE  WindowInv'
<1>1. WindowOK(win)
  BY DEF WindowInv
<1>2. CASE Show(CloseTab(win, t))
  BY <1>1, <1>2, CloseTabKeeps, ShrunkFollows, ShowKeeps
<1>3. CASE /\ win' = [win EXCEPT !.runtime[t] = "wired"] /\ BeginHost(t)
           /\ UNCHANGED <<running, dirty, saved, owed>>
  <2>1. win \in Windows /\ win.runtime \in [TabIds -> {"none", "starting", "wired"}]
    BY <1>1 DEF WindowOK, Windows
  <2>2. /\ win' \in Windows /\ win'.tabs = win.tabs /\ win'.index = win.index
        /\ win'.active = win.active /\ win'.pinned = win.pinned
        /\ win'.sleeping = win.sleeping /\ win'.runtime = [win.runtime EXCEPT ![t] = "wired"]
    BY <1>3, <2>1 DEF Windows
  <2>3. win.runtime[t] = "starting"
    BY DEF CoreReady
  <2>4. RuntimesMatch(win')
    BY <1>1, <2>1, <2>2, <2>3 DEF WindowOK, RuntimesMatch
  <2>5. CurrentShown(win') /\ TabsOK(win'.tabs, win'.pinned)
    BY <1>1, <2>2 DEF WindowOK, CurrentShown
  <2>6. \A x \in TabIds : session'[x] = IF x = t THEN 0 ELSE session[x]
    BY <1>3 DEF BeginHost, Reset
  <2>7. SessionsMatch'
    BY <2>1, <2>2, <2>6, HostNavigationAssumption DEF WindowInv, SessionsMatch
  <2> QED
    BY <1>3, <2>2, <2>4, <2>5, <2>7 DEF WindowInv, WindowOK, SavedOK
<1> QED
  BY <1>2, <1>3 DEF CoreReady

LEMMA WindowStutter ==
  ASSUME WindowInv, UNCHANGED windowVars,
         \A t \in TabIds : session'[t] # Unregistered <=> session[t] # Unregistered
  PROVE  WindowInv'
BY DEF WindowInv, windowVars, SessionsMatch, SavedOK

LEMMA WindowStep == WindowInv /\ HostsTypeOK /\ WindowNext => WindowInv'
<1> SUFFICES ASSUME WindowInv, HostsTypeOK, WindowNext PROVE WindowInv'
  OBVIOUS
<1>1. WindowOK(win)
  BY DEF WindowInv
<1>2. CASE running /\ OpenTab
  <2>1. PICK t \in Unused : Show(NewTab(win, t))
    BY <1>2 DEF OpenTab
  <2>2. t \in TabIds \ Range(win.tabs)
    BY DEF Unused
  <2> QED
    BY <1>1, <1>2, <2>1, <2>2, NewTabKeeps, ShowKeeps
<1>3. CASE running /\ SleepCheck
  <2>1. PICK ts \in SUBSET MaySleep(win) : Show(Slept(win, ts))
    BY <1>3 DEF SleepCheck
  <2> QED
    BY <1>1, <1>3, <2>1, SleptKeeps, ShowKeeps
<1>4. CASE running /\ Elapsed
  <2>1. SaveSession(win) /\ running' = running /\ win' = win /\ session' = session
    BY <1>4 DEF Elapsed, hostVars
  <2>2. SavedOK' /\ owed' \subseteq Range(win.tabs)
    BY <1>1, <1>4, <2>1, SaveSessionKeeps DEF WindowInv
  <2> QED
    BY <1>4, <2>1, <2>2 DEF WindowInv, SessionsMatch
<1>5. CASE running /\ OnTabNavigationCompleted
  BY <1>5 DEF OnTabNavigationCompleted, hostVars, WindowInv, SessionsMatch, SavedOK
<1>6. CASE Crash
  <2>1. Ended /\ SavedOK'
    BY <1>6 DEF Crash, WindowInv, SavedOK
  <2> QED
    BY <2>1, EndedKeeps
<1> QED
  BY <1>1, <1>2, <1>3, <1>4, <1>5, <1>6, UserActionKeeps, StartWindowKeeps, RestoreKeeps,
     CoreReadyKeeps, CloseWindowKeeps DEF WindowNext

LEMMA HostEventsKeepSessions ==
  ASSUME HostsTypeOK, HostEvents
  PROVE  \A t \in TabIds : session'[t] # Unregistered <=> session[t] # Unregistered
<1>1. ASSUME NEW t \in TabIds, session[t] # Unregistered, Advance(t)
      PROVE  \A x \in TabIds : session'[x] # Unregistered <=> session[x] # Unregistered
  <2>1. /\ session \in [TabIds -> Nat \cup {Unregistered}]
        /\ session' = [session EXCEPT ![t] = session[t] + 1]
    BY <1>1 DEF HostsTypeOK, Advance
  <2>2. session[t] + 1 \in Nat
    BY <1>1, <2>1
  <2> QED
    BY <1>1, <2>1, <2>2, HostNavigationAssumption
<1>2. ASSUME NEW t \in TabIds, NEW u \in Addresses, TopNavigation(t, u)
      PROVE  \A x \in TabIds : session'[x] # Unregistered <=> session[x] # Unregistered
  <2>1. session[t] # Unregistered
    BY <1>2 DEF TopNavigation
  <2>2. Resume(t, u) \/ LetThrough(t, u) \/ session' = session
    BY <1>2 DEF TopNavigation, Reject, Ask, Refuse, LeaveUnconfirmed
  <2> QED
    BY <1>1, <2>1, <2>2 DEF Resume, LetThrough
<1> QED
  BY <1>2 DEF HostEvents, FrameNavigation, LeaveUnconfirmed, Allow, Deny, Reject, Expire

LEMMA WindowInitInv == HostsInit /\ WindowInit => WindowInv
<1> SUFFICES ASSUME HostsInit, WindowInit PROVE WindowInv
  OBVIOUS
<1>1. /\ win = NoWindow /\ running = FALSE /\ owed = {}
      /\ saved.tabs = NoWindow.tabs /\ saved.pinned = NoWindow.pinned
  BY DEF WindowInit, Saved
<1>2. \A t \in TabIds : session[t] = Unregistered
  BY DEF HostsInit
<1> QED
  BY <1>1, <1>2, NoWindowOK DEF WindowInv, SessionsMatch, SavedOK, WindowOK

LEMMA WindowIsKept == WindowInv => WindowTabsKept
<1> SUFFICES ASSUME WindowInv PROVE WindowTabsKept
  OBVIOUS
<1>1. /\ WindowOK(win) /\ win.tabs \in Seq(TabIds) /\ TabsOK(win.tabs, win.pinned)
      /\ Len(win.tabs) \in Nat /\ Cardinality(win.pinned) \in Nat
  BY FS_CardinalityType DEF WindowInv, WindowOK, Windows, TabsOK
<1>2. SessionsFollowTabs
  <2>1. \A t \in TabIds : IndexOf(win, t) # 0 <=> t \in Range(win.tabs)
    <3> SUFFICES ASSUME NEW t \in TabIds PROVE IndexOf(win, t) # 0 <=> t \in Range(win.tabs)
      OBVIOUS
    <3>1. /\ t \in Range(win.tabs) => IndexOf(win, t) \in 1..Len(win.tabs)
          /\ t \notin Range(win.tabs) => IndexOf(win, t) = 0
      BY <1>1, Place DEF TabsOK
    <3> QED
      BY <1>1, <3>1
  <2> QED
    BY <2>1 DEF WindowInv, WindowOK, RuntimesMatch, SessionsMatch, SessionsFollowTabs, Awake
<1>3. ActiveIsCurrent
  <2> SUFFICES ASSUME running PROVE
         /\ win.active = win.tabs[win.index] /\ win.active \in Awake(win)
         /\ \A i, j \in DOMAIN win.tabs :
              i < j => win.tabs[i] # win.tabs[j] /\ (win.tabs[j] \in win.pinned => win.tabs[i] \in win.pinned)
    BY DEF ActiveIsCurrent
  <2>1. /\ win.index \in 1..Len(win.tabs) /\ win.active = win.tabs[win.index]
        /\ win.active \notin win.sleeping
    BY DEF WindowInv, WindowOK, CurrentShown
  <2>2. win.active \in Awake(win)
    <3>1. win.active \in TabIds /\ win.active \in Range(win.tabs)
      BY <1>1, <2>1, InRange
    <3> QED
      BY <1>1, <2>1, <3>1 DEF WindowOK, RuntimesMatch, Awake
  <2>3. ASSUME NEW i \in DOMAIN win.tabs, NEW j \in DOMAIN win.tabs, i < j
        PROVE  win.tabs[i] # win.tabs[j] /\ (win.tabs[j] \in win.pinned => win.tabs[i] \in win.pinned)
    <3>1. i \in 1..Len(win.tabs) /\ j \in 1..Len(win.tabs)
      BY <1>1
    <3> QED
      BY <1>1, <2>3, <3>1 DEF TabsOK
  <2> QED
    BY <2>1, <2>2, <2>3
<1> QED
  BY <1>2, <1>3 DEF WindowInv, SavedOK, NothingForgotten, WindowTabsKept

-----------------------------------------------------------------------------

LEMMA BrowserWindowStep ==
  HostsInv /\ WindowInv /\ [BrowserNext]_<<hostVars, windowVars>> => WindowInv'
<1> SUFFICES ASSUME HostsInv, WindowInv, [BrowserNext]_<<hostVars, windowVars>> PROVE WindowInv'
  OBVIOUS
<1>1. CASE WindowNext
  BY <1>1, WindowStep DEF HostsInv
<1>2. CASE HostEvents /\ UNCHANGED windowVars
  BY <1>2, HostEventsKeepSessions, WindowStutter DEF HostsInv
<1>3. CASE UNCHANGED <<hostVars, windowVars>>
  BY <1>3, WindowStutter DEF hostVars
<1> QED
  BY <1>1, <1>2, <1>3 DEF BrowserNext

\* A tab has a session exactly while its WebView is wired, the tab shown is the
\* current one and awake, pinned tabs are in front, and a saved tab stays saved until
\* it is closed, for navigations of every kind in between (TabManager.cs,
\* TabRuntimeCoordinator.cs, SessionSaveScheduler.cs).
THEOREM TabsAndSessionsAgree == BrowserSpec => []WindowTabsKept
<1>1. HostsInit /\ WindowInit => HostsInv /\ WindowInv
  BY HostsInitInv, WindowInitInv
<1>2. HostsInv /\ WindowInv /\ [BrowserNext]_<<hostVars, windowVars>> => HostsInv' /\ WindowInv'
  BY BrowserStep, BrowserWindowStep
<1> QED
  BY <1>1, <1>2, WindowIsKept, PTL DEF BrowserSpec

\* The same of the behaviours that are model-checked beside those of the threat feed.
DesktopInv == HostsInv /\ (focus = "window" => WindowInv)

LEMMA DesktopStep == DesktopInv /\ [DesktopNext]_desktopVars => DesktopInv'
<1> SUFFICES ASSUME DesktopInv, [DesktopNext]_desktopVars PROVE DesktopInv'
  OBVIOUS
<1>1. focus' = focus
  BY DEF DesktopNext, Feed, Approvals, Window, InFeed, InApprovals, InWindow, desktopVars
<1>2. CASE Feed \/ UNCHANGED desktopVars
  <2>1. UNCHANGED hostVars /\ UNCHANGED windowVars
    BY <1>2 DEF Feed, InFeed, desktopVars
  <2>2. WindowInv => WindowInv'
    BY <2>1, WindowStutter DEF hostVars
  <2> QED
    BY <1>1, <2>1, <2>2, HostsStutter DEF DesktopInv
<1>3. CASE Approvals
  BY <1>1, <1>3, HostsStep DEF DesktopInv, Approvals, InApprovals
<1>4. CASE Window
  <2>1. WindowNext /\ HostsInv /\ WindowInv /\ focus = "window"
    BY <1>4 DEF DesktopInv, Window, InWindow
  <2>2. HostsInv'
    BY <2>1, BrowserStep DEF BrowserNext
  <2> QED
    BY <2>1, <2>2, WindowStep DEF DesktopInv, HostsInv
<1> QED
  BY <1>2, <1>3, <1>4 DEF DesktopNext

\* What the window promises holds where its tabs and sessions move together.
THEOREM WindowIsInOrder == DesktopSpec => []WindowKept
<1>1. DesktopInit => DesktopInv
  BY HostsInitInv, WindowInitInv DEF DesktopInit, DesktopInv
<1>2. DesktopInv => WindowKept
  BY WindowIsKept DEF DesktopInv, WindowKept
<1> QED
  BY <1>1, <1>2, DesktopStep, PTL DEF DesktopSpec
-----------------------------------------------------------------------------
(* The threat feed.  ClearedStaysCleared does not hold of a clear that     *)
(* meets a refresh or the start of the process; it holds of any other.     *)

\* No list is on its way: none is loaded at start, fetched or due to be.
NoListComing ==
  \A j \in Tasks : pc[j] \notin {"load", "apply_cached", "queue", "fetch", "body", "apply"}

\* The user empties the setting only when no list is on its way.
ClearsApart == \A j \in UiTasks : ClearFeed(j) => NoListComing

Clearing == \E j \in UiTasks : pc[j] \in {"clear_queue", "clear_delete"}

\* A clear keeps the gate from the list it drops to the file it deletes.
ClearInv ==
  /\ pc \in [Tasks -> {"idle", "load", "apply_cached", "queue", "fetch", "body", "apply",
                       "delay", "clear_queue", "clear_delete"}]
  /\ \A j \in Tasks : pc[j] \in InGate => gate = j
  /\ pc[Background] \notin {"clear_queue", "clear_delete"}
  /\ \A j \in UiTasks : pc[j] = "clear_delete" => managed = Nothing
  /\ cleared => feed_url = NoFeed /\ managed = Nothing
  /\ cleared \/ Clearing => pc[Background] \notin {"load", "apply_cached"}
  /\ feed_url = NoFeed /\ (cleared \/ Clearing) => NoListComing

LEMMA ClearInit == Init => ClearInv
BY ThreatFeedAssumption DEF Init, ClearInv, FreshPc, Tasks, Clearing, InGate

LEMMA BackgroundStep ==
  ASSUME ClearInv, LoadCached \/ ApplyCached \/ PeriodicRefresh
  PROVE  ClearInv'
<1> USE ThreatFeedAssumption DEF ClearInv, LoadCached, ApplyCached, PeriodicRefresh, Goto, Tasks, InGate
<1>1. Background \in Tasks /\ Background \notin UiTasks
  OBVIOUS
<1>2. Clearing' = Clearing
  BY <1>1 DEF Clearing
<1>3. ~(feed_url = NoFeed /\ (cleared \/ Clearing)) /\ ~cleared
  BY <1>1 DEF NoListComing
<1>4. pc[Background] = "apply_cached" => \A j \in UiTasks : pc[j] # "clear_delete"
  BY DEF Clearing
<1> QED
  BY <1>1, <1>2, <1>3, <1>4

LEMMA RefreshStep ==
  ASSUME ClearInv, NEW j \in Tasks,
         \/ EnterGate(j) \/ HeadersRead(j)
         \/ FetchAndStore(j) \/ FetchFails(j) \/ ApplyFetched(j)
  PROVE  ClearInv'
<1> USE ThreatFeedAssumption
        DEF ClearInv, EnterGate, HeadersRead, FetchAndStore, FetchFails, ApplyFetched, EndRefresh,
            Goto, Tasks, InGate
<1>1. pc[j] \in {"queue", "fetch", "body", "apply"} /\ UNCHANGED <<feed_url, cleared>>
  OBVIOUS
<1>2. Clearing' = Clearing
  BY <1>1 DEF Clearing
<1>3. ~(feed_url = NoFeed /\ (cleared \/ Clearing)) /\ ~cleared
  BY <1>1 DEF NoListComing
<1>4. pc[j] = "apply" => \A k \in UiTasks : pc[k] # "clear_delete"
  OBVIOUS
<1>5. pc'[j] \in {"fetch", "body", "apply", "delay", "idle"} /\ \A k \in Tasks \ {j} : pc'[k] = pc[k]
  OBVIOUS
<1>6. \A k \in Tasks : pc'[k] \in InGate => gate' = k
  BY <1>1, <1>5
<1> QED
  BY <1>1, <1>2, <1>3, <1>4, <1>5, <1>6

LEMMA SettingsStep ==
  ASSUME ClearInv, ClearsApart, NEW j \in UiTasks,
         ClearFeed(j) \/ \E u \in Feeds : SaveFeed(j, u)
  PROVE  ClearInv'
<1> USE ThreatFeedAssumption DEF ClearInv, Goto, Tasks, InGate, Save
<1>1. j \in Tasks /\ j # Background
  OBVIOUS
<1>2. CASE ClearFeed(j)
  <2>1. NoListComing /\ NoListComing'
    BY <1>1, <1>2 DEF ClearsApart, NoListComing, ClearFeed
  <2> QED
    BY <1>1, <1>2, <2>1 DEF ClearFeed, NoListComing
<1>3. ASSUME NEW u \in Feeds, SaveFeed(j, u) PROVE ClearInv'
  <2>1. feed_url' # NoFeed /\ ~cleared' /\ pc[j] = "idle"
    BY <1>3 DEF SaveFeed
  <2>2. Clearing' => Clearing
    BY <1>1, <1>3 DEF Clearing, SaveFeed
  <2> QED
    BY <1>1, <1>3, <2>1, <2>2 DEF SaveFeed
<1> QED
  BY <1>2, <1>3

LEMMA ClearStep ==
  ASSUME ClearInv, NEW j \in Tasks, ClearList(j) \/ DeleteCache(j)
  PROVE  ClearInv'
<1> USE ThreatFeedAssumption DEF ClearInv, ClearList, DeleteCache, Goto, Tasks, InGate
<1>1. j \in UiTasks /\ j # Background /\ Clearing
  BY DEF Clearing
<1>2. NoListComing => NoListComing'
  BY <1>1 DEF NoListComing
<1>3. managed' = managed \/ managed' = Nothing
  OBVIOUS
<1>4. cleared' => feed_url' = NoFeed /\ managed' = Nothing
  BY <1>1
<1> QED
  BY <1>1, <1>2, <1>3, <1>4

LEMMA FeedStep == ClearInv /\ [Next /\ ClearsApart]_vars => ClearInv'
<1> SUFFICES ASSUME ClearInv, [Next /\ ClearsApart]_vars PROVE ClearInv'
  OBVIOUS
<1>1. CASE Restart
  BY <1>1, ThreatFeedAssumption DEF Restart, ClearInv, FreshPc, Tasks, Clearing, InGate
<1>2. CASE UNCHANGED vars
  BY <1>2 DEF vars, ClearInv, Clearing, NoListComing
<1> QED
  BY <1>1, <1>2, BackgroundStep, RefreshStep, SettingsStep, ClearStep DEF Next, Work, AwaitBody

\* What the comment on ClearAndDisableAsync says (ThreatFeedCoordinator.cs:180-184)
\* holds of a setting emptied while no list is on its way: the cleared list does
\* not come back before a feed is set again, or the process starts again.
THEOREM ClearedListsStayAway == Spec /\ [][ClearsApart]_vars => []ClearedStaysCleared
<1>1. ClearInv /\ [Next]_vars /\ [ClearsApart]_vars => ClearInv'
  BY FeedStep
<1>2. ClearInv => ClearedStaysCleared
  BY DEF ClearInv, ClearedStaysCleared
<1> QED
  BY <1>1, <1>2, ClearInit, PTL DEF Spec
=============================================================================
