# Aegis Dual Platform: verification

TLA+ models of the parts of Aegis that decide whether a navigation, or an action
of an agent, may happen, of the two desktop shells around them, and of the tools
that release the product. TLC checks them on small instances; TLAPS proves the
safety of most of it for every value of the constants: of the navigation authority,
of the agents', the Windows and the Android broker, of the publication of denylists,
of the approvals and tabs of both desktop shells, of the agent action contract, of
updates, bookmarks, configuration and new windows.
`PROJECT.json` lists components, runs, mutants, hazards, findings and theorems, and
maps every definition to the source lines it models.

Paths are relative to the repository root; `W/` is
`windows/src/Aegis.Windows.App/`, `K/` is
`android/broker/src/main/kotlin/com/aegis/broker/`, `R/` is
`core/rust-policy-core/src/`, `L/` is `legacy/windows-pywebview/`.

1. [The system](#1-the-system)
2. [Modules](#2-modules)
3. [Runs](#3-runs)
4. [Proofs](#4-proofs)
5. [What the models found](#5-what-the-models-found)
6. [What is not modelled](#6-what-is-not-modelled)
7. [What could follow](#7-what-could-follow)

## 1. The system

Every navigation of the browser is adjudicated by a broker: a *host broker* (C#
on Windows, Kotlin on Android) that keeps the sessions of its tabs, over one
*policy core* in Rust that issues and redeems authorizations. An authorization is
one-shot, bound to a session, a document generation and a target, and expires.
Agents have a broker of their own, in Python. When something cannot be decided it
is denied.

### Inventory

| Component | State | Operations | Talks to |
|---|---|---|---|
| Session pool and replay ledger, `R/broker.rs` `ContextBroker` | sessions (tab, generation, created_at, ttl), consumed nonces | create/renew, evict, destroy, advance generation, validate, consume | called by FfiBroker under one mutex |
| Navigation authority, `R/ffi/broker.rs` `FfiBroker` | issued ledger, pending-approval ledger, the two above, the denylist: **four mutexes, never two at once** | evaluate, approve, reject, consume, create/destroy session, advance generation | called by host threads, in any number |
| Core denylist, `R/ffi/broker/denylist.rs` | active list, staging list of an open batch session | apply in four modes, judge a host | read by evaluate and consume |
| Native bridge, `W/Broker/NativePolicyCoreBridge*.cs` | leases, disposed flag | native calls under a lease, batch protocol, dispose | the C ABI of the core |
| Bridge hub, `W/Broker/NativePolicyCoreBridgeHub.cs` | the shared bridge, its reference count | acquire, release | windows; asks for a push when it made a bridge |
| Publication, `W/Broker/SharedBlockedHosts.cs`, `CoreDenylistPublisher.cs` | the managed list, `_latest`, `PushGate` | publish, push | feed coordinator, hub, bridge |
| Threat feed, `W/Core/Security/ThreatFeedCoordinator.cs`, `ThreatFeed.cs` | setting, cache file, `_refreshGate` | start, periodic refresh, refresh now, clear | publication; settings window; the network |
| Agent broker, `agent/broker.py` | replay cache, generation, budgets and tab per session, kill switch | evaluate, revoke, advance generation | agent frontends, any thread |
| Host brokers, `W/Broker/BrowserPolicyBroker.cs`, `K/AndroidBroker.kt` | host sessions, host nonce ledger | register, renew, update generation, destroy, adjudicate, consume | WebView hosts above, core below |
| Kill switch, `W/Broker/KillSwitch.cs` | engaged flag, reactions | engage, register | host broker, windows |
| WebView host and approval panel, `W/WebView/HostWebView.cs`, `W/Chrome/ApprovalPanelController.cs` | request pending, approval to resume, the one visible panel | navigation events, Allow, Deny, dispose | host broker; all on the user interface's thread |
| Tabs and session saving, `W/Core/Tabs`, `W/Chrome` | tab list, one runtime per awake tab, debounce timer, `tabs.db` | open, close, pin, move, switch, sleep, wake, save, restore | WebView hosts begin and end with runtimes |
| Python binding, `core/rust-policy-core/bindings/aegis_policy_core.py` | handles, RustBuffers | every call: check, clone, lower, call, lift; destruction | the core's C ABI |
| Action contract, `agent/action_contract.py` | schema and catalog files | load, judge the fields of an action | agent broker |
| Update verification and release chain, `release/`, `scripts/dedup_release_assets.py`, release workflows | artifacts, checksums, manifests, the client's last version | build, sum, merge, rename, publish, verify | between jobs: files only |
| Contracts, generators and gates, `contracts/codegen`, `scripts` | schemas, vectors, generated files, mirrors, version numbers, review package | generate, sync, verify, build, edits by hand | the working tree |
| pywebview shell, `L/` (a predecessor kept for reference) | tab list and session, navigation queue, native layer, visit log, bookmarks, configuration, threat list | bridge methods, agent tools, events, watchdog | threads of one process; SQLite and files |
| Pre-layers, `R/broker/pre_layers.rs`, `policy.rs`, `capability.rs` | rules, capabilities | veto before the session check | inert as shipped |
| Android application, origin parsing, unwired core modules, injected scripts | none that a decision depends on | | |

### What is hard, and what must hold

* **FfiBroker.** A call is a sequence of short lock sections with other calls in
  between; the ledgers are bounded; sessions come back under the same id and
  generation. An authorization must be granted at most once, only after the
  user's approval when its target is high-risk, never after a rejection or after
  a revocation that returned; ledgers keep their bounds and making room must not
  cost a live authorization or session.
* **Denylist and publication.** A list of megabytes crosses a 64 KiB interface in
  batches while decisions go on; batches are refused, cores of three generations
  are installed, bridges come and go, publishers race. Decisions use whole lists
  only; a push that reports success is in force; every core gets the latest list;
  no push hangs.
* **Threat feed.** A background task, tasks of the settings window and process
  ends; the gate orders refreshes, but feeds are resolved before it and the cache
  is applied without it. A configured feed gets and stays in force, a cleared one
  stays cleared, clears end, as far as the servers asked let them: the body of an
  answer is read without a timeout, by a task that holds the gate.
* **Agent broker.** Checks without the lock, the decision with it, a bounded
  replay cache. One-shot within the window, exact budgets, one tab per session,
  no new grants after revocation.
* **Host brokers and switch.** Two sessions per tab, one in the host, one in the
  core, changed in several lock sections; session ids come back; two replay
  ledgers, one that evicts; an emergency stop that races pages being wired. Nonces
  stay one-shot and both ends agree again; once engaged, everything is stopped.
* **WebView host.** The page navigates while the user is asked, tabs share one
  panel, approvals expire. The user decides on what is displayed and nothing else.
* **Tabs.** WebViews report ready when their tab may be gone, asleep or restored
  under the same id; saves are delayed and may fail. No session without its page,
  no page without its session, no saved tab forgotten.
* **Shell.** One tab list changed under a lock, checked before it and saved and
  loaded after it; operations given up that land later; rows counted and inserted
  in two transactions; files written in place. What is shown and saved settles on
  the tab list; losses take the overlaps that are known.
* **Release, gates, binding, contract.** Accidents between two steps, tools stopped
  half-way, arguments that fail half-lowered, damaged files: a job that compares
  what it got lets nothing else pass, a job that sums it anew publishes just that,
  tools write what their gates ask for, memory balances, and what does not conform
  is denied.

## 2. Modules

| Module | Models | Role |
|---|---|---|
| `NavigationAuthority` | what the core promises | abstract specification |
| `ContextBroker` | `R/broker.rs` | operations, each one lock section of `inner` |
| `FfiBroker` | `R/ffi/broker.rs` | EXTENDS ContextBroker: threads, sections, ledgers; properties |
| `FfiBrokerInv` | | the inductive invariant |
| `FfiBrokerProofs` | | theorems |
| `HostDenylist` | `R/ffi/broker/denylist.rs` | the modes of `apply`, and what older cores do |
| `DenylistPush` | publication, bridge, hub | EXTENDS HostDenylist: the whole path of a list |
| `ThreatFeed` | feed coordinator | detailed specification with fairness |
| `AgentBroker` | `agent/broker.py` | detailed specification |
| `ActionContract` | `agent/action_contract.py`, the checks of one action | the verdict on every field |
| `AndroidBroker` | `K/AndroidBroker.kt`, `K/NonceLedger.kt` | EXTENDS ContextBroker: the host's side before the core |
| `KillSwitch` | `W/Broker/KillSwitch.cs` | flag, reactions, snapshot |
| `WindowsBroker` | `W/Broker/BrowserPolicyBroker.cs` | EXTENDS ContextBroker and KillSwitch |
| `HostNavigation` | `W/WebView/HostWebView.cs`, approval panel | navigations, requests, approvals of the tabs |
| `WindowTabs` | `W/Core/Tabs`, `W/Chrome` | EXTENDS HostNavigation: whose hosts begin and end with runtimes |
| `UniffiBinding` | the generated Python binding | ownership of handles and buffers |
| `UpdateVerifier` | `release/update_verifier.py` and its tool | what a client accepts |
| `ReleaseChain` | `release/`, renaming, workflows | jobs, accidents between them, gates |
| `RepositoryGates` | `contracts/codegen`, version and vector gates | tools, edits, gates over one tree |
| `ReviewPackage` | `scripts/build_review_package.py` | package and its check |
| `NavQueue` | `L/app/nav_queue.py`, the watchdog | queue, workers given up, restart |
| `SessionStore` | `L/app/session_store.py` | the three steps of a save |
| `Lists` | | what tab lists and ledgers do to a sequence: `Only`, `Moved` |
| `TabShell` | `L/app/tab_ops.py`, bridge, `mcp.py` | EXTENDS NavQueue, SessionStore: the tabs |
| `NativeLayer` | `L/main_webview.py`, `native_*.py` | ready event, set-up, channel, new windows |
| `HistoryStore`, `BookmarkStore`, `ShellFiles` | `L/app` stores, configuration, threat list | one table or file each |
| `*Proofs` | | theorems: `ListProofs` about `Lists`, the others about what their first lines extend |
| `MC*` | | values for TLC; `MCDesktop`, `MCParts`, `MCAgentBroker` and `MCWindowsPolicy` also put parts side by side, one per behaviour |

Definitions whose comment begins with "Mistake:" are not part of any
specification: they are plausible bugs, and substituting one for the definition
after it must break the property `PROJECT.json` pairs it with.

### FfiBroker

`pc[t]` names the lock section thread `t` enters next, `held[t]` the nonce it
works on, `purging[t]` the session it revokes. One action per section:

| Code | Actions |
|---|---|
| `evaluate_navigation` | `EvaluateNavigation` (denylist, nonce, action) - `EvaluateValidate` (`inner`) - `EvaluateIssue` or `RegisterPendingApproval` |
| `approve_navigation_confirmation` | `ApproveNavigation` (take out, compare) - `ApproveValidate` - `ApproveIssue` |
| `reject_navigation_confirmation` | `RejectNavigation` |
| `consume_navigation` | `ConsumeNavigation` (denylist, binding) - `ConsumeLookup` - `ConsumeValidate` (burns the nonce) - `ConsumeRecord` |
| `create_session` | `FfiCreateSession` |
| `destroy_session` | `FfiDestroySession` - `PurgeIssued` - `PurgePending` |
| `advance_document_generation` | `FfiAdvanceDocumentGeneration` - `PurgeIssued` - `PurgePending` |
| `update_host_denylist` | `UpdateHostDenylist` |
| clocks | `ClockTick` |

`request_navigation_confirmation` forwards to evaluate. Abstractions: the action
built for a nonce never changes, so `action[n]` is kept once and each ledger keeps
only where `n` stands; a target is a host (scope, method and path are bound and
compared together with it); one clock stands for `Instant` and UNIX seconds.
Calls that a first check refuses without touching state are not steps. `granted`,
`approved`, `rejected`, `victims`, `revoked` and `lifetimes` are history: what was
answered, and what a revocation that returned promised.

`ImplementsAuthority` maps the ledgers and the calls in flight to the life cycle
none - awaiting - issued - consumed / void of `NavigationAuthority`.

### DenylistPush

A list is the sequence of its batches. `Publish` and `Announce` are the two
stores of a publication, `EnterPushGate` to `Commit` one push under `PushGate`,
`TakeLease`/`Finish` the lease, `CreateBridge`, `ShareBridge`, `ReleaseBridge`,
`DisposeBridge` the hub. `core_kind` is the generation of the installed core: one
that echoes `mode` (staging), one that echoes only `clear`, one that echoes
neither. The core may refuse any batch.

### ThreatFeed

A list is named by the feed it came from. Each task has a `pc`; "fetch", "body",
"apply" and "clear_delete" hold `_refreshGate`. "fetch" ends within the client's
timeout, which covers an answer up to its headers (`HeadersRead`, or a failure);
"body" may last (`AwaitBody`). Only `feed_url` and `cache` survive
`Restart`. How a list is applied is what `DenylistPush` models.

### AgentBroker

Each read without the lock is a step: `CheckGeneration`, `CheckTab`,
`CheckRevoked`, `CheckBudget`; `Commit` is the section of `_state_lock`. The checks
that look at the action alone select `Actions`. `advance_generation` is
`AdvanceRead` and `AdvanceStore`. `log` is history.

### Host brokers

`AndroidBroker` has one action per section of `authorizationLock` and one per core
call made outside it: `RegisterSession` - `RegisterCore` - `Register`,
`RenewSession` - `RenewCore` - `Renew`, `UpdateDocumentGeneration` - `UpdateCore` -
`CommitGeneration`, `ConsumeCore` - `ConsumeHost`; `DestroySession` keeps the lock
over its core call. `WindowsBroker` keeps `_sessionLock` over core calls, so
`RegisterSession`, `UpdateDocumentGeneration` and `ConsumeSection` are single
actions, and only `DestroySession` falls apart: `EndInCore` - `EndInHost` -
`ForgetNonces`. Its look at the switch precedes them. Both run over the operations
of `ContextBroker`, or without a core. `KillSwitch` splits `Engage` into
`RaiseFlag`, `Snapshot` and the reactions one by one, and `RegisterProcessReaction`
into the insertion and `LookAtFlag`.

### HostNavigation and WindowTabs

All handlers of a window run on its user-interface thread; an action is a handler
with every event it raises. `TopNavigation` is `TryAuthorizeNavigation` for a main
frame: `Resume`, or without the confirmation gate `LetThrough` or
`LeaveUnconfirmed`, or with it `Reject`, `LetThrough`, `Ask` or `Refuse`. `Allow`
and `Deny` are the panel's buttons. `WindowTabs` writes an operation of
`TabManager` and its handlers as a function from a window to a window, and `Show`
adds what follows from the new window: runtimes that are gone end their hosts
(`EndHosts`), closed tabs mark the session, the last tab closes the window.
`CoreReady` wires a WebView (`BeginHost`) or closes the tab.

### TabShell and its parts

`todo[c]` holds what a bridge thread has still to do after the section of the lock:
`persist` becomes the three steps of `SessionStore`, `load` and `eval` become posts
to `NavQueue`. `Method` lists the bridge methods, `HandleRequest` an agent's tool.
`NavQueue` gives a worker up after its time and lets it land later (`LateDone`).
`Settled` is a state in which nothing runs, waits or is about to happen; `calm`
remembers whether calls overlapped since the start.

### Release, gates, binding, contract

In `NativeLayer` a request has a host or none, whatever document sends it (`data:`
and `blob:` addresses have none), and the request policy, acting on it, sets the
message channel's switch, closes it or keeps it (`Outcomes`).

A checksum in `ReleaseChain` is the content it is of. Jobs get files from other jobs:
the SBOM's job the build (`received`), the gate the upload of that job, the publishing
job the same once more (`Fetch`, `delivered`), a deployment the release; on each of
these ways accidents lose, damage, mix up or add files. In `RepositoryGates` and
`ReviewPackage` the text of a file is a revision, tools write one file per step and can
stop between two. Of what the version gate compares, `declared` is what `sync_versions`
writes, `written` what only hands write: the two places of the application id, which
`VERSION` need not have (`Optional`).
`UniffiBinding` counts live buffers and strong references and follows each call
through `Begin`, `CloneHandle`, `Alloc`, `Finalize`/`Discard`, `EnterRust`,
`LeaveRust`, `Lift`. `UpdateVerifier` compares versions by SemVer precedence.
`ActionContract` abstracts each field's value to how it fares with the rules.

## 3. Runs

| Run | Bounds | Shows |
|---|---|---|
| `ffi_broker` | 2 threads, 2 nonces, 1 session, an ordinary and a high-risk host, every ledger of capacity 1, generations 0..1, 2 lifetimes, time 0..1, TTL and expiry 1 | one-shot, confirmation, one place at a time, bounds, final revocation, refinement, the inductive invariant |
| `ffi_broker_pool` | 1 thread, 2 nonces, 2 sessions, 2 tabs, pool of 1, ledgers of 1 (replay 2), denylists changing, time 0..2, TTL 1..2 | room is made at the cost of expired sessions and authorizations only |
| `ffi_broker_lifetime` | as `ffi_broker`, time stands still | finding 1 |
| `windows_policy` | publication: 2 threads, an empty list and lists of 1 and 2 batches, 3 publications, 2 bridges, 2 windows, 3 generations of cores; broker: 2 threads, 1 session id registered twice, 2 nonces, a host ledger of 2, TTL 1, time 0..1, with and without a core; switch: 2 threads, 2 reactions | whole lists, truthful reports, no stale or missing list, no hang; one truth in host and core, one-shot nonces, an emergency stop that stops |
| `denylist_drift` | 2 publications, 1 bridge, 1 window | finding 2 |
| `windows_desktop` | feed: 2 feeds, 2 settings tasks, 3 saves, 1 restart; approvals: 2 tabs, 2 high-risk and 1 ordinary address, 2 requests, 2 documents; tabs: 3 ids, one of them pinned at times, any number of saves, restores and crashes | where no server stalls in a body, a feed set at start is followed and clears end; only what was displayed and allowed is let through, once; sessions follow tabs, saved tabs are not forgotten |
| `threat_feed_follow` | 1 settings task, 1 save | finding 3 |
| `threat_feed_clear` | 2 settings tasks, 2 saves | finding 4 |
| `agent_broker` | agents: 2 threads, 2 nonces, 2 sessions, 2 tabs, sizes 1..3, cache of 1, budgets of 2, generations 0..1; Android: 2 threads, 1 session id registered twice, a host ledger of 1, TTL 1, time 0..1, with and without a core | one-shot in the window, budgets, tab binding, revocation; on Android one truth in host and core, one-shot nonces |
| `shell_tabs` | 2 bridge threads, 1 loader, 2 calls, 1 restart, 2 tabs, 3 pages, one of them neither saved in a session nor open to agents, an agent with 2 tools | the tab list keeps its order and bound, what is shown and saved settles on it, an agent stays on its list |
| `session_garbled` | as above, 1 call, no restart | finding 5 |
| `parts` | one part per behaviour; 2 or 3 threads, items or accidents each (see `MCParts.cfg`) | twelve properties, listed below |

**Why the bounds suffice.** The races of FfiBroker are between two calls on one
nonce, one session or the last place in a ledger; capacity 1 with two nonces puts
every store at its limit, two lifetimes let a destroyed session come back, one
tick reaches both expiry boundaries. Capacity and pool effects need no second
thread (each is inside one lock section), so `ffi_broker_pool` trades the thread
for a second session, a second tab and a longer clock. In `windows_policy` lists
are disjoint, so any mixture of two lists, or part of one, is no list; three
publications let two queue behind one; two bridges let a push meet a disposed one.
`threat_feed` has more tasks than the gate admits and a restart at every point.
The cache of one nonce in `agent_broker` makes eviction happen on the second
grant. One session id registered twice in the host brokers is what makes calls of an old
lifetime meet a new one; a ledger of one nonce evicts, one of two fills. Two tabs
and two requests let the panel be taken from a tab that waits; three tab ids let a
window close, wake and restore tabs around a middle one. In `parts` every part has
two or three of what can meet, and accidents in pairs, so that one can hide another.
Three queue threads follow two give-ups. Constants named `Max...` in the modules
that are not the code's limits are commented "bound".

**What else bounds the models.** Core calls of the host brokers are atomic and find
room in the pool (FfiBroker and `ffi_broker_pool` are about what happens inside);
consumptions accepted by a host are bounded (`MaxAccepted`, `CoreNonces`); a tab
calls `DestroySession` once for what it registered; confirmation is folded into the
evaluation. One UniFFI broker object lives at a time; no exported function returns a
Result, so the error branch of a call is unreachable and left out; a library beside
the binding lacks at most one function and differs in at most one type, and takes the
parameters the binding declares, since nothing compares them. In `ReleaseChain`
damage is accidental; attestation, and what the transport of artifacts compares by
itself, are outside the model, so an accident may happen on every way. One tool at a
time runs over the tree, and the check of the review package is one step. A disposed
WebView reports no success; which saved tab was the current one is left out: any may be.

**Deadlock.** Checked in the FfiBroker runs and the TabShell runs: there time,
sessions, calls or threads can always go on. Not checked in the others:
publications, saves, calls, edits and downloads are bounded there, and with nothing
left to start a system rests.

**Symmetry.** Threads and nonces in the FfiBroker runs, threads, nonces, sessions and
tabs in `agent_broker`, bridge threads in `shell_tabs` are interchangeable: no
definition names a member. Those runs check no liveness property.

**Fairness.** The safety properties assume none. `DenylistPush`: weak fairness of
`Step(t)`, the steps a thread takes by itself once started - the operating system
schedules it; `PolicyFairness` states it for the behaviours of `windows_policy` that
publish. Weak fairness is enough at `PushGate` because finitely many pushes
are explored; a `lock` that other publishers took over and over is outside the
run. New publications and windows are not assumed. `ThreatFeed`: weak fairness of
`Work(j)`, what a task in the gate does within bounded time (a request is answered or
times out before its headers, a list is applied or a file deleted), and strong fairness of
entering the gate, because `SemaphoreSlim` queues its asynchronous waiters and serves
them in turn. There is none of `AwaitBody`: `HttpFetchGuard` reads a body without a
timeout, so nothing in the code ends it. `FollowedOnceStarted`, `FeedIsFollowed` and
`ClearsEnd` have what they need of the servers as hypotheses instead: `BodiesEnd`, no task
waits in a body for ever, and for the first two `FeedServed`, a feed that is asked for
again and again is served at some time. Nothing is assumed of the user or of restarts.
`NavQueue`: weak fairness of a queue thread's `GetTimeout`, `Take` and `GiveUp` (a wait
with a timeout ends) and of the watchdog's `Recover`; a worker that hangs is never
assumed to come back.
`NativeLayer`: weak fairness of `InstallWatchdog`, `OnCoreReady` and `SetupStep`; the
window itself may never come up.

**Properties by run.** Each is stated in words above its definition.

| Run | Properties |
|---|---|
| `ffi_broker` | `OneShot`, `ConfirmationIsBinding`, `OnePlaceAtATime`, `LedgersAreBounded`, `IInv`, `RevocationIsFinal`, `ImplementsAuthority` |
| `ffi_broker_pool` | `LiveSessionsSurvive`, `NoSilentWithdrawal` |
| `windows_policy` | `NeverPartial`, `PublishedMeansServed`, `CoreWasOfferedLatest`, `PushesEnd` (publication), `WindowsKept` (broker and switch) |
| `windows_desktop` | `FollowedOnceStarted`, `ClearsEnd`, `WhatIsShownIsApproved`, `WindowKept` |
| `agent_broker` | `OneShotInWindow`, `BudgetIsKept`, `OnlyAllowedActionsBind`, `RevokedDenies`, `AndroidKept` |
| `shell_tabs` | `TabsInOrder`, `ShownIsCurrent`, `SavedIsCurrent`, `GarbledNeedsOverlap`, `AgentConfined` |
| `parts` | `BacklogDrains` (queue), `LayerAttached`, `PagesConfined` (native layer), `PagesCoverOnce` (visit log), `DuplicatesBounded` (bookmarks), `FilesKept` (configuration, threat list), `UpdatesAreTrusted`, `BundleHandedOn` (release), `GatesAgree`, `PackageKept` (gates), `MemoryBalances` (binding), `DefectsAreDenied` (contract) |

`RevocationIsFinal` is as strong as the code: a revocation answers for the
authorizations no other call was working on while it ran. What it cannot promise
for calls in flight is finding 1. In the same way `ShownIsCurrent` and
`SavedIsCurrent` hold for calls that wait for what earlier ones started, and
`NothingForgotten` (a part of `WindowKept`) as long as `tabs.db` can be read when a
process starts. What `SavedIsCurrent` expects in the file are the tabs less those a
session does not keep; with none to keep the file stays as it was.

## 4. Proofs

| Module | Theorem | Property | Argument |
|---|---|---|---|
| `FfiBrokerProofs` | `TypeCorrect` | `TypeOK`, the first conjunct of `IInv` | `IInv` |
| | `IInvHolds` | `IInv` | inductive as it stands |
| | `OneShotAuthorization` | `OneShot` | `IInv` |
| | `ConfirmationBinds` | `ConfirmationIsBinding` | `IInv` |
| | `OnePlace` | `OnePlaceAtATime` | `IInv` |
| | `LedgersStayBounded` | `LedgersAreBounded` | `LedgersFit`: room is tested and taken in one section |
| | `AuthorityImplemented` | `ImplementsAuthority` | refinement, one lemma per section |
| | `RevokedIsGone` | `RevocationIsFinal` | `RInv` |
| | `LiveSessionsStay` | `LiveSessionsSurvive` | step by step |
| | `NothingIsLost` | `NoSilentWithdrawal` | step by step |
| | `AuthorizationsEndWithSession` | `ConsumedWithinLifetime`, of calls in turn | `LifeInv` |
| `AgentBrokerProofs` | `AgentTypeCorrect` | types, capacity and distinct nonces of the cache | `AgentInv` |
| | `NoncesAreOneShot` | `OneShotInWindow` | `AgentInv` |
| | `BudgetsAreKept` | `BudgetIsKept` | `AgentInv` |
| | `DenialsBindNoTab` | `OnlyAllowedActionsBind` | `AgentInv` |
| | `RevokeDenies` | `RevokedDenies` | `AgentInv` |
| `WindowsPolicyProofs` | `PushTypeCorrect` | types; a batch sent is one of its list's | `PushInv` |
| | `WholeListsOnly` | `NeverPartial` | `PushInv` |
| | `PublishedIsServed` | `PublishedMeansServed` | `PushInv` |
| | `LatestIsOffered` | `CoreWasOfferedLatest` | `PushInv` |
| | `ListsDriftByOverlap` | `OneListEverywhere`, of publications in turn | `DriftInv` |
| | `WindowsBrokerKept` | `WindowsKept` | `WindowsInv` |
| `AndroidBrokerProofs` | `AcceptedOnce` | `OnceWhileRemembered`, a part of `AndroidKept` | `ReplayInv` |
| | `AgreesWithRoom`, `AndroidBrokerKept` | `AndroidKept` | `ReplayInv`, `AgreeInv` |
| `DesktopProofs` | `UserDecides`, `UserDecidesInWindow` | `WhatIsShownIsApproved`, for the hosts alone and in the window | `HostsInv` |
| | `TabsAndSessionsAgree`, `WindowIsInOrder` | `WindowKept` | `WindowInv`, `HostsInv` |
| | `ClearedListsStayAway` | `ClearedStaysCleared`, of clears apart from refreshes | `ClearInv` |
| `TabShellProofs` | `ShellIsTyped` | `TypeOK` | `IInv` |
| | `TabsStayInOrder` | `TabsInOrder` | `IInv` |
| | `AgentStaysConfined` | `AgentConfined` | `IInv` |
| | `OneSaveIsAtomic` | `GarbledNeedsOverlap` | `IInv` |
| | `SettledPageIsCurrent` | `ShownIsCurrent` | `CalmInv` |
| | `SettledTabsAreSaved` | `SavedIsCurrent` | `CalmInv` |
| `PartsProofs` | `BookmarksBounded` | `DuplicatesBounded` | insertions decided on count as rows |
| | `UpdatesAreSafe` | `UpdatesAreTrusted` | ascending ladder of accepted manifests |
| | `AllowedIsSound` | `DefectsAreDenied` | `ContractInv` |
| | `ShellFilesKept` | `FilesKept` | `FeedInv`, `ConfigInv` |
| | `PagesAreConfined` | `PagesConfined` | `GateInv`, `ChannelInv` |
| | `ReviewPackageKept` | `PackageKept` | `PackageInv` |
| | `WritersAndReadersAgree` | `GatesAgree` | `GatesInv` |
| | `BindingBalances` | `MemoryBalances` | `BindingInv` |
| | `HistoryIsCoveredOnce` | `PagesCoverOnce` | `HistoryInv` |
| | `ReleaseIsHandedOn` | `BundleHandedOn` | `ReleaseInv` |

They hold for any sets of threads, sessions, tabs, nonces, hosts, lists, contracts
and keys and any capacities that satisfy the named assumption of the module they are
about (`ContextBrokerAssumption`, `FfiBrokerAssumption` and so on: bounds are natural
numbers, the smallest TTL is not above the largest, high-risk hosts are hosts, "no
..." values lie outside the sets they complete). TLC evaluates each on a passing run.
Where threads or tabs are counted (`RevokeDenies`, `BookmarksBounded`,
`WindowsBrokerKept`, `TabsStayInOrder`, `BindingBalances`) they are finitely many.
`ReleaseIsHandedOn` is about any list of distinct platform directories and any bound on
the accidents.
`UpdatesAreSafe` needs a threshold above the number of lost keys, which is what a
threshold is for.

Four theorems have a hypothesis about the behaviour. `AgreesWithRoom` proves
`AndroidKept` of behaviours in which the core's pool has a free place whenever a
session is missing from it (`RoomInCore`): a full pool refuses, or makes room at the
cost of an expired session, which the host does not hear of. `AndroidBrokerKept`
discharges it for a host with at most as many session ids as the core has places
(`MAX_SESSIONS`, 1024 in `R/broker.rs`); `AcceptedOnce` needs neither. The other three
say of a promise that section 5 shows broken what it takes to keep it:

* `AuthorizationsEndWithSession`: no other call is about a session while one revokes
  its authorizations (`RevokedAlone`), and an id comes into the core's pool when no call
  is about it, and out of it only by `destroy_session` (`InTurn`: no eviction). Calls
  about different sessions, and calls other than revocations about one, may overlap.
* `ListsDriftByOverlap`: a list is published when the core was told of the one before
  (`PublishedInTurn`). Their pushes may still wait for each other, fail and be overtaken.
* `ClearedListsStayAway`: the setting is emptied when no list is loaded from the cache,
  fetched, or due to be (`ClearsApart`).

**The core's broker: `IInv`.** None of the properties is inductive. `OneShot` alone
does not know that the thread about to record a grant burned the nonce and is the
only one that did; `ConfirmationIsBinding` alone does not know that an issued
high-risk authorization was approved. `IInv` (in `FfiBrokerInv`, itself an invariant
of the run `ffi_broker`) says for each place an authorization can be in what has and
has not happened to it there:

* `EvaluationIsPrivate`: the nonce of an evaluation is held by nobody else and is
  in no ledger;
* `PendingIsUndecided`, `ApprovalIsExclusive`: a pending request, and the request
  one approval took out, is undecided and in no other place;
* `IssuedIsCleared`, `ConsumptionIsCleared`: beyond the pending ledger a high-risk
  authorization was approved, and nothing there was rejected;
* `RecorderIsUnique`, `ReplayLedgerIsCleared`: whoever is about to record a grant
  burned the nonce alone, and a grant implies a burned nonce;
* `HoldsNonce`, `Decided`: bookkeeping.

`TypePreserved` shows that every step keeps the types; one lemma per lock section
(`...Safe`) shows that it keeps the rest; `IInvPreserved` joins them, and
`IInvHolds` is the temporal step the theorems follow from. The other sections of the
module:

* *Ledgers.* `LedgersFit` has one conjunct per ledger (`IssuedFits`, `PendingFits`,
  `ConsumedFits`, `PoolFits`), each saying also that the ledger is finite: the sets
  of nonces and sessions need not be.
* *Revocation.* `RInv` adds that an authorization being revoked is in nobody's
  hands (`VictimsAreIdle`) and that a revoked one is in no ledger and no call
  (`RevokedAreGone`). The action properties follow step by step.
* *Lifetimes.* `LifeInv`: whatever can still be consumed is of its session's current
  lifetime, and a session out of the pool is still being purged; so nothing is left of
  it when the id comes back.
* *Refinement.* Each section is mapped to a step of the life cycle in
  `NavigationAuthority` or to a stutter, by a lemma of its own. It rests on `IInv`
  and on `LedgersFit`: a full ledger that makes no room has dropped nothing, because
  it was within its bound.

**The agents' broker: `AgentInv`.** `CacheIsLatest`: the replay cache is a suffix of
the log of what was allowed, so a nonce missing from it lies at least its length
back. `ChecksStillFit`: what passed the budget check outside the lock still fits
until its session is allowed something else, which the second check, under the
lock, then counts. `AllowanceCovers`: after a revocation each evaluation that had
passed the flag (`PastRevoked`) uses up one of what was promised.

**Publication: `PushInv`.** `OneAtTheGate`: one pusher holds `PushGate`.
`BridgesInOrder`: a bridge not disposed is the live one and the last created, and
whatever is shared or leased is live. `ListInHand`, `SentSoFar`: what is pushed is a
published list, and what the core holds is the part of it sent so far.
`ServedBetweenPushes`: between pushes, after one that succeeded, the core serves its
list. `OfferedOrPending`: a latest list that was not offered has a push that still
will. `DriftInv` is about the two places a list is stored in: the core's is the
windows' list, or that of the thread about to tell.

**The Windows broker and its switch: `WindowsInv`**, one invariant per promise of
`WindowsKept`. `SwitchInv`: while the flag is up, a reaction that has not run is on
the list of a thread that raised it, or such a thread has yet to take its snapshot.
`ReplayInv`: an accepted nonce is burned in the core, or stands in the host's ledger
as long as the lifetime of the session it was accepted in, unless that lifetime was
overtaken: a clean-up that meets a session belongs to an earlier lifetime
(`CleanUpIsLate`). `AgreeInv`: one call at a time ends a session (`OneEnds`), and
between its sections the session is gone from the core but not from the host
(`EndingInHost`). `LateInv`: after the stop each consumption that had passed the
flag (`PastSwitch`) uses up one of those that may still be late.

**The Android broker.** Its calls leave the lock for the core's answer, so its
promise is about calls of one session that kept out of each other's way. `AgreeInv`
therefore follows single calls: `AloneMeansAlone` and `UnmixedIsAlone` say what
"alone" means, `CallsKnow` that what a call found in its first section still holds
and what it made of the core's session is still there, `UnmixedAgrees` that only the
host's last section can be missing. `ReplayInv` has two halves. With a core, a nonce
on its way through the host is burned, was not accepted before and is in one call's
hands only (`BurntInCore`); without one, the host's ledger still has what lies less
than its size back (`LedgerRemembers`).

**Approvals and tabs of the Windows desktop.** `HostsInv`: the panel shows the one
request that is pending (`PanelShowsPending`), what may be resumed was allowed
(`RequestsAreKnown`), and what landed under an approval is over in the core
(`LandedIsOver`), so that it lands once (`ApprovedOnce`). `WindowInv`: the window and
what was saved of it are lists of distinct tabs with the pinned ones in front, the
tabs with a running session are those with a wired runtime (`SessionsMatch`), and
what is owed to the user is in the window and in `tabs.db`. `ClearInv`, for the threat
feed: a clear keeps the gate from the list it drops to the file it deletes, and while
no feed is set no list is on its way to the screen.

**The Python shell: `IInv` of `TabShellProofs`.** `TypeInv` says which steps a thread
can have to do (`TodoOK`), which is what makes the next one well defined: in
particular, what a load or a save carries. `AgentMarked`: an agent's tool that has
not been through its check runs in a marked session. `RoomLeft`: `new_tab` looks at
the number of tabs outside the lock, so the bound counts the threads that were told
there is room (`Opening`) as tabs. `SavesApart`: as long as saves did not overlap,
one thread saves at a time, and its temporary file is empty before it writes.

`CalmInv` is what `ShownIsCurrent` and `SavedIsCurrent` need besides. They speak of
states in which nothing is under way, so nothing in them is inductive. As long as calls
wait for what earlier ones started, the shell is in one of four phases of one chain: a
call works off what it has to do (`Acting`; `Form` lists what that can be), what it
posted is in the navigation queue (`Posted`), the page is loaded and its event pending
(`Raised`), or a loader thread has the event (`Handled`). Each phase says how far page,
current tab and saved file have come towards each other; `close_tab` is the odd one,
which posts a load and saves after it, so that the save may find the chain in any phase.
`SavesNow` says that a save that overlaps no other is of the tabs as they are. The
lemmas go through the queue, the loaders and the calls, one step of a call at a time.

**The parts.**

* *Contract.* `ContractInv`: a broker exists only of files that loaded, and a verdict
  is about the action and the schema that are still there. The lemmas before it go
  through the checks in their order: for each rule of a field, what the rules refuse
  is denied there or before.
* *Files.* `FeedInv`: a list changes only while no reader has it open. `ConfigInv`:
  unless writes overlapped or one was cut short, the file is broken only while its
  one writer is at it, and a change the file does not have is one a setter has yet to
  write or has copied as it is.
* *Windows and channel.* `GateInv`: the gate on the core's event is attached at most
  once, and not at all where pywebview's own handler was replaced. `ChannelInv`: the
  channel is closed in a remote document after another one, when the policy acted on
  that one's request and since then on none without a host. One request without a host
  is enough to open it again, and the property says so.
* *Review package.* `PackageInv`: unless edited meanwhile, the package has at the
  paths copied so far what the build has made there, and the manifest is written
  before other files go.
* *Gates.* `GatesInv`: a generator has written the mirrors of the contracts it is
  through with, unless a schema was edited since it began; the version sync has
  written what it read, and it is there still. That is less than the version gate asks
  for (`SyncedMatch` of `DeclarationsMatch`): the application id it also compares is
  written by hand.
* *Binding.* `BindingInv`: a call holds no more buffers than its operation has
  arguments for, and only the one call of the constructor makes a broker. Buffers and
  owners are then counted over the calls: a step moves one element of the set that is
  counted, or as many as the call hands over.
* *History.* `HistoryInv`: no row that was given lies behind the cursor any more
  (`GivenIsPassed`), and of the rows that were there all along those the cursor is
  past were given (`PassedIsGiven`). A page puts each row at the place given by the
  number of rows before it; that every place has its row is a counting argument
  (`PlacesOfRows`).
* *Release.* `ReleaseInv` follows the files of each platform through its jobs. On every
  way accidents may do to them what they like, but they make no checksum list (`Shape`).
  Before the gate the only lists about are those of the two uploads (`Near`), each of
  which lists the files of its upload exactly. The gate wants the listed files, no others,
  and an SBOM, so it passes nothing but the upload of the SBOM's job (`GateIsSharp`).
  What that job got, and what the publishing job gets behind the gate, is compared with
  nothing: from there on the invariant speaks of the files that came (`Came`,
  `AssetsAreDelivered`), and the lists are written anew of those (`ListWritten`). The renaming takes
  the platforms one by one and the files of each in an order left open; for any set of
  files done, each is there under its own name or the prefixed one, names that were kept
  are remembered and prefixed ones are new (`RenamingInv`), so that in the end names lie
  apart and contents are as they were.

**Lists** (`ListProofs`). Tab lists and ledgers are sequences, and what the modules
do to them is recursive: keep what satisfies a condition (`Only`), leave one out,
insert, move, close one after the other (`CloseAll`). The lemmas say what
these return for every sequence: what is kept, that its order is that of the whole,
that nothing is added, and how long it is. The induction is an argument about the
first number for which a claim fails; `LeastElement`, which gives it, follows from
the library's theorem on well-founded orderings. `UpTo` states it for recursive
functions, as steps from one number to the next; `ListOfSet` is what an enumeration
of a finite set is known to be, whatever its order.

**Only model-checked:** liveness (`PushesEnd`, `FollowedOnceStarted`, `ClearsEnd`,
`BacklogDrains`, `LayerAttached`), which is out of the prover's reach as everything
under fairness is. Every invariant and every action property of a passing run has its
theorem. The five properties of the runs that expect a violation are false as they
stand; what it takes for three of them to hold is proved (`AuthorizationsEndWithSession`,
`ListsDriftByOverlap`, `ClearedListsStayAway`), and for a fourth that it fails by an
overlap only (`GarbledNeedsOverlap`, by `OneSaveIsAtomic`). The fifth has a checked
counterpart, `FollowedOnceStarted`.

## 5. What the models found

1. *An authorization outlives its session* (`ffi_broker_lifetime`). Between the
   validation of an evaluation and the insertion of its authorization, the session
   is destroyed, both ledgers are purged and the same id is created again at the
   same generation. The late insertion is consumable in the new lifetime;
   `R/ffi/broker.rs:25` says only authorizations of the current lifetime are.
   `AuthorizationsEndWithSession` says which order of calls excludes it.
2. *Two lists* (`denylist_drift`). Two overlapping `Publish` calls store the
   managed list and `_latest` in opposite orders and leave windows and core with
   different lists; `SharedBlockedHosts.cs:27-28` says that cannot happen.
   `ListsDriftByOverlap` shows that it takes the overlap.
3. *A feed that is not followed* (`threat_feed_follow`). Configured after a start
   without one, a feed is fetched once and never again, since the periodic loop
   was not started; `ThreatFeedCoordinator.cs:17-18` says it is updated
   continuously.
4. *A list that comes back* (`threat_feed_clear`). Refreshes resolve their feed
   before they wait for the gate and the cached list is applied without it;
   `ThreatFeedCoordinator.cs:180-184` says that holding the gate while clearing
   prevents the list from being written back. `ClearedListsStayAway`: it takes a refresh
   or a start of the process that is under way when the setting is emptied.
5. *A session that cannot be read* (`session_garbled`). Two overlapping saves of
   the pywebview shell share `session.json.tmp`; the one publishes what the other
   has half written. `L/app/session_store.py:4` calls the save atomic.
   `GarbledNeedsOverlap` shows that it takes that overlap.

Seen while modelling, stated by no property:

*Core and brokers.*
* A session that a full pool evicts because it has expired leaves its authorizations in
  the ledgers (`R/broker.rs:164-165` evicts, only `destroy_session` and
  `advance_document_generation` purge). They may live longer than the session did, and
  are consumable when its id is created again: finding 1 without any overlap.
* A consumed record can be inserted after the purge of its session and then
  occupies a place until the same id is revoked again (`R/ffi/broker.rs:676`); the
  replay ledger of the core never forgets the nonces of sessions that ended, so it
  is full after as many navigations of the process as it has places.
* The comment on `reject_navigation_confirmation` (`R/ffi/broker.rs:473`) says an
  expired nonce answers false; an expired request still in the ledger answers true.
* `advance_generation` of the agent broker can lose an update and move the
  generation back (`agent/broker.py:323`); a negative `max_bytes` lowers a
  session's byte count (the model takes sizes to be natural numbers).
* Android: a registration that loses the host's check has already replaced the
  winner's core session; a renewal can set the core's generation back behind a
  concurrent advance (the next renewal heals it); a renewal that races a destroy
  leaves a core session that no host session reaches. Without the native core an
  action of an ended session is accepted again if its id is registered again within
  the action's lifetime; the application counts its ids upwards.
* Windows: in the managed build a late `ForgetNonces` can erase nonces of a new
  lifetime of the same id; overlapping destroys of one id can leave a core session
  without a host session. With the confirmation gate off, and for frames always,
  every high-risk navigation leaves a pending request in the core that nobody
  answers until it expires. The native lifetime of 120 seconds is never renewed.
* `HostWebView.cs:168-169` registers the kill-switch reaction before `_wired` is
  set: the reaction run at once for a tab wired during an emergency stops nothing,
  where the comment at 166 says the tab is frozen too. Its navigations are denied.

*Feed and tabs on Windows.*
* A server that sends headers and then nothing holds `_refreshGate` until the process
  ends: the client's timeout covers the headers (`ThreatFeed.cs:163-178`), and
  `HttpFetchGuard.cs:29-43` reads the body without one. No later refresh gets in, and
  the settings window waits for its clear (`BodiesEnd` is what excludes it).
* Refreshes take effect in the order they enter the gate, which is the order of
  `Task.Run` and not always the order they were asked for.
* When the wiring of every restored tab fails at start-up, each is closed through
  `CloseTab` (`MainWindow.Tabs.CoreReady.cs:48`), the last one closes the window and
  an empty session is saved; `MainWindow.Tabs.cs:227-228` says a restart brings the
  pages back. Closing the last tab saves an empty session too. A failing read of
  `tabs.db` at start looks like an empty one, and the next save overwrites it.
  Pinning, moving and switching do not mark the session for saving.

*pywebview shell.*
* Operations given up by the queue land later, beside others, although
  `L/app/nav_queue.py` calls execution serial; pinning changes the current tab
  without loading it; the agent's `switch_tab` and `close_tab` load addresses
  without the allowlist check.
* `database.py:42` keeps every thread's connection; `Database(":memory:")` gives
  each thread an empty database; `get_most_visited` indexes dictionaries by position
  and so answers nothing; `toggle_bookmark` looks up the raw URL where adding stores
  the normalised one; `import_history` re-times visits; the search by `LIKE` skips
  rows newer than the cursor; `config.load` does not expect bytes that are not UTF-8.
* The request policy is installed only with `do_not_track` on, though the docstring
  of `_apply_webview2_settings` relies on it, and is silently left out when it
  cannot be installed. What it takes for a local request is one whose address has no
  host (`native_hardening.py:66-71`, `84-85`), so a `data:` or `blob:` request of a remote
  page opens the message channel for the document after it. A new-window handler kept
  by pywebview itself is not stopped by the gate in the core.

*Release, gates, binding.*
* Damage on the way to the SBOM's job (`release-windows.yml:350-354`) and on the
  publishing job's own download, behind the gate (`release.yml:223-276`), goes into
  checksums made of what came, and so into attestations and assets. Only the gate
  between the two compares.
* The version gate also compares the application id of Gradle and of `release.json` with
  `VERSION` (`verify_versions.py:111-123`) where that has one; `sync_versions.py:86-108`
  writes neither, so a sync after an edit of that key leaves the gate red.
* The API checksum check of the generated Python binding is commented out
  (`aegis_policy_core.py:746`); lowering that fails leaks the cloned handle and the
  buffers lowered before.
* `dedup_release_assets.py:60-73` looks for a name in its own directory only;
  `verify_artifact_set` lets one file satisfy two manifest entries of one name.
* A renamed schema leaves its old mirror uncompared; the two generators see
  clashing constant names differently; version sync or a generator stopped half-way
  leaves mixed files, which their gates report; `build_review_package --check`
  compares the manifest with a new build and never opens the files of the package.

## 6. What is not modelled

* **Pre-layer gate** (`R/ffi/broker/policy_layers.rs`, `R/broker/pre_layers.rs`):
  no host registers rules or capabilities, and unconfigured layers give no
  opinion; it reads only. **Core modules no host reaches**, which
  `scripts/verify_core_unwired_modules.py` lists.
* **Lock poisoning**, a missing clock or random source: they deny, and change nothing.
  One place differs: a consumption that finds `issued_actions` poisoned when it comes to
  record what it granted (`R/ffi/broker.rs:664`) is allowed without the record; its
  nonce is burned by then.
* **Marshalling, parsing, logging**: the C ABI, JSON, URL and origin
  canonicalisation, feed parsing, entry shapes (the host filters with the core's
  rules first).
* **The delay between refreshes**: any delay may pass. The environment variable
  that supplies a feed when the setting is empty is one more value of the setting.
  Saving an invalid URL is refused by the window.
* **A second process**: one core is loaded by one process.
* **The Android application**: user interface, downloads and tab list over
  `AndroidBroker`, and its push of one denylist from an asset at start-up, the batch
  protocol of `DenylistPush` with no second publisher.
* **What a WebView host decides event by event and keeps no state for**: the upgrade
  to https, downloads, permissions, subresources.
* **Script text** injected into pages, and the toolbar scripts.
* **The rest of the pywebview shell**: fingerprint scripts, credential guard, asset
  scheme, wallpaper, exports: text and pure functions.
* **A source directory the review package does not find** (`TREE_COPY` in
  `scripts/build_review_package.py:153-157`) ends the build; `ReviewPackage` has all of them.
* **Gates that only read** documents, ledgers and workflow texts.

## 7. What could follow

* The Android application as a composition over `AndroidBroker`, and the temporary
  data directories of the InPrivate windows on Windows.
* Larger instances of `parts`: the pieces do not share state, so each can be given
  a specification and bounds of its own without changing its module.
