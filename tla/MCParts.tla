------------------------------ MODULE MCParts ------------------------------
(***************************************************************************)
(* One instance for the parts that share no state with each other: each    *)
(* behaviour exercises one part, chosen in its first state, and leaves the *)
(* others as they started.                                                 *)
(***************************************************************************)
EXTENDS NavQueue, NativeLayer, HistoryStore, BookmarkStore, ShellFiles, UpdateVerifier,
        ReleaseChain, RepositoryGates, ReviewPackage, UniffiBinding, ActionContract, TLC

CONSTANTS
  PostedOps,   \* window operations posted to the navigation queue
  MaxPosts,    \* bound: operations posted
  A, B         \* signing keys

VARIABLES
  focus,       \* the part this behaviour exercises
  posts        \* history: operations posted

navPart == <<navVars, posts>>
vars == <<focus, navPart, nativeVars, historyVars, bookmarkVars, filesVars, updateVars,
          releaseVars, gateVars, packageVars, bindingVars, decisionVars>>

(* Two parts whose halves meet in their restart or start only are exercised *)
(* half by half: the configuration file and the threat feed of ShellFiles,  *)
(* the set-up of NativeLayer and the pages shown once nothing failed in it. *)
PartNames == {"navigation", "native", "pages", "history", "bookmarks", "config", "feed",
              "update", "release", "gates", "package", "binding", "contract"}
InLayer == focus \in {"native", "pages"}

-----------------------------------------------------------------------------
(* Values of the constants.                                                *)

TheSources == <<"a", "b", "stale">>
TheSeeds == <<"home">>
TheDefaults == [engine |-> "e1", wallpaper |-> "w1"]
ThePlatforms == <<"windows", "android", "core">>
TheContracts == <<"action", "approval">>
TheContractOf == "x-valid" :> "action" @@ "y-valid" :> "approval"
TheDeclarations ==
  << "Version" :> "NAME", "FileVersion" :> "PACKAGE",
     "release.version" :> "NAME" @@ "release.code" :> "CODE" >>
TheHandWritten == "gradle.applicationId" :> "APP_ID" @@ "release.applicationId" :> "APP_ID"

(* 1.0-a < 1.0-a.2 < 1.0-a.11 < 1.0-b < 1.0 < 2.0                          *)
Word(w) == <<1, w>>
Num(n) == <<0, n>>
One(pre) == [core |-> 1, pre |-> pre]
TheLadder ==
  << One(<<Word(1)>>), One(<<Word(1), Num(2)>>), One(<<Word(1), Num(11)>>),
     One(<<Word(2)>>), One(<<>>), [core |-> 2, pre |-> <<>>] >>

(* k1 and k2 name one key, which is lost; k3 names another one or nothing. *)
TheRings == {"k1" :> A @@ "k2" :> A @@ "k3" :> B, "k1" :> A @@ "k3" :> Undecodable}
TheThresholds == {2, NoPolicy}
TheOffers ==
  [version : {TheLadder[i] : i \in DOMAIN TheLadder} \cup {NoVersion},
   expires : {1, 2, NoTime},
   sigs : SUBSET {[id |-> "k1", by |-> A], [id |-> "k2", by |-> A],
                  [id |-> "k3", by |-> A], [id |-> "k3", by |-> B]}]

ThePosts ==
  {[do |-> "load", arg |-> "home"], [do |-> "eval", arg |-> "inject"],
   [do |-> "eval", arg |-> "history"]}

-----------------------------------------------------------------------------

(* A part that is not exercised starts in one state of its own.            *)
Init ==
  /\ focus \in PartNames
  /\ NavInit /\ page = "home" /\ loads = 0 /\ posts = 0
  /\ NativeInit /\ (~InLayer => gate = "class" /\ doNotTrack)
  /\ HistoryInit
  /\ BookmarkInit /\ (focus # "bookmarks" => \A u \in Links : rows[u] = 0)
  /\ FilesInit /\ (focus # "feed" => cache = NoList /\ refresh = "none")
  /\ UpdateInit
  /\ ReleaseInit /\ (focus # "release" => env = "ci")
  /\ GatesInit
  /\ PackageInit
  /\ BindingInit
  /\ focus # "binding" => library.contract /\ library.exports = Declared /\ library.differs = {}
  /\ ContractInit

PostSome ==
  /\ posts < MaxPosts /\ posts' = posts + 1
  /\ \E op \in PostedOps : Post(op)

NavPartNext == PostSome \/ (NavNext /\ UNCHANGED posts)

Others(part) ==
  /\ UNCHANGED focus
  /\ IF part = "navigation" THEN TRUE ELSE UNCHANGED navPart
  /\ IF part \in {"native", "pages"} THEN TRUE ELSE UNCHANGED nativeVars
  /\ IF part = "history" THEN TRUE ELSE UNCHANGED historyVars
  /\ IF part = "bookmarks" THEN TRUE ELSE UNCHANGED bookmarkVars
  /\ IF part \in {"config", "feed"} THEN TRUE ELSE UNCHANGED filesVars
  /\ IF part = "update" THEN TRUE ELSE UNCHANGED updateVars
  /\ IF part = "release" THEN TRUE ELSE UNCHANGED releaseVars
  /\ IF part = "gates" THEN TRUE ELSE UNCHANGED gateVars
  /\ IF part = "package" THEN TRUE ELSE UNCHANGED packageVars
  /\ IF part = "binding" THEN TRUE ELSE UNCHANGED bindingVars
  /\ IF part = "contract" THEN TRUE ELSE UNCHANGED decisionVars

Navigation == focus = "navigation" /\ NavPartNext /\ Others("navigation")
Native     == /\ focus = "native" /\ NativeNext /\ Others("native")
              /\ UNCHANGED <<webMessage, doc, before>>
NativePages == /\ focus = "pages" /\ NativeNext /\ Others("pages")
               /\ UNCHANGED <<logged, opened>>
History    == focus = "history" /\ HistoryNext /\ Others("history")
Bookmarks  == focus = "bookmarks" /\ BookmarkNext /\ Others("bookmarks")
Config     == focus = "config" /\ FilesNext /\ UNCHANGED feedVars /\ Others("config")
Feed       == focus = "feed" /\ FilesNext /\ UNCHANGED configVars /\ Others("feed")
Update     == focus = "update" /\ UpdateNext /\ Others("update")
Release    == focus = "release" /\ ReleaseNext /\ Others("release")
Gates      == focus = "gates" /\ GatesNext /\ Others("gates")
Package    == focus = "package" /\ PackageNext /\ Others("package")
Binding    == focus = "binding" /\ BindingNext /\ Others("binding")
Contract   == focus = "contract" /\ ContractNext /\ Others("contract")

Next ==
  \/ Navigation \/ Native \/ NativePages \/ History \/ Bookmarks \/ Config \/ Feed
  \/ Update \/ Release \/ Gates \/ Package \/ Binding \/ Contract

InNavigation(A_) == focus = "navigation" /\ A_ /\ UNCHANGED posts /\ Others("navigation")
InNative(A_) == focus = "native" /\ A_ /\ Others("native")

(* The fairness of NavQueue and NativeLayer, each for its own behaviours.  *)
Fairness ==
  /\ \A t \in NavThreads :
       /\ WF_vars(InNavigation(GetTimeout(t)))
       /\ WF_vars(InNavigation(Take(t)))
       /\ WF_vars(InNavigation(GiveUp(t)))
  /\ WF_vars(InNavigation(Recover))
  /\ WF_vars(InNative(InstallWatchdog))
  /\ WF_vars(InNative(OnCoreReady))
  /\ WF_vars(InNative(SetupStep))

Spec == Init /\ [][Next]_vars /\ Fairness

(* AttachedOrLogged in the behaviours that start the native layer.         *)
LayerAttached == focus = "native" => AttachedOrLogged
=============================================================================
