----------------------------- MODULE ReviewPackage -----------------------------
(***************************************************************************)
(* The expert review package (scripts/build_review_package.py): a copy of  *)
(* the sources with a manifest of their hashes, built file by file over    *)
(* the package before it, and the check that compares the manifest with    *)
(* one made anew.  Sources and package are edited by hand at any time and  *)
(* a build may be interrupted; a check is one step (a bound).  Times, the  *)
(* commit and the stamp in the package's README are left out.              *)
(***************************************************************************)
EXTENDS Naturals, Sequences, FiniteSets, SequencesExt, Lists

CONSTANTS
  Sources,       \* paths of the trees copied (TREE_COPY), in order
  Required,      \* those copied by name (FILE_COPY): the build needs them
  Excluded,      \* those the rules leave out
  MaxTouches     \* bound: edits by hand

ASSUME PackageAssumption ==
  /\ Sources \in Seq(ToSet(Sources))
  /\ Required \cup Excluded \subseteq ToSet(Sources) /\ Required \cap Excluded = {}

Paths == ToSet(Sources)
Contents == {"s1", "s2"}
NoManifest == [absent |-> "manifest"]
HalfManifest == [half |-> "manifest"]

VARIABLES
  source,        \* source[f]: its contents, or "absent"
  package,       \* package[f]: contents, "edited", or "absent"
  manifest,      \* a function from paths to contents
  build,         \* the build in progress: where it is, what it has still to copy
                 \* and has made, and whether the package was edited meanwhile
  touched,       \* history: since the last build that ended another one began or
                 \* the package was edited
  touches        \* edits so far

packageVars == <<source, package, manifest, build, touched, touches>>
NoBuild == [stage |-> "none", left |-> <<>>, made |-> <<>>, edited |-> FALSE]

PackageInit ==
  /\ source = [f \in Paths |-> "s1"]
  /\ package = [f \in Paths |-> "absent"] /\ manifest = NoManifest
  /\ build = NoBuild /\ touched = TRUE /\ touches = 0

EditSource(f) ==
  /\ touches < MaxTouches /\ touches' = touches + 1
  /\ \E text \in Contents \cup {"absent"} : source' = [source EXCEPT ![f] = text]
  /\ UNCHANGED <<package, manifest, build, touched>>

EditPackage(f) ==
  /\ touches < MaxTouches /\ touches' = touches + 1
  /\ \E text \in {"edited", "absent"} : package' = [package EXCEPT ![f] = text]
  /\ touched' = TRUE
  /\ build' = IF build = NoBuild THEN build ELSE [build EXCEPT !.edited = TRUE]
  /\ UNCHANGED <<source, manifest>>

\* _match_excluded, and what is not there.
Collected(f) == f \notin Excluded /\ source[f] # "absent"

\* collect_sources: the paths to copy, in order; without a file it needs the
\* build ends before it wrote anything.
StartBuild ==
  /\ build = NoBuild
  /\ \A f \in Required : source[f] # "absent"
  /\ LET collected == {i \in DOMAIN Sources : Collected(Sources[i])}
     IN  build' = [NoBuild EXCEPT !.stage = "copy", !.left = Only(Sources, collected)]
  /\ touched' = TRUE
  /\ UNCHANGED <<source, package, manifest, touches>>

\* A file is copied and the copy hashed; one that is gone by now is left out.
CopySource ==
  /\ build.stage = "copy" /\ build.left # <<>>
  /\ LET f == Head(build.left)
     IN  IF source[f] = "absent"
         THEN build' = [build EXCEPT !.left = Tail(@)] /\ UNCHANGED package
         ELSE /\ package' = [package EXCEPT ![f] = source[f]]
              /\ build' = [build EXCEPT !.left = Tail(@), !.made =
                             [g \in DOMAIN @ \cup {f} |-> IF g = f THEN source[f] ELSE @[g]]]
  /\ UNCHANGED <<source, manifest, touched, touches>>

WriteManifest ==
  /\ build.stage = "copy" /\ build.left = <<>>
  /\ manifest' = build.made
  /\ build' = [build EXCEPT !.stage = "clean"]
  /\ UNCHANGED <<source, package, touched, touches>>

\* Mistake: what earlier builds left is not removed.
CleanNothing ==
  /\ build.stage = "clean"
  /\ build' = NoBuild /\ touched' = build.edited
  /\ UNCHANGED <<source, package, manifest, touches>>

\* Whatever this build did not make is removed.
CleanPackage ==
  /\ build.stage = "clean"
  /\ package' = [f \in Paths |-> IF f \in DOMAIN build.made THEN package[f] ELSE "absent"]
  /\ build' = NoBuild /\ touched' = build.edited
  /\ UNCHANGED <<source, manifest, touches>>

\* The manifest, written in place, may be left half-written.
InterruptBuild ==
  /\ build # NoBuild
  /\ manifest' \in {manifest}
       \cup IF build.stage = "copy" /\ build.left = <<>> THEN {HalfManifest} ELSE {}
  /\ build' = NoBuild
  /\ UNCHANGED <<source, package, touched, touches>>

PackageNext ==
  \/ \E f \in Paths : EditSource(f) \/ EditPackage(f)
  \/ StartBuild \/ CopySource \/ WriteManifest \/ CleanPackage \/ InterruptBuild

PackageSpec == PackageInit /\ [][PackageNext]_packageVars

(* check_reviewed: the manifest in the package against that of a new build. *)
CheckPasses ==
  /\ \A f \in Required : source[f] # "absent"
  /\ manifest = [f \in {g \in Paths : Collected(g)} |-> source[f]]

-----------------------------------------------------------------------------
(* Properties.                                                             *)

\* Whatever builds were interrupted, and whatever was edited under the last
\* one: the package it leaves is what its manifest says, and the check passes
\* for the sources as they are only.
PackageKept ==
  ~touched =>
    LET held == [f \in {g \in Paths : package[g] # "absent"} |-> package[f]]
    IN  /\ held = manifest
        /\ CheckPasses => \A f \in Paths :
             package[f] = IF f \in Excluded THEN "absent" ELSE source[f]
=============================================================================
