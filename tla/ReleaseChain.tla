---------------------------- MODULE ReleaseChain ----------------------------
(***************************************************************************)
(* The release of the platforms: native library, build, checksums, SBOM,   *)
(* gate, renaming, publication (release/*.py, scripts/                     *)
(* dedup_release_assets.py, called by the release workflows), and the      *)
(* check of what was downloaded (release/tools).                           *)
(*                                                                         *)
(* A job downloads what another one uploaded: the SBOM's job the build,    *)
(* the gate that with its SBOM, the publishing job the same once more, a   *)
(* deployment the release.  On each of these ways files may be lost,       *)
(* damaged, mixed up with those of an earlier upload, or joined by others. *)
(* Only the gate and the deployment compare what came with its checksums;  *)
(* the other two jobs write checksums of what came.  A checksum is the     *)
(* content it is of.                                                       *)
(***************************************************************************)
EXTENDS Naturals, Sequences, FiniteSets, SequencesExt

CONSTANTS
  Platforms,     \* the platforms' directories, in the order they are renamed
  TxtPlatforms,  \* those that write SHA256SUMS.txt
  NativeOf,      \* those whose library comes with a native manifest
  MaxDamage      \* bound: accidents

AllPlatforms == ToSet(Platforms)

ASSUME ReleaseAssumption ==
  /\ Platforms \in Seq(AllPlatforms) /\ IsInjective(Platforms)
  /\ MaxDamage \in Nat

\* A file's place: a name is the sequence of the prefixes it got and its own.
At(name) == [dir |-> "", name |-> <<name>>]
Library == [dir |-> "lib", name |-> <<"policy_core">>]
Metadata == At("build-metadata.json")
Json == At("SHA256SUMS.json")
Txt == At("SHA256SUMS.txt")
Sbom(p) == [dir |-> "", name |-> <<p, "cdx.json">>]
\* Where a platform's jobs write its checksums.
OwnList(p) == IF p \in TxtPlatforms THEN Txt ELSE Json
Stray == At("stray")

Content(is) == [is |-> is, of |-> {}]
Damaged == Content("damaged")

VARIABLES
  env,        \* "ci" or "local": where the build runs, what the metadata says
  natives,    \* natives[p]: the native library handed to platform p
  listed,     \* listed[p]: what its native manifest says of it
  stage,      \* stage[p]: "new", "built", "uploaded", "gated", "refused"
  dist,       \* dist[p]: the files, a function from places to contents
  first,      \* first[p]: the files of the upload before the SBOM
  received,   \* received[p]: those that the SBOM's job got of it
  uploaded,   \* uploaded[p]: the files of the last upload
  delivered,  \* delivered[p]: those that the publishing job got of it
  publish,    \* "waiting", "fetched", "renamed", "summed", "published", "refused"
  assets,     \* the published assets: platform, place and content
  deployed,   \* the downloaded files
  verified,   \* the downloaded files passed
  archived,   \* the components of the SBOM written from the release manifest
  damage      \* accidents so far

releaseVars == <<env, natives, listed, stage, dist, first, received, uploaded, delivered,
                 publish, assets, deployed, verified, archived, damage>>
uploadVars == <<env, natives, listed, first, received, uploaded>>
buildVars == <<uploadVars, delivered>>
userVars == <<deployed, verified, archived>>

ReleaseTypeOK ==
  /\ env \in {"ci", "local"}
  /\ stage \in [AllPlatforms -> {"new", "built", "uploaded", "gated", "refused"}]
  /\ publish \in {"waiting", "fetched", "renamed", "summed", "published", "refused"}
  /\ verified \in BOOLEAN
  /\ damage \in 0..MaxDamage

NoFiles == [place \in {} |-> Damaged]

ReleaseInit ==
  /\ env \in {"ci", "local"}
  /\ natives = [p \in AllPlatforms |-> Content("library")]
  /\ listed = natives
  /\ stage = [p \in AllPlatforms |-> "new"]
  /\ dist = [p \in AllPlatforms |-> NoFiles]
  /\ first = dist /\ received = dist /\ uploaded = dist /\ delivered = dist
  /\ publish = "waiting"
  /\ assets = {} /\ deployed = NoFiles
  /\ verified = FALSE /\ archived = {}
  /\ damage = 0

Put(files, place, content) ==
  [q \in DOMAIN files \cup {place} |-> IF q = place THEN content ELSE files[q]]
Without(files, place) == [q \in DOMAIN files \ {place} |-> files[q]]

-----------------------------------------------------------------------------
(* Checksums.                                                              *)

\* Every file but the list itself.
Listing(files, place) == {<<q, files[q]>> : q \in DOMAIN files \ {place}}

\* build_manifest and the atomic write of it.
Summed(files, place) == Put(files, place, [is |-> "sums", of |-> Listing(files, place)])

\* Mistake: files that are not listed are not looked for.
ListedFilesMatch(files, place) ==
  /\ place \in DOMAIN files /\ files[place].is = "sums"
  /\ files[place].of # {} /\ files[place].of \subseteq Listing(files, place)

\* verify_manifest and _verify_checksum_txt: a list, not empty, of exactly the
\* files there are with the contents they have.
Reconciled(files, place) ==
  /\ place \in DOMAIN files /\ files[place].is = "sums"
  /\ files[place].of # {} /\ files[place].of = Listing(files, place)

\* The JSON list where there is one, or else the text.
SumsOf(files) == IF Json \in DOMAIN files THEN Json ELSE Txt

\* verify_bundle: metadata of a CI run, checksums, an SBOM.
PassesGate(files) ==
  /\ Metadata \in DOMAIN files /\ files[Metadata] = Content("ci")
  /\ Reconciled(files, SumsOf(files))
  /\ \E q \in DOMAIN files : q.name[Len(q.name)] = "cdx.json"

-----------------------------------------------------------------------------
(* The ways.                                                               *)

\* What files may have become; before are those of an earlier upload.
Accident(files, before) ==
  {Without(files, q) : q \in DOMAIN files}
    \cup {Put(files, q, Damaged) : q \in DOMAIN files \cup {Stray}}
    \cup {Put(files, q, before[q]) : q \in DOMAIN before}

\* An accident to what a platform's next job gets.
Damage(p, before) ==
  /\ damage < MaxDamage /\ damage' = damage + 1
  /\ \E files \in Accident(dist[p], before) : dist' = [dist EXCEPT ![p] = files]

\* On the way to the SBOM's job.
DamageBuild(p) ==
  /\ stage[p] = "built" /\ Damage(p, NoFiles)
  /\ UNCHANGED <<buildVars, stage, publish, assets, userVars>>

\* On the way to the gate, or before that.
DamageUpload(p) ==
  /\ stage[p] = "uploaded" /\ Damage(p, first[p])
  /\ UNCHANGED <<buildVars, stage, publish, assets, userVars>>

\* On the way to the publishing job, behind the gate.
DamageFetch(p) ==
  /\ publish = "fetched" /\ Damage(p, first[p])
  /\ delivered' = dist'
  /\ UNCHANGED <<uploadVars, stage, publish, assets, userVars>>

-----------------------------------------------------------------------------
(* The jobs of a platform.                                                 *)

DamageNative(p) ==
  /\ stage[p] = "new" /\ damage < MaxDamage
  /\ natives' = [natives EXCEPT ![p] = Damaged]
  /\ damage' = damage + 1
  /\ UNCHANGED <<env, listed, stage, dist, first, received, uploaded, delivered, publish,
                 assets, userVars>>

\* build_metadata: the revision and the run, or that there was none.
WithMetadata(files) == Put(files, Metadata, Content(env))

\* native_artifact_manifest --verify, then the build with its metadata and
\* checksums.
Build(p) ==
  /\ stage[p] = "new"
  /\ IF p \in NativeOf /\ natives[p] # listed[p]
     THEN /\ stage' = [stage EXCEPT ![p] = "refused"]
          /\ UNCHANGED <<dist, first>>
     ELSE LET lib   == IF p \in NativeOf THEN natives[p] ELSE Content("library")
              files == WithMetadata(Put(NoFiles, Library, lib))
          IN  /\ dist' = [dist EXCEPT ![p] = Summed(files, OwnList(p))]
              /\ first' = [first EXCEPT ![p] = dist'[p]]
              /\ stage' = [stage EXCEPT ![p] = "built"]
  /\ UNCHANGED <<env, natives, listed, received, uploaded, delivered, publish, assets,
                 userVars, damage>>

\* The SBOM is added to whatever files came, and checksums of them all replace
\* those that came.
AddSbom(p) ==
  /\ stage[p] = "built"
  /\ received' = [received EXCEPT ![p] = dist[p]]
  /\ dist' = [dist EXCEPT ![p] = Summed(Put(@, Sbom(p), Content("sbom")), OwnList(p))]
  /\ uploaded' = [uploaded EXCEPT ![p] = dist'[p]]
  /\ stage' = [stage EXCEPT ![p] = "uploaded"]
  /\ UNCHANGED <<env, natives, listed, first, delivered, publish, assets, userVars, damage>>

\* verify-gate, for each platform.
Gate(p) ==
  /\ stage[p] = "uploaded"
  /\ stage' = [stage EXCEPT ![p] = IF PassesGate(dist[p]) THEN "gated" ELSE "refused"]
  /\ UNCHANGED <<buildVars, dist, publish, assets, userVars, damage>>

-----------------------------------------------------------------------------
(* Publication.                                                            *)

\* The publishing job downloads anew what the gate has seen.
Fetch ==
  /\ publish = "waiting" /\ \A p \in AllPlatforms : stage[p] = "gated"
  /\ publish' = "fetched"
  /\ delivered' = dist
  /\ UNCHANGED <<uploadVars, stage, dist, assets, userVars, damage>>

Prefixed(p, place) == [place EXCEPT !.name = <<p>> \o @]

\* One file of dedup_release_assets.main: the first of a name keeps it, the
\* next gets its platform as a prefix, unless a file of that name is beside it.
Renamed(acc, p, q) ==
  LET target == Prefixed(p, q)
  IN  IF q.name \notin acc.seen THEN [acc EXCEPT !.seen = @ \cup {q.name}]
      ELSE IF target \in DOMAIN acc.files[p] THEN [acc EXCEPT !.ok = FALSE]
      ELSE [acc EXCEPT !.seen = @ \cup {target.name},
                       !.files[p] = Put(Without(@, q), target, @[q])]

\* The files of one platform, in whatever order they are found.
PlatformRenamed(acc, p) ==
  LET found == SetToSeq(DOMAIN dist[p])
      after[n \in 0..Len(found)] ==
        IF n = 0 THEN acc ELSE Renamed(after[n - 1], p, found[n])
  IN  after[Len(found)]

DedupAll ==
  LET after[n \in 0..Len(Platforms)] ==
        IF n = 0 THEN [seen |-> {}, files |-> dist, ok |-> TRUE]
        ELSE PlatformRenamed(after[n - 1], Platforms[n])
  IN  after[Len(Platforms)]

Dedup ==
  /\ publish = "fetched"
  /\ publish' = IF DedupAll.ok THEN "renamed" ELSE "refused"
  /\ dist' = DedupAll.files
  /\ UNCHANGED <<buildVars, stage, assets, userVars, damage>>

\* The list's name after the renaming: the order the publish job looks in.
SumsOrder(p) == <<Json, Prefixed(p, Json), Txt, Prefixed(p, Txt)>>
FinalSums(p) ==
  SumsOrder(p)[SelectInSeq(SumsOrder(p), LAMBDA q : q \in DOMAIN dist[p])]
HasSums(p) == ToSet(SumsOrder(p)) \cap DOMAIN dist[p] # {}

\* Whatever list came is replaced by one of what came; without any the job ends.
Resum ==
  /\ publish = "renamed"
  /\ IF \A p \in AllPlatforms : HasSums(p)
     THEN /\ dist' = [p \in AllPlatforms |-> Summed(dist[p], FinalSums(p))]
          /\ publish' = "summed"
     ELSE publish' = "refused" /\ UNCHANGED dist
  /\ UNCHANGED <<buildVars, stage, assets, userVars, damage>>

Publish ==
  /\ publish = "summed"
  /\ IF \A p \in AllPlatforms : Reconciled(dist[p], FinalSums(p))
     THEN /\ assets' = UNION {{[p |-> p, place |-> q, content |-> dist[p][q]] :
                                q \in DOMAIN dist[p]} : p \in AllPlatforms}
          /\ publish' = "published"
     ELSE publish' = "refused" /\ UNCHANGED assets
  /\ UNCHANGED <<buildVars, stage, dist, userVars, damage>>

-----------------------------------------------------------------------------
(* The deployment's side: files lie in a directory per platform.           *)

Download ==
  /\ publish = "published" /\ deployed = NoFiles
  /\ deployed' = [q \in {[dir |-> a.p, name |-> a.place.name] : a \in assets} |->
       (CHOOSE a \in assets : a.p = q.dir /\ a.place.name = q.name).content]
  /\ UNCHANGED <<buildVars, stage, dist, publish, assets, verified, archived, damage>>

\* A file of one platform may also land in another's directory.
DamageDownload ==
  /\ deployed # NoFiles /\ ~verified /\ damage < MaxDamage
  /\ \/ \E files \in Accident(deployed, NoFiles) : deployed' = files
     \/ \E q \in DOMAIN deployed, p \in AllPlatforms :
          deployed' = Put(deployed, [q EXCEPT !.dir = p], deployed[q])
  /\ damage' = damage + 1
  /\ UNCHANGED <<buildVars, stage, dist, publish, assets, verified, archived>>

\* verify_artifact_set: the file of an entry by its name, by its platform
\* where several have that name.
Chosen(a) ==
  LET same == {q \in DOMAIN deployed : q.name = a.place.name}
      hits == {q \in same : q.dir = a.p}
  IN  IF Cardinality(same) = 1 THEN same
      ELSE IF Cardinality(hits) = 1 THEN hits ELSE {}

ArtifactSetVerified ==
  /\ assets # {} /\ DOMAIN deployed # {}
  /\ \A a \in assets : Chosen(a) # {} /\ \A q \in Chosen(a) : deployed[q] = a.content
  /\ DOMAIN deployed = UNION {Chosen(a) : a \in assets}

\* verify_provenance: what was published is attested; asking may time out.
ProvenanceVerified ==
  /\ DOMAIN deployed # {}
  /\ \A q \in DOMAIN deployed : deployed[q] \in {a.content : a \in assets}

VerifyDownload ==
  /\ publish = "published" /\ deployed # NoFiles /\ ~verified
  /\ ArtifactSetVerified /\ ProvenanceVerified
  /\ verified' = TRUE
  /\ UNCHANGED <<buildVars, stage, dist, publish, assets, deployed, archived, damage>>

\* generate_sbom: a component for each entry of the release manifest.
Components == {<<a.place.name, a.content>> : a \in assets}

GenerateSbom ==
  /\ publish = "published" /\ archived = {}
  /\ archived' = Components
  /\ UNCHANGED <<buildVars, stage, dist, publish, assets, deployed, verified, damage>>

-----------------------------------------------------------------------------
ReleaseNext ==
  \/ \E p \in AllPlatforms :
       \/ DamageNative(p) \/ Build(p) \/ AddSbom(p) \/ Gate(p)
       \/ DamageBuild(p) \/ DamageUpload(p) \/ DamageFetch(p)
  \/ Fetch \/ Dedup \/ Resum \/ Publish
  \/ Download \/ DamageDownload \/ VerifyDownload \/ GenerateSbom

ReleaseSpec == ReleaseInit /\ [][ReleaseNext]_releaseVars

-----------------------------------------------------------------------------
(* Properties.                                                             *)

\* The gate lets pass what was uploaded to the file, with the metadata of a CI
\* run; that has the library that was built, if the SBOM's job got the build.
GatedIsUploaded ==
  \A p \in AllPlatforms :
    stage[p] = "gated" =>
      /\ publish = "waiting" => dist[p] = uploaded[p]
      /\ Metadata \in DOMAIN uploaded[p] /\ uploaded[p][Metadata] = Content("ci")
      /\ received[p] = first[p] =>
           Library \in DOMAIN uploaded[p] /\ uploaded[p][Library] = Content("library")

\* Apart from the lists, a platform's assets are what the publishing job got of
\* it, under names that no two assets share.
PublishedIsDelivered ==
  /\ \A a, b \in assets : a.place.name = b.place.name => a = b
  /\ assets # {} => \A p \in AllPlatforms :
       {a.content : a \in {b \in assets : b.p = p /\ b.content.is # "sums"}}
         = {delivered[p][q] : q \in DOMAIN delivered[p] \ {OwnList(p)}}

DeployedIsPublished ==
  verified => LET files == {<<q.name, deployed[q]>> : q \in DOMAIN deployed}
              IN  files = Components /\ (archived # {} => archived = files)

\* Whatever is lost, damaged, mixed up between the two uploads of a platform or
\* added on any of the ways: what passes the gate is the upload of the SBOM's job,
\* what is published is, under distinct names, what the publishing job got, and
\* what a deployment accepts is what was published.  Nothing says that what the
\* SBOM's job got was the build, or what the publishing job got the gated files:
\* an accident on these two ways goes into new checksums, and out.
BundleHandedOn == GatedIsUploaded /\ PublishedIsDelivered /\ DeployedIsPublished
=============================================================================
