--------------------------- MODULE UpdateVerifier ---------------------------
(***************************************************************************)
(* The verification of an update manifest (release/update_verifier.py) by  *)
(* release/tools/verify_manifest, and the client that keeps the highest    *)
(* version it accepted.  A version is its SemVer precedence: a core number *)
(* and the identifiers of the pre-release part, each a pair <<0, n>> for a *)
(* number and <<1, w>> for the w-th word in ASCII order.                   *)
(***************************************************************************)
EXTENDS Naturals, Sequences, FiniteSets

CONSTANTS
  Offers,       \* manifests a client may be given
  Rings,        \* contents of trusted_keys.json: functions from key ids to keys
  Thresholds,   \* contents of signing-policy.yaml
  Lost,         \* keys in other hands than their owners'
  Ladder,       \* the published versions, in the order they came out
  LastDay,      \* bound: days
  NoVersion,    \* a version that is no SemVer
  NoTime,       \* an expires_at that is no RFC 3339 time
  NoPolicy,     \* a missing or invalid threshold
  Undecodable   \* a key that is neither base64 nor hex of 32 bytes

VARIABLES
  accepted,     \* the manifest accepted last; Ladder's first version at first
  today,
  exit          \* the exit code of the last verification

updateVars == <<accepted, today, exit>>

\* Somebody signed it with a key that is still its owner's.
Genuine(offer) == ~({sig.by : sig \in offer.sigs} \subseteq Lost)

UpdateTypeOK ==
  /\ accepted.version \in {Ladder[i] : i \in DOMAIN Ladder}
  /\ today \in 0..LastDay
  /\ exit \in {0, 1, 2}

UpdateInit ==
  /\ accepted = [version |-> Ladder[1], expires |-> LastDay, sigs |-> {}]
  /\ today = 0
  /\ exit = 0

-----------------------------------------------------------------------------
(* Versions.                                                               *)

IdBelow(a, b) == a[1] < b[1] \/ (a[1] = b[1] /\ a[2] < b[2])

PreBelow(s, t) ==
  \E i \in DOMAIN t :
    /\ \A j \in 1..(i - 1) : j \in DOMAIN s /\ s[j] = t[j]
    /\ i \in DOMAIN s => IdBelow(s[i], t[i])

\* _version_tuple compared: a release is above its pre-releases.
Below(v, w) ==
  \/ v.core < w.core
  \/ /\ v.core = w.core
     /\ v.pre # <<>>
     /\ w.pre = <<>> \/ PreBelow(v.pre, w.pre)

\* Versions come out in ascending order, and fewer keys are lost than any
\* threshold asks for.
ASSUME UpdateAssumption ==
  /\ DOMAIN Ladder \subseteq Nat /\ 1 \in DOMAIN Ladder
  /\ \A i, j \in DOMAIN Ladder : i < j => Below(Ladder[i], Ladder[j])
  /\ \A offer \in Offers :
       offer.version = NoVersion \/ \E i \in DOMAIN Ladder : offer.version = Ladder[i]
  /\ IsFiniteSet(Lost)
  /\ \A threshold \in Thresholds \ {NoPolicy} :
       threshold \in Nat /\ threshold > Cardinality(Lost)
  /\ LastDay \in Nat

-----------------------------------------------------------------------------
(* Verification.                                                           *)

\* Mistake: every key id is a vote of its own.
IdsThatSigned(offer, ring) ==
  {id \in DOMAIN ring : [id |-> id, by |-> ring[id]] \in offer.sigs}

\* The votes of a manifest: keys of the ring whose signature is right.  A key
\* under two ids is one vote.
KeysThatSigned(offer, ring) ==
  {ring[id] : id \in {k \in DOMAIN ring : [id |-> k, by |-> ring[k]] \in offer.sigs}}

Verified(offer, ring, floor, threshold) ==
  /\ offer.version # NoVersion
  /\ ~Below(offer.version, floor)
  /\ offer.expires # NoTime /\ offer.expires > today
  /\ Cardinality(KeysThatSigned(offer, ring)) >= threshold

\* _load_threshold and _decode_trusted_keys: nothing is assumed in their place.
Readable(ring, threshold) ==
  /\ DOMAIN ring # {}
  /\ \A id \in DOMAIN ring : ring[id] # Undecodable
  /\ threshold # NoPolicy /\ threshold >= 1

-----------------------------------------------------------------------------
(* The client: it passes the highest version it accepted, or slips.        *)

VerifyManifest(offer, ring, threshold, floor) ==
  /\ exit' = IF floor = NoVersion \/ ~Readable(ring, threshold) THEN 2
             ELSE IF Verified(offer, ring, floor, threshold) THEN 0 ELSE 1
  /\ accepted' = IF exit' = 0 THEN offer ELSE accepted
  /\ UNCHANGED today

NextDay ==
  /\ today < LastDay
  /\ today' = today + 1
  /\ UNCHANGED <<accepted, exit>>

UpdateNext ==
  \/ \E offer \in Offers, ring \in Rings, threshold \in Thresholds,
        floor \in {accepted.version, NoVersion} :
       VerifyManifest(offer, ring, threshold, floor)
  \/ NextDay

UpdateSpec == UpdateInit /\ [][UpdateNext]_updateVars

-----------------------------------------------------------------------------
Place(version) == CHOOSE i \in DOMAIN Ladder : Ladder[i] = version

\* As long as fewer keys are lost than the threshold asks for, a client moves
\* only to a manifest its owners signed, that has not expired, and that did
\* not come out before the one it has, however keys are named in the ring.
UpdatesAreTrusted ==
  [][accepted' # accepted =>
       /\ Genuine(accepted')
       /\ accepted'.expires > today
       /\ Place(accepted'.version) >= Place(accepted.version)]_accepted
=============================================================================
