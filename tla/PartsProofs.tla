---------------------------- MODULE PartsProofs -----------------------------
(***************************************************************************)
(* Proofs about the parts that share no state with the brokers or with     *)
(* each other, one section for each.                                       *)
(***************************************************************************)
EXTENDS BookmarkStore, UpdateVerifier, ActionContract, ShellFiles, NativeLayer,
        ReviewPackage, RepositoryGates, UniffiBinding, HistoryStore, ReleaseChain, ListProofs,
        FiniteSetTheorems, TLAPS

(* How often the look-before-insert of the bookmarks lets a URL be stored, *)
(* for any finite number of bridge threads and any URLs.                   *)

LEMMA BookmarkInitType == BookmarkInit => BookmarkTypeOK
BY DEF BookmarkInit, BookmarkTypeOK

LEMMA AddAllType ==
  ASSUME BookmarkTypeOK, NEW t \in Users, NEW urls \in Seq(Links), AddAll(t, urls)
  PROVE  BookmarkTypeOK'
BY DEF BookmarkTypeOK, AddAll

LEMMA RemoveType ==
  ASSUME BookmarkTypeOK, NEW t \in Users, NEW u \in Links, RemoveBookmark(t, u)
  PROVE  BookmarkTypeOK'
BY DEF BookmarkTypeOK, RemoveBookmark

LEMMA BookmarkTypeStep == BookmarkTypeOK /\ [BookmarkNext]_bookmarkVars => BookmarkTypeOK'
<1> SUFFICES ASSUME BookmarkTypeOK, [BookmarkNext]_bookmarkVars PROVE BookmarkTypeOK'
  OBVIOUS
<1>1. CASE UNCHANGED bookmarkVars
  BY <1>1 DEF bookmarkVars, BookmarkTypeOK
<1>2. ASSUME NEW t \in Users, AddBookmark(t) PROVE BookmarkTypeOK'
  <2>1. list[t] \in Seq(Links) /\ list[t] # <<>>
    BY <1>2 DEF AddBookmark, BookmarkTypeOK
  <2>2. Head(list[t]) \in Links /\ Tail(list[t]) \in Seq(Links)
    BY <2>1
  <2>3. act'[t] \in {Nothing} \cup [do : {"insert", "delete"}, url : Links]
    BY <1>2, <2>2 DEF AddBookmark, BookmarkTypeOK
  <2>4. /\ act' = [act EXCEPT ![t] = act'[t]] /\ list' = [list EXCEPT ![t] = Tail(list[t])]
        /\ rows' = rows
    BY <1>2 DEF AddBookmark, BookmarkTypeOK
  <2> QED
    BY <2>2, <2>3, <2>4 DEF BookmarkTypeOK
<1>3. ASSUME NEW t \in Users, Insert(t) \/ Delete(t) PROVE BookmarkTypeOK'
  <2>1. act[t] \in [do : {"insert", "delete"}, url : Links]
    BY <1>3 DEF Insert, Delete, BookmarkTypeOK, Nothing
  <2>2. PICK u \in Links : act[t].url = u
    BY <2>1
  <2>3. rows' \in {[rows EXCEPT ![u] = @ + 1], [rows EXCEPT ![u] = 0]} /\ list' = list
    BY <1>3, <2>2 DEF Insert, Delete
  <2>4. rows' \in [Links -> Nat]
    BY <2>3 DEF BookmarkTypeOK
  <2>5. act' = [act EXCEPT ![t] = Nothing]
    BY <1>3 DEF Insert, Delete
  <2> QED
    BY <2>3, <2>4, <2>5 DEF BookmarkTypeOK
<1>7. ASSUME NEW t \in Users, StatementFails(t) PROVE BookmarkTypeOK'
  <2>1. <<>> \in Seq(Links)
    OBVIOUS
  <2> QED
    BY <1>7, <2>1 DEF StatementFails, BookmarkTypeOK
<1>4. ASSUME NEW t \in Users, SeedDefaults(t) PROVE BookmarkTypeOK'
  BY <1>4, AddAllType, BookmarkAssumption DEF SeedDefaults
<1>5. ASSUME NEW t \in Users, NEW u \in Links, ToggleBookmark(t, u) PROVE BookmarkTypeOK'
  <2>1. <<u>> \in Seq(Links)
    OBVIOUS
  <2> QED
    BY <1>5, <2>1, AddAllType, RemoveType DEF ToggleBookmark
<1>6. ASSUME NEW t \in Users, NEW u \in Links, NEW v \in Links, AddAll(t, <<u, v>>)
      PROVE  BookmarkTypeOK'
  <2>1. <<u, v>> \in Seq(Links)
    OBVIOUS
  <2> QED
    BY <1>6, <2>1, AddAllType
<1> QED
  BY <1>1, <1>2, <1>3, <1>4, <1>5, <1>6, <1>7, RemoveType DEF BookmarkNext

-----------------------------------------------------------------------------

LEMMA NothingInserts == ASSUME NEW u PROVE Nothing # [do |-> "insert", url |-> u]
<1>1. Nothing.do = "none" /\ [do |-> "insert", url |-> u].do = "insert"
  BY DEF Nothing
<1> QED
  BY <1>1

LEMMA InsertingFits ==
  ASSUME NEW u
  PROVE  /\ IsFiniteSet(Inserting(u)) /\ Cardinality(Inserting(u)) \in Nat
         /\ Cardinality(Users) \in Nat /\ Cardinality(Inserting(u)) <= Cardinality(Users)
<1>1. Inserting(u) \subseteq Users
  BY DEF Inserting
<1> QED
  BY <1>1, FS_Subset, FS_CardinalityType, BookmarkAssumption

LEMMA InsertingFitsNext ==
  ASSUME NEW u
  PROVE  /\ IsFiniteSet(Inserting(u)') /\ Cardinality(Inserting(u)') \in Nat
         /\ Cardinality(Inserting(u)') <= Cardinality(Users)
<1>1. Inserting(u)' \subseteq Users
  BY DEF Inserting
<1> QED
  BY <1>1, FS_Subset, FS_CardinalityType, BookmarkAssumption

\* What keeps the bound for one URL: nobody new starts an insertion, unless the
\* URL is not in the table.
LEMMA NoMoreInserting ==
  ASSUME NEW u \in Links, DuplicatesBounded, BookmarkTypeOK,
         Inserting(u)' \subseteq Inserting(u), rows'[u] \in {rows[u], 0}
  PROVE  rows'[u] + Cardinality(Inserting(u)') <= Cardinality(Users)
<1>1. Cardinality(Inserting(u)') <= Cardinality(Inserting(u))
  BY InsertingFits, FS_Subset
<1> QED
  BY <1>1, InsertingFits, InsertingFitsNext DEF DuplicatesBounded, BookmarkTypeOK

LEMMA BoundedStep ==
  ASSUME BookmarkTypeOK, DuplicatesBounded, [BookmarkNext]_bookmarkVars, NEW u \in Links
  PROVE  rows'[u] + Cardinality(Inserting(u)') <= Cardinality(Users)
<1> USE NothingInserts DEF BookmarkTypeOK
<1>1. CASE UNCHANGED bookmarkVars
  BY <1>1, NoMoreInserting DEF bookmarkVars, Inserting
<1>2. ASSUME NEW t \in Users, AddBookmark(t) PROVE rows'[u] + Cardinality(Inserting(u)') <= Cardinality(Users)
  <2>1. CASE rows[u] = 0
    <3>1. rows'[u] = 0
      BY <1>2, <2>1 DEF AddBookmark
    <3> QED
      BY <3>1, InsertingFitsNext
  <2>2. CASE rows[u] # 0
    <3>1. Inserting(u)' \subseteq Inserting(u)
      BY <1>2, <2>2 DEF AddBookmark, Bookmarked, Inserting
    <3> QED
      BY <1>2, <3>1, NoMoreInserting DEF AddBookmark
  <2> QED
    BY <2>1, <2>2
<1>3. ASSUME NEW t \in Users, Insert(t) PROVE rows'[u] + Cardinality(Inserting(u)') <= Cardinality(Users)
  <2>1. CASE act[t].url = u
    <3>1. t \in Inserting(u)
      <4>1. act[t] \in [do : {"insert", "delete"}, url : Links]
        BY <1>3 DEF Insert, Nothing
      <4> QED
        BY <1>3, <2>1, <4>1 DEF Insert, Inserting
    <3>2. Inserting(u)' = Inserting(u) \ {t}
      BY <1>3 DEF Insert, Inserting
    <3>3. Cardinality(Inserting(u)') = Cardinality(Inserting(u)) - 1
      BY <3>1, <3>2, InsertingFits, FS_RemoveElement
    <3>4. rows'[u] = rows[u] + 1
      BY <1>3, <2>1 DEF Insert
    <3> QED
      BY <3>3, <3>4, InsertingFits DEF DuplicatesBounded
  <2>2. CASE act[t].url # u
    <3>1. Inserting(u)' \subseteq Inserting(u) /\ rows'[u] = rows[u]
      BY <1>3, <2>2 DEF Insert, Inserting
    <3> QED
      BY <3>1, NoMoreInserting
  <2> QED
    BY <2>1, <2>2
<1>4. ASSUME NEW t \in Users, Delete(t) \/ StatementFails(t)
      PROVE  rows'[u] + Cardinality(Inserting(u)') <= Cardinality(Users)
  <2>1. Inserting(u)' \subseteq Inserting(u)
    BY <1>4 DEF Delete, StatementFails, Inserting
  <2>2. rows'[u] \in {rows[u], 0}
    BY <1>4 DEF Delete, StatementFails
  <2> QED
    BY <2>1, <2>2, NoMoreInserting
<1>5. ASSUME NEW t \in Users,
             SeedDefaults(t) \/ \E v \in Links : \/ RemoveBookmark(t, v) \/ ToggleBookmark(t, v)
                                               \/ \E w \in Links : AddAll(t, <<v, w>>)
      PROVE  rows'[u] + Cardinality(Inserting(u)') <= Cardinality(Users)
  <2>1. Inserting(u)' \subseteq Inserting(u) /\ rows'[u] = rows[u]
    BY <1>5 DEF SeedDefaults, RemoveBookmark, ToggleBookmark, AddAll, Inserting
  <2> QED
    BY <2>1, NoMoreInserting
<1> QED
  BY <1>1, <1>2, <1>3, <1>4, <1>5 DEF BookmarkNext

LEMMA BoundedInit == BookmarkInit => DuplicatesBounded
<1> SUFFICES ASSUME BookmarkInit, NEW u \in Links
             PROVE  rows[u] + Cardinality(Inserting(u)) <= Cardinality(Users)
  BY DEF DuplicatesBounded
<1>1. Inserting(u) = {}
  BY DEF BookmarkInit, Inserting, Nothing
<1>2. Cardinality(Inserting(u)) = 0 /\ rows[u] \in 0..1
  BY <1>1, FS_EmptySet DEF BookmarkInit
<1>3. Cardinality(Users) \in Nat /\ Cardinality(Users) # 0
  BY FS_CardinalityType, FS_EmptySet, BookmarkAssumption
<1> QED
  BY <1>2, <1>3

\* A URL is stored no more often than there are bridge threads, although its
\* look-up and its insertion are two transactions over a table without a
\* unique index: an insertion decided on counts as a row already.
THEOREM BookmarksBounded == BookmarkSpec => []DuplicatesBounded
<1>1. BookmarkTypeOK /\ DuplicatesBounded /\ [BookmarkNext]_bookmarkVars => DuplicatesBounded'
  BY BoundedStep DEF DuplicatesBounded
<1> QED
  BY <1>1, BookmarkInitType, BookmarkTypeStep, BoundedInit, PTL DEF BookmarkSpec

-----------------------------------------------------------------------------
(* A client that passes the version it has as the floor is never moved     *)
(* back nor to a manifest its owners did not sign, for any key rings, any  *)
(* names of keys in them and any thresholds above the number of lost keys. *)

KnownVersion(v) == \E i \in DOMAIN Ladder : Ladder[i] = v

VersionKept == KnownVersion(accepted.version)

LEMMA PlaceIsPosition ==
  ASSUME NEW v, KnownVersion(v)
  PROVE  Place(v) \in DOMAIN Ladder /\ Ladder[Place(v)] = v /\ Place(v) \in Nat
BY UpdateAssumption DEF KnownVersion, Place

\* The rules of precedence order the ladder as it came out.
LEMMA NotBelowIsLater ==
  ASSUME NEW v, NEW w, KnownVersion(v), KnownVersion(w), ~Below(v, w)
  PROVE  Place(v) >= Place(w)
<1>1. ~(Place(v) < Place(w))
  BY PlaceIsPosition, UpdateAssumption
<1> QED
  BY <1>1, PlaceIsPosition

\* More keys signed than are lost: one of the signatures is its owner's, under
\* however many ids the ring names a key.
LEMMA EnoughKeysAreGenuine ==
  ASSUME NEW offer, NEW ring, NEW threshold \in Nat, threshold > Cardinality(Lost),
         Cardinality(KeysThatSigned(offer, ring)) >= threshold
  PROVE  Genuine(offer)
<1> SUFFICES ASSUME {sig.by : sig \in offer.sigs} \subseteq Lost PROVE FALSE
  BY DEF Genuine
<1>1. KeysThatSigned(offer, ring) \subseteq Lost
  <2> SUFFICES ASSUME NEW id \in DOMAIN ring, [id |-> id, by |-> ring[id]] \in offer.sigs
               PROVE  ring[id] \in Lost
    BY DEF KeysThatSigned
  <2>1. [id |-> id, by |-> ring[id]].by = ring[id]
    OBVIOUS
  <2> QED
    BY <2>1
<1>2. /\ Cardinality(KeysThatSigned(offer, ring)) <= Cardinality(Lost)
      /\ Cardinality(KeysThatSigned(offer, ring)) \in Nat /\ Cardinality(Lost) \in Nat
  BY <1>1, FS_Subset, FS_CardinalityType, UpdateAssumption
<1> QED
  BY <1>2

LEMMA AcceptedIsTrusted ==
  ASSUME VersionKept, NEW offer \in Offers, NEW ring \in Rings, NEW threshold \in Thresholds,
         NEW floor \in {accepted.version, NoVersion},
         VerifyManifest(offer, ring, threshold, floor), accepted' # accepted
  PROVE  /\ accepted' = offer /\ KnownVersion(offer.version)
         /\ Genuine(offer) /\ offer.expires > today
         /\ Place(offer.version) >= Place(accepted.version)
<1>1. /\ accepted' = offer /\ floor = accepted.version
      /\ Readable(ring, threshold) /\ Verified(offer, ring, floor, threshold)
  BY DEF VerifyManifest
<1>2. threshold \in Nat /\ threshold > Cardinality(Lost)
  BY <1>1, UpdateAssumption DEF Readable
<1>3. Genuine(offer)
  BY <1>1, <1>2, EnoughKeysAreGenuine DEF Verified
<1>4. KnownVersion(offer.version)
  BY <1>1, UpdateAssumption DEF Verified, KnownVersion
<1>5. Place(offer.version) >= Place(accepted.version)
  BY <1>1, <1>4, NotBelowIsLater DEF Verified, VersionKept
<1> QED
  BY <1>1, <1>3, <1>4, <1>5 DEF Verified

\* A client moves only to a manifest that its owners signed, that has not
\* expired and that did not come out before the one it has (update_verifier.py).
THEOREM UpdatesAreSafe == UpdateSpec => UpdatesAreTrusted
<1>1. UpdateInit => VersionKept
  BY UpdateAssumption DEF UpdateInit, VersionKept, KnownVersion
<1>2. VersionKept /\ [UpdateNext]_updateVars => VersionKept'
  BY AcceptedIsTrusted DEF UpdateNext, NextDay, updateVars, VersionKept
<1>3. VersionKept /\ [UpdateNext]_updateVars =>
        [accepted' # accepted =>
           /\ Genuine(accepted')
           /\ accepted'.expires > today
           /\ Place(accepted'.version) >= Place(accepted.version)]_accepted
  <2> SUFFICES ASSUME VersionKept, [UpdateNext]_updateVars, accepted' # accepted
               PROVE  /\ Genuine(accepted')
                      /\ accepted'.expires > today
                      /\ Place(accepted'.version) >= Place(accepted.version)
    OBVIOUS
  <2>1. \E offer \in Offers, ring \in Rings, threshold \in Thresholds,
           floor \in {accepted.version, NoVersion} :
          VerifyManifest(offer, ring, threshold, floor)
    BY DEF UpdateNext, NextDay, updateVars
  <2> QED
    BY <2>1, AcceptedIsTrusted
<1> QED
  BY <1>1, <1>2, <1>3, PTL DEF UpdateSpec, UpdatesAreTrusted
-----------------------------------------------------------------------------
(* The action contract, for any bounds on the edits of the schema and on   *)
(* the faults of an action.                                                *)

\* What an allowed action went through, one field at a time.
LEMMA AllowedFieldIsSound ==
  ASSUME NEW rules \in [loaded : BOOLEAN, required : SUBSET Fields],
         NEW door \in {"mapping", "object"},
         NEW a \in [Fields -> Values], NEW f \in Fields, a[f] \in ValuesOf(f),
         Decided(rules, door, a) = "allow"
  PROVE  \/ a[f] = "conforming"
         \/ a[f] = "empty" /\ f = "canonical_parameters"
         \/ /\ Missing(a[f]) /\ f \notin rules.required
            /\ f \notin {"session_id", "scope", "document_generation", "canonical_parameters"}
<1>1. ~DeniedBefore(a) /\ ~Violates(rules, a)
  BY DEF Decided
<1>2. f \in FieldsJudged(rules)
  BY DEF FieldsJudged
<1>3. CASE Missing(a[f])
  <2>1. f \notin rules.required
    BY <1>1, <1>2, <1>3 DEF Violates, Missing
  <2>2. f \notin {"session_id", "scope", "document_generation", "canonical_parameters"}
    BY <1>1, <1>3 DEF DeniedBefore, Missing
  <2> QED
    BY <1>3, <2>1, <2>2
<1>4. CASE ~Missing(a[f])
  <2>1. ~FieldViolation(f, a[f])
    BY <1>1, <1>2, <1>4 DEF Violates, Missing
  <2>2. a[f] \in {"empty", "malformed", "conforming"}
    BY <1>4, <2>1 DEF Values, Missing, FieldViolation
  <2>3. CASE a[f] = "empty"
    <3>1. f \in {"canonical_parameters", "expires_at"}
      BY <2>1, <2>3 DEF FieldViolation, MinLength, Ranged, Fields
    <3> QED
      BY <1>1, <1>4, <2>3, <3>1 DEF DeniedBefore
  <2>4. CASE a[f] = "malformed"
    <3>1. f \in {"scope", "expires_at", "policy_version"}
      BY <2>1, <2>4 DEF FieldViolation, ValuesOf, Ranged
    <3> QED
      BY <1>1, <1>4, <2>4, <3>1 DEF DeniedBefore
  <2> QED
    BY <2>2, <2>3, <2>4
<1> QED
  BY <1>3, <1>4

\* A broker exists only of files that loaded, and a verdict is about the action
\* that is still submitted and the schema the broker was made with.
ContractInv ==
  /\ ContractTypeOK
  /\ \A f \in Fields : submitted.fields[f] \in ValuesOf(f)
  /\ contract.loaded => ~damaged
  /\ submitted.door # "none" => contract.loaded
  /\ verdict # "none" =>
       /\ submitted.door # "none"
       /\ verdict = Decided(contract, submitted.door, submitted.fields)

LEMMA NoActionConforms ==
  /\ NoAction \in [door : {"none", "mapping", "object"}, fields : [Fields -> Values]]
  /\ \A f \in Fields : NoAction.fields[f] \in ValuesOf(f)
BY DEF NoAction, Values, ValuesOf

LEMMA ContractInvInit == ContractInit => ContractInv
<1> SUFFICES ASSUME ContractInit PROVE ContractInv
  OBVIOUS
<1>1. /\ contract.loaded = FALSE /\ contract \in [loaded : BOOLEAN, required : SUBSET Fields]
      /\ submitted.door = "none"
  BY DEF ContractInit, NoContract, NoAction
<1> QED
  BY <1>1, NoActionConforms DEF ContractInit, ContractInv, ContractTypeOK

LEMMA ContractInvStep == ContractInv /\ [ContractNext]_decisionVars => ContractInv'
<1> SUFFICES ASSUME ContractInv, [ContractNext]_decisionVars PROVE ContractInv'
  OBVIOUS
<1> USE DEF ContractInv, ContractTypeOK
<1>1. CASE UNCHANGED decisionVars
  BY <1>1 DEF decisionVars
<1>2. ASSUME NEW f \in Fields, Loosen(f) PROVE ContractInv'
  BY <1>2 DEF Loosen
<1>3. ASSUME NEW f \in Fields, Spoil(f) PROVE ContractInv'
  <2>1. PICK v \in ValuesOf(f) : submitted' = [submitted EXCEPT !.fields[f] = v]
    BY <1>3 DEF Spoil
  <2>2. v \in Values
    BY <2>1 DEF ValuesOf
  <2>3. /\ submitted'.door = submitted.door
        /\ submitted'.fields = [submitted.fields EXCEPT ![f] = v]
        /\ submitted' \in [door : {"none", "mapping", "object"}, fields : [Fields -> Values]]
    BY <2>1, <2>2
  <2>4. \A g \in Fields : submitted'.fields[g] \in ValuesOf(g)
    BY <2>1, <2>3
  <2> QED
    BY <1>3, <2>3, <2>4 DEF Spoil
<1>4. CASE DamageContract
  BY <1>4 DEF DamageContract
<1>5. CASE LoadContract
  BY <1>5 DEF LoadContract
<1>6. CASE Submit
  <2>1. PICK door \in {"mapping", "object"} : submitted' = [NoAction EXCEPT !.door = door]
    BY <1>6 DEF Submit
  <2>2. /\ submitted'.door = door /\ submitted'.fields = NoAction.fields
        /\ submitted' \in [door : {"none", "mapping", "object"}, fields : [Fields -> Values]]
    BY <2>1, NoActionConforms
  <2>3. verdict = "none"
    BY <1>6 DEF Submit, NoAction
  <2> QED
    BY <1>6, <2>2, <2>3, NoActionConforms DEF Submit
<1>7. CASE Decide
  BY <1>7 DEF Decide, Decided
<1>8. CASE NextAction
  BY <1>8, NoActionConforms DEF NextAction
<1> QED
  BY <1>1, <1>2, <1>3, <1>4, <1>5, <1>6, <1>7, <1>8 DEF ContractNext

\* No action with a value its field's rules refuse is allowed, through either
\* door of the broker and however much of the required list was edited away
\* (PolicyBroker.decide and evaluate, ActionContract.violation).
THEOREM AllowedIsSound == ContractSpec => []DefectsAreDenied
<1>1. ContractInv => DefectsAreDenied
  <2> SUFFICES ASSUME ContractInv, verdict = "allow"
               PROVE  /\ ~damaged
                      /\ \A f \in Fields :
                           LET v == submitted.fields[f] IN
                           \/ v = "conforming"
                           \/ v = "empty" /\ f = "canonical_parameters"
                           \/ /\ Missing(v) /\ f \notin contract.required
                              /\ f \notin {"session_id", "scope", "document_generation",
                                           "canonical_parameters"}
    BY DEF DefectsAreDenied
  <2>1. /\ submitted.door \in {"mapping", "object"} /\ submitted.fields \in [Fields -> Values]
        /\ Decided(contract, submitted.door, submitted.fields) = "allow" /\ ~damaged
    BY DEF ContractInv, ContractTypeOK
  <2> QED
    BY <2>1, AllowedFieldIsSound DEF ContractInv, ContractTypeOK
<1> QED
  BY <1>1, ContractInvInit, ContractInvStep, PTL DEF ContractSpec
-----------------------------------------------------------------------------
(* config.json and the cached threat list, for any numbers of setters, of  *)
(* readers, of values and of lists.                                        *)

LEMMA BrokenIsNoConfig == Broken \notin Configs
<1> SUFFICES ASSUME Broken \in Configs PROVE FALSE
  OBVIOUS
<1>1. DOMAIN Broken = {"broken"} /\ DOMAIN Broken = {"engine", "wallpaper"}
  BY DEF Broken, Configs
<1>2. "engine" \in {"broken"}
  BY <1>1
<1> QED
  BY <1>2

\* Nobody reads a list that is being put in place: it changes only while no
\* reader has it open.
FeedInv ==
  /\ refresh \in {"none", "fetch", "replace", "done"}
  /\ reader \in [Readers -> {"none", "open"}]
  /\ {cache, blocked, fetched} \subseteq Lists \cup {NoList}
  /\ read \in [Readers -> Lists \cup {NoList}]
  /\ \A r \in Readers : reader[r] = "open" => read[r] = cache

LEMMA FeedInvInit == FilesInit => FeedInv
BY DEF FilesInit, FeedInv

LEMMA FeedInvStep == FeedInv /\ [FilesNext]_filesVars => FeedInv'
<1> SUFFICES ASSUME FeedInv, [FilesNext]_filesVars PROVE FeedInv'
  OBVIOUS
<1> USE DEF FeedInv
<1>1. CASE UNCHANGED feedVars
  BY <1>1 DEF feedVars
<1>2. CASE FetchFeed
  BY <1>2 DEF FetchFeed
<1>3. CASE ReplaceCache
  BY <1>3 DEF ReplaceCache
<1>4. ASSUME NEW r \in Readers, OpenCache(r) PROVE FeedInv'
  BY <1>4 DEF OpenCache
<1>5. ASSUME NEW r \in Readers, ReadCache(r) PROVE FeedInv'
  <2>1. read' = [read EXCEPT ![r] = cache]
    BY <1>5 DEF ReadCache
  <2> QED
    BY <1>5, <2>1 DEF ReadCache
<1>6. CASE RestartFiles
  BY <1>6 DEF RestartFiles
<1>7. UNCHANGED feedVars \/ FetchFeed \/ ReplaceCache \/ RestartFiles
        \/ \E r \in Readers : OpenCache(r) \/ ReadCache(r)
  BY DEF FilesNext, filesVars, SetSearchEngine, SetWallpaper, SetField, OpenConfig,
         DumpConfig, CloseConfig
<1> QED
  BY <1>1, <1>2, <1>3, <1>4, <1>5, <1>6, <1>7

ConfigTypeOK ==
  /\ config \in Configs /\ configFile \in Configs \cup {Broken}
  /\ setter \in [Setters -> {"none", "open", "dump", "close"}]
  /\ copy \in [Setters -> Configs]
  /\ overlapped \in BOOLEAN /\ cutShort \in BOOLEAN

\* A change of the configuration that the file does not have yet is one that a
\* setter has still to write or has copied as it is.
ChangeIsOnItsWay ==
  \/ \E t \in Setters : setter[t] \in {"open", "dump"}
  \/ \E t \in Setters : setter[t] = "close" /\ copy[t] = config
  \/ (\A t \in Setters : ~Writing(t)) /\ configFile = config

\* The file is broken exactly while its one writer is at it.
OneWriter ==
  /\ \A s, t \in Setters : Writing(s) /\ Writing(t) => s = t
  /\ configFile = Broken <=> \E t \in Setters : Writing(t)

ConfigInv == ConfigTypeOK /\ (~overlapped /\ ~cutShort => OneWriter /\ ChangeIsOnItsWay)

LEMMA ConfigInvInit == FilesInit => ConfigInv
BY FilesAssumption, BrokenIsNoConfig
   DEF FilesInit, ConfigInv, ConfigTypeOK, OneWriter, ChangeIsOnItsWay, Writing

LEMMA SetFieldKeeps ==
  ASSUME ConfigInv, NEW t \in Setters, NEW c \in Configs, SetField(t, c)
  PROVE  ConfigInv'
<1>1. ConfigTypeOK'
  BY DEF SetField, ConfigInv, ConfigTypeOK
<1>2. ChangeIsOnItsWay'
  BY DEF SetField, ConfigInv, ConfigTypeOK, ChangeIsOnItsWay
<1>3. \A s \in Setters : Writing(s)' <=> Writing(s)
  BY DEF SetField, ConfigInv, ConfigTypeOK, Writing
<1> QED
  BY <1>1, <1>2, <1>3 DEF SetField, ConfigInv, OneWriter

LEMMA OpenConfigKeeps ==
  ASSUME ConfigInv, NEW t \in Setters, OpenConfig(t)
  PROVE  ConfigInv'
<1>1. ConfigTypeOK'
  BY DEF OpenConfig, ConfigInv, ConfigTypeOK
<1>2. \A s \in Setters : Writing(s)' <=> s = t \/ Writing(s)
  BY DEF OpenConfig, ConfigInv, ConfigTypeOK, Writing
<1>3. setter'[t] = "dump"
  BY DEF OpenConfig, ConfigInv, ConfigTypeOK
<1>4. ~overlapped' => \A s \in Setters \ {t} : ~Writing(s)
  BY DEF OpenConfig
<1> QED
  BY <1>1, <1>2, <1>3, <1>4 DEF OpenConfig, ConfigInv, OneWriter, ChangeIsOnItsWay

LEMMA DumpConfigKeeps ==
  ASSUME ConfigInv, NEW t \in Setters, DumpConfig(t)
  PROVE  ConfigInv'
<1>1. ConfigTypeOK'
  BY DEF DumpConfig, ConfigInv, ConfigTypeOK
<1>2. \A s \in Setters : Writing(s)' <=> Writing(s)
  BY DEF DumpConfig, ConfigInv, ConfigTypeOK, Writing
<1>3. setter'[t] = "close" /\ copy'[t] = config'
  BY DEF DumpConfig, ConfigInv, ConfigTypeOK
<1> QED
  BY <1>1, <1>2, <1>3 DEF DumpConfig, ConfigInv, OneWriter, ChangeIsOnItsWay

LEMMA CloseConfigKeeps ==
  ASSUME ConfigInv, NEW t \in Setters, CloseConfig(t)
  PROVE  ConfigInv'
<1>1. ConfigTypeOK'
  BY DEF CloseConfig, ConfigInv, ConfigTypeOK
<1> SUFFICES ASSUME ~overlapped, ~cutShort PROVE OneWriter' /\ ChangeIsOnItsWay'
  BY <1>1 DEF CloseConfig, ConfigInv
<1>2. OneWriter /\ ChangeIsOnItsWay /\ Writing(t)
  BY DEF CloseConfig, ConfigInv, Writing
<1>3. \A s \in Setters : ~Writing(s)'
  BY <1>2 DEF CloseConfig, ConfigInv, ConfigTypeOK, OneWriter, Writing
<1>4. configFile' = copy[t] /\ copy[t] \in Configs
  BY <1>2 DEF CloseConfig, OneWriter, ConfigInv, ConfigTypeOK
<1>5. OneWriter'
  BY <1>3, <1>4, BrokenIsNoConfig DEF OneWriter
<1>6. CASE \E s \in Setters : setter[s] = "open"
  BY <1>5, <1>6 DEF CloseConfig, ConfigInv, ConfigTypeOK, ChangeIsOnItsWay
<1>7. CASE \A s \in Setters : setter[s] # "open"
  <2>1. copy[t] = config
    BY <1>2, <1>7 DEF OneWriter, ChangeIsOnItsWay, Writing, CloseConfig
  <2> QED
    BY <1>3, <1>4, <1>5, <2>1 DEF CloseConfig, ChangeIsOnItsWay
<1> QED
  BY <1>5, <1>6, <1>7

LEMMA RestartFilesKeeps ==
  ASSUME ConfigInv, RestartFiles
  PROVE  ConfigInv'
<1>1. LoadedConfig \in Configs
  BY FilesAssumption DEF LoadedConfig, ConfigInv, ConfigTypeOK
<1>2. ConfigTypeOK'
  BY <1>1 DEF RestartFiles, ConfigInv, ConfigTypeOK
<1>3. \A t \in Setters : ~Writing(t)'
  BY DEF RestartFiles, Writing
<1> SUFFICES ASSUME ~overlapped', ~cutShort' PROVE OneWriter' /\ ChangeIsOnItsWay'
  BY <1>2 DEF ConfigInv
<1>4. OneWriter /\ \A t \in Setters : ~Writing(t)
  BY DEF RestartFiles, ConfigInv
<1>5. configFile # Broken /\ config' = configFile'
  BY <1>4 DEF OneWriter, RestartFiles, LoadedConfig
<1> QED
  BY <1>3, <1>5 DEF OneWriter, ChangeIsOnItsWay, RestartFiles

LEMMA ConfigInvStep == ConfigInv /\ [FilesNext]_filesVars => ConfigInv'
<1> SUFFICES ASSUME ConfigInv, [FilesNext]_filesVars PROVE ConfigInv'
  OBVIOUS
<1>1. CASE UNCHANGED configVars
  BY <1>1 DEF configVars, ConfigInv, ConfigTypeOK, OneWriter, ChangeIsOnItsWay, Writing
<1>2. ASSUME NEW t \in Setters, SetSearchEngine(t) \/ SetWallpaper(t) PROVE ConfigInv'
  <2>1. PICK c \in Configs : SetField(t, c)
    BY <1>2 DEF SetSearchEngine, SetWallpaper, ConfigInv, ConfigTypeOK, Configs
  <2> QED
    BY <2>1, SetFieldKeeps
<1>3. UNCHANGED configVars \/ RestartFiles
        \/ \E t \in Setters : \/ SetSearchEngine(t) \/ SetWallpaper(t)
                              \/ OpenConfig(t) \/ DumpConfig(t) \/ CloseConfig(t)
  BY DEF FilesNext, filesVars, FetchFeed, ReplaceCache, OpenCache, ReadCache
<1> QED
  BY <1>1, <1>2, <1>3, OpenConfigKeeps, DumpConfigKeeps, CloseConfigKeeps, RestartFilesKeeps

\* Without a second writer and without an end of the process inside a write,
\* config.json is what is in memory whenever no setter is at work, although
\* setters change an object that another is writing (config.py); and no reader
\* ever gets part of a threat list, or parts of two (threat_feed.py).
THEOREM ShellFilesKept == FilesSpec => []FilesKept
<1>1. FeedInv /\ ConfigInv => FilesKept
  <2> SUFFICES ASSUME FeedInv, ConfigInv PROVE FilesKept
    OBVIOUS
  <2>1. Broken \notin {blocked} \cup {read[r] : r \in Readers}
    BY FilesAssumption DEF FeedInv
  <2>2. (\A t \in Setters : setter[t] = "none") /\ ~overlapped /\ ~cutShort
          => configFile = config
    BY DEF ConfigInv, ChangeIsOnItsWay
  <2> QED
    BY <2>1, <2>2 DEF FilesKept
<1> QED
  BY <1>1, FeedInvInit, FeedInvStep, ConfigInvInit, ConfigInvStep, PTL DEF FilesSpec
-----------------------------------------------------------------------------
(* The native layer of the shell's window, for any number of threads that  *)
(* wait for its control.                                                   *)

\* The setup attaches the core-level gate at most once, and not at all where
\* pywebview's own handler was replaced.
GateInv ==
  /\ gate \in {"class", "own", "none"} /\ attached \in [Parts -> Nat]
  /\ ~ran => setup = "none"
  /\ ran => setup # "none"
  /\ setup \in {"none", "interception"} \/ gate = "class" => attached["newWindow"] = 0
  /\ attached["newWindow"] \in {0, 1}
  /\ NewWindowGated

\* The switch of the channel is off from the request of a document the policy
\* acted on until a request without a host, whatever fails in between.
ChannelInv ==
  /\ webMessage \in BOOLEAN
  /\ {doc, before} \subseteq
       [from : {"local", "remote"}, channel : BOOLEAN, policed : BOOLEAN, hostless : BOOLEAN]
  /\ doc.policed /\ ~doc.hostless => ~webMessage
  /\ ChannelLagsByOne

LEMMA GateInvInit == NativeInit => GateInv
<1> SUFFICES ASSUME NativeInit PROVE GateInv
  OBVIOUS
<1>1. NewWindowGated
  BY DEF NativeInit, NewWindowGated
<1> QED
  BY <1>1 DEF NativeInit, GateInv, Parts, CoreParts

LEMMA ChannelInvInit == NativeInit => ChannelInv
<1> SUFFICES ASSUME NativeInit PROVE ChannelInv
  OBVIOUS
<1>1. /\ doc = [from |-> "local", channel |-> TRUE, policed |-> FALSE, hostless |-> FALSE]
      /\ before = doc /\ webMessage = TRUE
  BY DEF NativeInit
<1> QED
  BY <1>1 DEF ChannelInv, ChannelLagsByOne

\* A step of the setup attaches a wanted part once more or not, and no other.
LEMMA AttachCoreAdds ==
  ASSUME attached \in [Parts -> Nat], NEW wanted \in SUBSET Parts, AttachCore(wanted)
  PROVE  /\ attached' \in [Parts -> Nat]
         /\ \A p \in wanted : attached'[p] \in {attached[p], attached[p] + 1}
         /\ \A p \in Parts \ wanted : attached'[p] = attached[p]
<1>1. PICK ok \in [wanted -> BOOLEAN] : Attach(wanted, ok)
  BY DEF AttachCore
<1>2. attached' = [p \in Parts |-> IF p \in wanted /\ ok[p] THEN attached[p] + 1
                                   ELSE attached[p]]
  BY <1>1 DEF Attach
<1> QED
  BY <1>2

LEMMA SetupAttaches ==
  ASSUME GateInv, SetupStep
  PROVE  /\ attached' \in [Parts -> Nat]
         /\ setup \in {"interception", "crashListener", "hardening", "policy"}
         /\ setup' \in {"crashListener", "hardening", "policy", "done"}
         /\ setup # "interception" \/ gate = "class" =>
              attached'["newWindow"] = attached["newWindow"]
         /\ attached'["newWindow"] \in {attached["newWindow"], attached["newWindow"] + 1}
         /\ UNCHANGED <<startVars, pageVars>>
<1>1. /\ attached \in [Parts -> Nat]
      /\ "newWindow" \in Parts
  BY DEF GateInv, Parts, CoreParts
<1>2. CASE InstallInterception
  <2>1. InterceptionParts \subseteq Parts \ {"requestPolicy"}
    BY DEF InterceptionParts, Parts, CoreParts
  <2>2. gate = "class" => "newWindow" \notin InterceptionParts
    BY DEF InterceptionParts
  <2>3. /\ attached' \in [Parts -> Nat]
        /\ \A p \in InterceptionParts : attached'[p] \in {attached[p], attached[p] + 1}
        /\ \A p \in Parts \ InterceptionParts : attached'[p] = attached[p]
    BY <1>1, <1>2, <2>1, AttachCoreAdds DEF InstallInterception
  <2> QED
    BY <1>1, <1>2, <2>1, <2>2, <2>3 DEF InstallInterception
<1>3. CASE InstallCrashListener
  <2>1. /\ {"crashListener"} \subseteq Parts
        /\ "newWindow" \notin {"crashListener"} /\ "requestPolicy" \notin {"crashListener"}
    BY DEF Parts, CoreParts
  <2>2. attached' \in [Parts -> Nat] /\ \A p \in Parts \ {"crashListener"} : attached'[p] = attached[p]
    BY <1>1, <1>3, <2>1, AttachCoreAdds DEF InstallCrashListener
  <2> QED
    BY <1>1, <1>3, <2>1, <2>2 DEF InstallCrashListener
<1>4. CASE WindowHardening
  <2>1. /\ {"settings", "enhancedSecurity"} \subseteq Parts
        /\ {"newWindow", "requestPolicy"} \cap {"settings", "enhancedSecurity"} = {}
    BY DEF Parts, CoreParts
  <2>2. /\ attached' \in [Parts -> Nat]
        /\ \A p \in Parts \ {"settings", "enhancedSecurity"} : attached'[p] = attached[p]
    BY <1>1, <1>4, <2>1, AttachCoreAdds DEF WindowHardening
  <2> QED
    BY <1>1, <1>4, <2>1, <2>2 DEF WindowHardening
<1>5. CASE ApplyRequestPolicy
  <2>1. attached' \in {attached, [attached EXCEPT !["requestPolicy"] = @ + 1]}
    BY <1>5 DEF ApplyRequestPolicy
  <2> QED
    BY <1>1, <1>5, <2>1 DEF ApplyRequestPolicy
<1> QED
  BY <1>2, <1>3, <1>4, <1>5 DEF SetupStep

LEMMA GateInvStep == GateInv /\ [NativeNext]_nativeVars => GateInv'
<1> SUFFICES ASSUME GateInv, [NativeNext]_nativeVars PROVE GateInv'
  OBVIOUS
<1>1. CASE UNCHANGED <<gate, ran, setup, attached, opened>>
  BY <1>1 DEF GateInv, NewWindowGated
<1>2. CASE OnCoreReady
  <2>1. ran' = TRUE /\ setup' = IF ran THEN setup ELSE "interception"
    BY <1>2 DEF OnCoreReady
  <2>2. ~ran => setup = "none"
    BY DEF GateInv
  <2>3. gate' = gate /\ attached' = attached /\ opened' = opened
    BY <1>2 DEF OnCoreReady, pageVars
  <2> QED
    BY <2>1, <2>2, <2>3 DEF GateInv, NewWindowGated
<1>3. CASE SetupStep
  <2>1. gate' = gate /\ ran' = ran /\ opened' = opened
    BY <1>3, SetupAttaches DEF startVars, pageVars
  <2>2. ran
    BY <1>3, SetupAttaches DEF GateInv
  <2> QED
    BY <1>3, <2>1, <2>2, SetupAttaches DEF GateInv, NewWindowGated
<1>4. ASSUME NEW safe \in BOOLEAN, NewWindowRequested(safe) PROVE GateInv'
  <2>1. UNCHANGED <<gate, ran, setup, attached>>
    BY <1>4 DEF NewWindowRequested, startVars
  <2>2. /\ opened'.safe = safe
        /\ opened'.loads = (IF gate = "own" \/ (gate = "class" /\ safe) THEN 1 ELSE 0)
                             + (IF safe THEN attached["newWindow"] ELSE 0)
    BY <1>4 DEF NewWindowRequested
  <2>3. gate # "own" => opened'.loads <= (IF safe THEN 1 ELSE 0)
    BY <2>2 DEF GateInv
  <2>4. NewWindowGated'
    BY <2>1, <2>2, <2>3 DEF NewWindowGated
  <2> QED
    BY <2>1, <2>4 DEF GateInv
<1>5. \/ UNCHANGED <<gate, ran, setup, attached, opened>> \/ OnCoreReady \/ SetupStep
      \/ \E safe \in BOOLEAN : NewWindowRequested(safe)
  BY DEF NativeNext, nativeVars, startVars, pageVars, CreateControl, RaiseReady, Subscribe,
         StopPolling, InstallWatchdog, LoadDocument, LoadResource
<1> QED
  BY <1>1, <1>2, <1>3, <1>4, <1>5

\* What a request does to the switch.
LEMMA RequestSets ==
  ASSUME webMessage \in BOOLEAN, NEW host \in BOOLEAN, NEW outcome \in Outcomes,
         OnRequest(host, outcome)
  PROVE  /\ webMessage' \in BOOLEAN
         /\ outcome = "set" /\ host => ~webMessage'
         /\ outcome = "closed" => ~webMessage'
         /\ outcome = "kept" => webMessage' = webMessage
BY DEF OnRequest, Outcomes

LEMMA ChannelInvStep == ChannelInv /\ [NativeNext]_nativeVars => ChannelInv'
<1> SUFFICES ASSUME ChannelInv, [NativeNext]_nativeVars PROVE ChannelInv'
  OBVIOUS
<1> DEFINE Documents ==
      [from : {"local", "remote"}, channel : BOOLEAN, policed : BOOLEAN, hostless : BOOLEAN]
<1>1. CASE UNCHANGED <<webMessage, doc, before>>
  BY <1>1 DEF ChannelInv, ChannelLagsByOne
<1>2. ASSUME NEW from \in {"local", "remote"}, NEW host \in BOOLEAN,
             NEW outcome \in Outcomes, LoadDocument(from, host, outcome)
      PROVE  ChannelInv'
  <2>1. /\ doc' = [from |-> from, channel |-> webMessage, policed |-> outcome # "kept",
                   hostless |-> outcome = "set" /\ ~host]
        /\ before' = doc /\ OnRequest(host, outcome)
    BY <1>2 DEF LoadDocument
  <2>2. webMessage \in BOOLEAN /\ doc \in Documents
    BY DEF ChannelInv
  <2>3. doc' \in Documents /\ before' \in Documents
    BY <2>1, <2>2
  <2>4. doc'.policed /\ ~doc'.hostless => ~webMessage'
    BY <2>1, <2>2, RequestSets DEF Outcomes
  <2>5. ChannelLagsByOne'
    BY <2>1 DEF ChannelInv, ChannelLagsByOne
  <2> QED
    BY <2>1, <2>2, <2>3, <2>4, <2>5, RequestSets DEF ChannelInv
<1>3. ASSUME NEW host \in BOOLEAN, NEW outcome \in Outcomes, LoadResource(host, outcome)
      PROVE  ChannelInv'
  <2>1. /\ doc' = [doc EXCEPT !.hostless = @ \/ (outcome = "set" /\ ~host)]
        /\ before' = before /\ OnRequest(host, outcome)
    BY <1>3 DEF LoadResource
  <2>2. webMessage \in BOOLEAN /\ doc \in Documents /\ before \in Documents
    BY DEF ChannelInv
  <2>3. /\ doc' \in Documents
        /\ doc'.from = doc.from /\ doc'.channel = doc.channel /\ doc'.policed = doc.policed
        /\ doc'.hostless = (doc.hostless \/ (outcome = "set" /\ ~host))
    BY <2>1, <2>2
  <2>4. doc'.policed /\ ~doc'.hostless => ~webMessage'
    BY <2>1, <2>2, <2>3, RequestSets DEF ChannelInv, Outcomes
  <2>5. ChannelLagsByOne'
    BY <2>1, <2>3 DEF ChannelInv, ChannelLagsByOne
  <2> QED
    BY <2>1, <2>2, <2>3, <2>4, <2>5, RequestSets DEF ChannelInv
<1>4. CASE SetupStep
  BY <1>1, <1>4 DEF SetupStep, InstallInterception, InstallCrashListener, WindowHardening,
                    ApplyRequestPolicy, pageVars
<1>5. \/ UNCHANGED <<webMessage, doc, before>> \/ SetupStep
      \/ \E host \in BOOLEAN, outcome \in Outcomes :
           \/ \E from \in {"local", "remote"} : LoadDocument(from, host, outcome)
           \/ LoadResource(host, outcome)
  BY DEF NativeNext, nativeVars, pageVars, CreateControl, RaiseReady, Subscribe,
         StopPolling, OnCoreReady, InstallWatchdog, NewWindowRequested
<1> QED
  BY <1>1, <1>2, <1>3, <1>4, <1>5

\* Two threads subscribe one handler to an event that calls both, and two gates
\* may answer one request: still no new window's safe URL is loaded twice and
\* no unsafe one ever.  The message channel is closed to a remote document that
\* follows one the request policy acted on, whatever fails in the policy, as
\* long as every request it acted on meanwhile had a host
\* (native_interception.py, native_hardening.py).
THEOREM PagesAreConfined == NativeSpec => []PagesConfined
<1>1. GateInv /\ ChannelInv => PagesConfined
  BY DEF GateInv, ChannelInv, PagesConfined
<1> QED
  BY <1>1, GateInvInit, ChannelInvInit, GateInvStep, ChannelInvStep, PTL DEF NativeSpec
-----------------------------------------------------------------------------
(* The review package, for any trees, rules and edits.                     *)

\* What a build has copied is a part of the tree.
MadeOK(made) ==
  /\ DOMAIN made \subseteq Paths /\ \A f \in DOMAIN made : made[f] \in Contents
  /\ made = [f \in DOMAIN made |-> made[f]]

BuildOK ==
  \/ build = NoBuild
  \/ /\ build \in [stage : {"copy", "clean"}, left : Seq(Paths), made : {build.made}, edited : BOOLEAN]
     /\ MadeOK(build.made)

\* The files the package holds.
Held == [f \in {g \in Paths : package[g] # "absent"} |-> package[f]]

\* A build over a package that nobody edited meanwhile has made what the package
\* has at the paths it copied, and its manifest is written before others go.
PackageInv ==
  /\ source \in [Paths -> Contents \cup {"absent"}]
  /\ package \in [Paths -> Contents \cup {"edited", "absent"}]
  /\ BuildOK
  /\ build # NoBuild =>
       /\ touched
       /\ ~build.edited => \A f \in DOMAIN build.made : package[f] = build.made[f]
       /\ build.stage = "clean" => manifest = build.made
  /\ ~touched => Held = manifest

LEMMA NoBuildFields ==
  /\ NoBuild.stage = "none" /\ NoBuild.edited = FALSE /\ NoBuild.made = <<>>
  /\ NoBuild.left = <<>>
BY DEF NoBuild

LEMMA PackageInvInit == PackageInit => PackageInv
BY DEF PackageInit, PackageInv, BuildOK, Contents

LEMMA EditPackageKeeps ==
  ASSUME PackageInv, NEW f \in Paths, EditPackage(f)
  PROVE  PackageInv'
<1>1. package' \in [Paths -> Contents \cup {"edited", "absent"}]
  BY DEF EditPackage, PackageInv
<1>2. CASE build = NoBuild
  BY <1>1, <1>2 DEF EditPackage, PackageInv, BuildOK
<1>3. CASE build # NoBuild
  <2>1. /\ build'.stage = build.stage /\ build'.left = build.left
        /\ build'.made = build.made /\ build'.edited = TRUE
        /\ build' \in [stage : {"copy", "clean"}, left : Seq(Paths), made : {build.made}, edited : BOOLEAN]
    BY <1>3 DEF EditPackage, PackageInv, BuildOK
  <2>2. BuildOK'
    BY <1>3, <2>1 DEF PackageInv, BuildOK
  <2> QED
    BY <1>1, <1>3, <2>1, <2>2 DEF EditPackage, PackageInv
<1> QED
  BY <1>2, <1>3

LEMMA StartBuildKeeps == ASSUME PackageInv, StartBuild PROVE PackageInv'
<1> DEFINE left == Only(Sources, {i \in DOMAIN Sources : Collected(Sources[i])})
<1>1. left \in Seq(Paths)
  BY OnlyKeeps, PackageAssumption DEF Paths
<1> HIDE DEF left
<1>2. build' = [stage |-> "copy", left |-> left, made |-> <<>>, edited |-> FALSE]
  BY DEF StartBuild, NoBuild, left
<1>3. MadeOK(<<>>)
  BY DEF MadeOK
<1>4. /\ build'.stage = "copy" /\ build'.made = <<>> /\ build'.edited = FALSE
      /\ build' \in [stage : {"copy", "clean"}, left : Seq(Paths), made : {<<>>}, edited : BOOLEAN]
  BY <1>1, <1>2
<1> QED
  BY <1>3, <1>4 DEF StartBuild, PackageInv, BuildOK

LEMMA CopySourceKeeps == ASSUME PackageInv, CopySource PROVE PackageInv'
<1>1. /\ build # NoBuild /\ build.stage = "copy" /\ touched
      /\ build.left \in Seq(Paths) /\ build.left # <<>> /\ MadeOK(build.made)
      /\ build \in [stage : {"copy", "clean"}, left : Seq(Paths), made : {build.made}, edited : BOOLEAN]
  BY NoBuildFields DEF CopySource, PackageInv, BuildOK
<1>2. PICK f : f = Head(build.left)
  OBVIOUS
<1>3. f \in Paths /\ Tail(build.left) \in Seq(Paths)
  BY <1>1, <1>2
<1>4. CASE source[f] = "absent"
  <2>1. build' = [build EXCEPT !.left = Tail(@)] /\ UNCHANGED <<package, manifest, touched, source>>
    BY <1>2, <1>4 DEF CopySource
  <2>2. /\ build'.stage = "copy" /\ build'.made = build.made /\ build'.edited = build.edited
        /\ build' \in [stage : {"copy", "clean"}, left : Seq(Paths), made : {build.made}, edited : BOOLEAN]
    BY <1>1, <1>3, <2>1
  <2> QED
    BY <1>1, <2>1, <2>2 DEF PackageInv, BuildOK
<1>5. CASE source[f] # "absent"
  <2> DEFINE made == [g \in DOMAIN build.made \cup {f} |->
                    IF g = f THEN source[f] ELSE build.made[g]]
  <2>1. /\ build' = [build EXCEPT !.left = Tail(@), !.made = made]
        /\ package' = [package EXCEPT ![f] = source[f]] /\ UNCHANGED <<manifest, touched, source>>
    BY <1>2, <1>5 DEF CopySource
  <2>2. /\ DOMAIN made = DOMAIN build.made \cup {f} /\ made[f] = source[f]
        /\ \A g \in DOMAIN build.made : g # f => made[g] = build.made[g]
        /\ made = [g \in DOMAIN made |-> made[g]]
    OBVIOUS
  <2>3. source[f] \in Contents
    BY <1>3, <1>5 DEF PackageInv
  <2> HIDE DEF made
  <2>4. MadeOK(made)
    BY <1>1, <1>3, <2>2, <2>3 DEF MadeOK
  <2>5. /\ build'.stage = "copy" /\ build'.made = made /\ build'.edited = build.edited
        /\ build' \in [stage : {"copy", "clean"}, left : Seq(Paths), made : {made}, edited : BOOLEAN]
    BY <1>1, <1>3, <2>1
  <2>6. package' \in [Paths -> Contents \cup {"edited", "absent"}]
    BY <2>1, <2>3 DEF PackageInv
  <2>7. ~build.edited => \A g \in DOMAIN made : package'[g] = made[g]
    <3>1. \A g \in DOMAIN build.made : g \in Paths
      BY <1>1 DEF MadeOK
    <3>2. package'[f] = source[f] /\ \A g \in Paths : g # f => package'[g] = package[g]
      BY <1>3, <2>1 DEF PackageInv
    <3>3. ~build.edited => \A g \in DOMAIN build.made : package[g] = build.made[g]
      BY <1>1 DEF PackageInv
    <3> QED
      BY <2>2, <3>1, <3>2, <3>3, Zenon
  <2> QED
    BY <1>1, <2>1, <2>4, <2>5, <2>6, <2>7 DEF PackageInv, BuildOK
<1> QED
  BY <1>4, <1>5

LEMMA WriteManifestKeeps == ASSUME PackageInv, WriteManifest PROVE PackageInv'
<1>1. /\ build # NoBuild /\ build.stage = "copy" /\ touched /\ MadeOK(build.made)
      /\ build \in [stage : {"copy", "clean"}, left : Seq(Paths), made : {build.made}, edited : BOOLEAN]
  BY NoBuildFields DEF WriteManifest, PackageInv, BuildOK
<1>2. /\ build'.stage = "clean" /\ build'.made = build.made /\ build'.edited = build.edited
      /\ build' \in [stage : {"copy", "clean"}, left : Seq(Paths), made : {build.made}, edited : BOOLEAN]
  BY <1>1 DEF WriteManifest
<1> QED
  BY <1>1, <1>2 DEF WriteManifest, PackageInv, BuildOK

LEMMA CleanPackageKeeps == ASSUME PackageInv, CleanPackage PROVE PackageInv'
<1>1. build # NoBuild /\ MadeOK(build.made) /\ manifest = build.made
  BY NoBuildFields DEF CleanPackage, PackageInv, BuildOK
<1>2. /\ package' = [f \in Paths |-> IF f \in DOMAIN build.made THEN package[f] ELSE "absent"]
      /\ build' = NoBuild /\ touched' = build.edited /\ UNCHANGED <<source, manifest>>
  BY DEF CleanPackage
<1>3. package' \in [Paths -> Contents \cup {"edited", "absent"}]
  BY <1>2 DEF PackageInv
<1>4. ASSUME ~build.edited PROVE Held' = manifest
  <2>1. \A f \in DOMAIN build.made :
          f \in Paths /\ package[f] = build.made[f] /\ build.made[f] # "absent"
    BY <1>1, <1>4 DEF PackageInv, MadeOK, Contents
  <2>2. {g \in Paths : package'[g] # "absent"} = DOMAIN build.made
    BY <1>2, <2>1
  <2>3. \A f \in DOMAIN build.made : package'[f] = build.made[f]
    BY <1>2, <2>1
  <2>4. Held' = [f \in {g \in Paths : package'[g] # "absent"} |-> package'[f]]
    BY DEF Held
  <2>5. Held' = [f \in DOMAIN build.made |-> build.made[f]]
    BY <2>2, <2>3, <2>4, Zenon
  <2> QED
    BY <1>1, <2>5 DEF MadeOK
<1> QED
  BY <1>2, <1>3, <1>4 DEF PackageInv, BuildOK

LEMMA PackageInvStep == PackageInv /\ [PackageNext]_packageVars => PackageInv'
<1> SUFFICES ASSUME PackageInv, [PackageNext]_packageVars PROVE PackageInv'
  OBVIOUS
<1>1. ASSUME NEW f \in Paths, EditSource(f) PROVE PackageInv'
  BY <1>1 DEF EditSource, PackageInv, BuildOK, Held
<1>2. CASE InterruptBuild
  <2>1. build' = NoBuild /\ touched' = touched /\ source' = source /\ package' = package /\ touched
    BY <1>2 DEF InterruptBuild, PackageInv
  <2> QED
    BY <2>1 DEF PackageInv, BuildOK
<1>3. CASE UNCHANGED packageVars
  BY <1>3 DEF packageVars, PackageInv, BuildOK, Held
<1> QED
  BY <1>1, <1>2, <1>3, EditPackageKeeps, StartBuildKeeps, CopySourceKeeps, WriteManifestKeeps,
     CleanPackageKeeps DEF PackageNext

LEMMA PackageIsKept == PackageInv => PackageKept
<1> SUFFICES ASSUME PackageInv, ~touched
             PROVE  /\ Held = manifest
                    /\ CheckPasses => \A f \in Paths :
                         package[f] = IF f \in Excluded THEN "absent" ELSE source[f]
  BY DEF PackageKept, Held
<1>1. Held = manifest
  BY DEF PackageInv
<1>2. ASSUME CheckPasses, NEW f \in Paths
      PROVE  package[f] = IF f \in Excluded THEN "absent" ELSE source[f]
  <2>1. Held = [g \in {h \in Paths : Collected(h)} |-> source[g]]
    BY <1>1, <1>2 DEF CheckPasses
  <2>2. package[f] # "absent" <=> Collected(f)
    <3>1. DOMAIN Held = {g \in Paths : package[g] # "absent"}
      BY DEF Held
    <3>2. DOMAIN Held = {h \in Paths : Collected(h)}
      BY <2>1
    <3> QED
      BY <3>1, <3>2
  <2>3. Collected(f) => package[f] = source[f]
    <3>1. Collected(f) => Held[f] = source[f]
      BY <2>1
    <3>2. package[f] # "absent" => Held[f] = package[f]
      BY DEF Held
    <3> QED
      BY <2>2, <3>1, <3>2
  <2> QED
    BY <2>2, <2>3 DEF Collected
<1> QED
  BY <1>1, <1>2

\* Whatever builds were interrupted and whatever was edited under them, the package
\* a build leaves is what its manifest says, for any trees (build_review_package.py).
THEOREM ReviewPackageKept == PackageSpec => []PackageKept
BY PackageInvInit, PackageInvStep, PackageIsKept, PTL DEF PackageSpec
-----------------------------------------------------------------------------
(* The generators, the version sync and the gates, for any contracts,      *)
(* vectors and declarations and any number of edits.                       *)

Files == ToSet(Declarations)
Generators == [name : Ends, left : Seq(AllContracts), clean : BOOLEAN]
Syncs == [name : {"sync"}, left : Seq(Files), clean : BOOLEAN, read : [Properties -> Revisions \cup {"none"}]]

TreeOK ==
  /\ schema \in [AllContracts -> Texts \cup {"absent"}]
  /\ mirror \in [Ends -> [AllContracts -> Texts \cup {"edited", "absent"}]]
  /\ property \in [Properties -> Revisions \cup {"none"}]
  /\ finished \subseteq Tools
  /\ tool \in {NoTool} \cup Generators \cup Syncs

\* A generator with nothing edited since it began has written the mirrors of the
\* contracts it is through with.
MirrorsSoFar(e) ==
  tool.name = e /\ tool.clean =>
    \A c \in AllContracts :
      schema[c] # "absent" /\ c \notin ToSet(tool.left) => mirror[e][c] = Generated(e, schema[c])

\* The sync has written what it read, and what it read is there still.
DeclaredSoFar ==
  tool.name = "sync" /\ tool.clean =>
    /\ tool.read = property
    /\ \A k \in Properties : property[k] # "none"
    /\ \A d \in AllDeclarations :
         (\A l \in ToSet(tool.left) : d \notin DOMAIN l) => declared[d] = property[KeyOf(d)]

GatesInv ==
  /\ TreeOK
  /\ \A e \in Ends : MirrorsSoFar(e) /\ (e \in finished => MirrorsMatch(e))
  /\ DeclaredSoFar
  /\ "sync" \in finished => SyncedMatch /\ (tool.name = "sync" => tool.clean)

\* One step less to do.
LEMMA HeadLess ==
  ASSUME NEW S, NEW q \in Seq(S), q # <<>>
  PROVE  /\ Head(q) \in S /\ Tail(q) \in Seq(S)
         /\ \A x \in ToSet(q) : x = Head(q) \/ x \in ToSet(Tail(q))
<1>1. /\ Len(q) \in Nat /\ Len(q) > 0 /\ DOMAIN q = 1..Len(q) /\ Head(q) = q[1]
      /\ Tail(q) \in Seq(S) /\ Len(Tail(q)) = Len(q) - 1 /\ DOMAIN Tail(q) = 1..(Len(q) - 1)
      /\ \A j \in 1..(Len(q) - 1) : Tail(q)[j] = q[j + 1]
  OBVIOUS
<1>2. ASSUME NEW i \in DOMAIN q, i # 1 PROVE q[i] \in ToSet(Tail(q))
  <2>1. i - 1 \in 1..(Len(q) - 1) /\ i - 1 + 1 = i
    BY <1>1, <1>2
  <2>2. q[i] = Tail(q)[i - 1]
    BY <1>1, <2>1
  <2> QED
    BY <1>1, <2>1, <2>2 DEF ToSet
<1>3. Head(q) \in S
  BY <1>1
<1> QED
  BY <1>1, <1>2, <1>3 DEF ToSet

LEMMA ToolFields ==
  ASSUME TreeOK
  PROVE  /\ tool.name \in Tools \cup {"none"} /\ tool.clean \in BOOLEAN
         /\ tool.name \in Ends => tool \in Generators
         /\ tool.name = "sync" => tool \in Syncs
         /\ tool.name = "none" <=> tool = NoTool
<1>1. CASE tool = NoTool
  <2>1. tool.name = "none" /\ tool.clean = TRUE
    BY <1>1 DEF NoTool
  <2> QED
    BY <1>1, <2>1 DEF Tools, Ends
<1>2. CASE tool \in Generators
  <2>1. tool.name \in Ends /\ tool.clean \in BOOLEAN
    BY <1>2 DEF Generators
  <2>2. tool.name \notin {"none", "sync"}
    BY <2>1 DEF Ends
  <2>3. tool # NoTool
    BY <2>2 DEF NoTool
  <2> QED
    BY <1>2, <2>1, <2>2, <2>3 DEF Tools
<1>3. CASE tool \in Syncs
  <2>1. tool.name = "sync" /\ tool.clean \in BOOLEAN
    BY <1>3 DEF Syncs
  <2>2. tool # NoTool
    BY <2>1 DEF NoTool
  <2> QED
    BY <1>3, <2>1, <2>2 DEF Tools, Ends
<1> QED
  BY <1>1, <1>2, <1>3 DEF TreeOK

LEMMA GatesInvInit == GatesInit => GatesInv
<1> SUFFICES ASSUME GatesInit PROVE GatesInv
  OBVIOUS
<1>1. TreeOK
  BY DEF GatesInit, TreeOK, Texts, Revisions
<1>2. tool.name = "none" /\ finished = {}
  BY DEF GatesInit, NoTool
<1> QED
  BY <1>1, <1>2 DEF GatesInv, MirrorsSoFar, DeclaredSoFar, Ends

-----------------------------------------------------------------------------
(* Edits.                                                                  *)

\* What an edit does to the tool that runs.
LEMMA EditedTool ==
  ASSUME TreeOK, NEW T \in SUBSET Tools, Edited(T)
  PROVE  /\ tool' \in {NoTool} \cup Generators \cup Syncs /\ finished' = finished \ T
         /\ tool'.name = tool.name
         /\ tool.name \notin T => tool' = tool
         /\ tool.name \in T => ~tool'.clean
<1>1. CASE tool.name \in T
  <2>1. tool' = [tool EXCEPT !.clean = FALSE] /\ finished' = finished \ T
    BY <1>1 DEF Edited
  <2>2. tool # NoTool
    BY <1>1 DEF NoTool, Tools, Ends
  <2>3. CASE tool \in Generators
    BY <1>1, <2>1, <2>3 DEF Generators
  <2>4. CASE tool \in Syncs
    BY <1>1, <2>1, <2>4 DEF Syncs
  <2> QED
    BY <2>2, <2>3, <2>4 DEF TreeOK
<1>2. CASE tool.name \notin T
  BY <1>2 DEF Edited, TreeOK
<1> QED
  BY <1>1, <1>2

\* An edit keeps what is known of the tools that do not read or write what it changes.
LEMMA EditKeeps ==
  ASSUME GatesInv, NEW T \in SUBSET Tools, Edited(T), TreeOK',
         \A e \in Ends \ T : schema' = schema /\ mirror'[e] = mirror[e],
         "sync" \notin T => UNCHANGED <<property, declared>>
  PROVE  GatesInv'
<1>1. /\ finished' = finished \ T /\ tool'.name = tool.name
      /\ tool.name \notin T => tool' = tool
      /\ tool.name \in T => ~tool'.clean
  BY EditedTool DEF GatesInv
<1>2. ASSUME NEW e \in Ends PROVE (MirrorsSoFar(e))' /\ (e \in finished' => (MirrorsMatch(e))')
  <2>1. CASE e \in T
    BY <1>1, <2>1 DEF MirrorsSoFar
  <2>2. CASE e \notin T
    <3>1. schema' = schema /\ mirror'[e] = mirror[e]
      BY <2>2
    <3>2. MirrorsSoFar(e) /\ (e \in finished => MirrorsMatch(e))
      BY DEF GatesInv
    <3>3. (MirrorsSoFar(e))'
      BY <1>1, <2>2, <3>1, <3>2 DEF MirrorsSoFar
    <3>4. e \in finished' => (MirrorsMatch(e))'
      BY <1>1, <3>1, <3>2 DEF MirrorsMatch
    <3> QED
      BY <3>3, <3>4
  <2> QED
    BY <2>1, <2>2
<1>3. DeclaredSoFar' /\ ("sync" \in finished' => SyncedMatch' /\ (tool'.name = "sync" => tool'.clean))
  <2>1. CASE "sync" \in T
    BY <1>1, <2>1 DEF DeclaredSoFar
  <2>2. CASE "sync" \notin T
    <3>1. property' = property /\ declared' = declared
      BY <2>2
    <3>2. DeclaredSoFar'
      BY <1>1, <2>2, <3>1 DEF GatesInv, DeclaredSoFar
    <3>3. "sync" \in finished' => SyncedMatch'
      BY <1>1, <3>1 DEF GatesInv, SyncedMatch
    <3> QED
      BY <1>1, <2>2, <3>2, <3>3 DEF GatesInv
  <2> QED
    BY <2>1, <2>2
<1> QED
  BY <1>2, <1>3 DEF GatesInv

LEMMA EditByHandKeeps == ASSUME GatesInv, EditByHand PROVE GatesInv'
<1>0. TreeOK
  BY DEF GatesInv
<1>1. ASSUME NEW c \in AllContracts, NEW text \in Texts \cup {"absent"}, EditSchema(c, text)
      PROVE  GatesInv'
  <2>1. Edited(Ends) /\ Ends \in SUBSET Tools /\ "sync" \notin Ends
    BY <1>1 DEF EditSchema, Tools, Ends
  <2>2. TreeOK'
    BY <1>0, <1>1, <2>1, EditedTool DEF EditSchema, TreeOK, versionVars
  <2>3. UNCHANGED <<property, declared>>
    BY <1>1 DEF EditSchema, versionVars
  <2> QED
    BY <2>1, <2>2, <2>3, EditKeeps
<1>2. ASSUME NEW e \in Ends, NEW c \in AllContracts, EditMirror(e, c) PROVE GatesInv'
  <2>1. Edited({e}) /\ {e} \in SUBSET Tools /\ "sync" \notin {e}
    BY <1>2 DEF EditMirror, Tools, Ends
  <2>2. TreeOK'
    BY <1>0, <1>2, <2>1, EditedTool DEF EditMirror, TreeOK, versionVars
  <2>3. UNCHANGED <<schema, property, declared>> /\ \A f \in Ends \ {e} : mirror'[f] = mirror[f]
    BY <1>0, <1>2 DEF EditMirror, versionVars, TreeOK
  <2> QED
    BY <2>1, <2>2, <2>3, EditKeeps
<1>3. ASSUME Edited({"sync"}), UNCHANGED contractVars,
             property' \in [Properties -> Revisions \cup {"none"}]
      PROVE  GatesInv'
  <2>1. {"sync"} \in SUBSET Tools
    BY DEF Tools
  <2>2. TreeOK' /\ UNCHANGED <<schema, mirror>>
    BY <1>0, <1>3, <2>1, EditedTool DEF TreeOK, contractVars
  <2> QED
    BY <1>3, <2>1, <2>2, EditKeeps
<1>4. ASSUME Edited({}), UNCHANGED <<schema, mirror, property, declared>> PROVE GatesInv'
  <2>1. {} \in SUBSET Tools
    OBVIOUS
  <2>2. TreeOK'
    BY <1>0, <1>4, <2>1, EditedTool DEF TreeOK
  <2> QED
    BY <1>4, <2>1, <2>2, EditKeeps
<1>5. ASSUME NEW k \in Properties, NEW text \in {"v2", "none"}, EditProperty(k, text) PROVE GatesInv'
  <2>1. property' \in [Properties -> Revisions \cup {"none"}]
    BY <1>0, <1>5 DEF EditProperty, TreeOK, Revisions
  <2> QED
    BY <1>3, <1>5, <2>1 DEF EditProperty
<1>6. ASSUME NEW d \in AllDeclarations, EditDeclaration(d, "v2") PROVE GatesInv'
  BY <1>0, <1>3, <1>6 DEF EditDeclaration, TreeOK
<1>7. ASSUME \/ \E c \in AllContracts :
                  (\E e \in Ends : UseMirror(e, c)) \/ EditExemption(c)
             \/ \E c \in Modelled : EditModel(c, "v2")
             \/ \E v \in Vectors, text \in {"v2", "empty", "absent"} : EditVector(v, text)
             \/ \E v \in Vectors, e \in Ends : EditConsumer(v, e) \/ EditRegistration(v, {{e}})
             \/ \E v \in Vectors : EditRegistration(v, {})
             \/ \E k \in Optional, text \in {"v2", "none"} : EditOptional(k, text)
             \/ \E d \in DOMAIN HandWritten : EditHandWritten(d, "v2")
             \/ HardcodeAndroid
             \/ \E at \in Ends \cup {"list"} : EditSuffixes(at, {"other"})
             \/ \E e \in Ends : EditFraming(e)
      PROVE  GatesInv'
  <2>1. Edited({}) /\ UNCHANGED <<schema, mirror, property, declared>>
    BY <1>7 DEF UseMirror, EditExemption, EditModel, EditVector, EditConsumer, EditRegistration,
         EditOptional, EditHandWritten, HardcodeAndroid, EditSuffixes, EditFraming, contractVars, versionVars
  <2> QED
    BY <1>4, <2>1
<1> QED
  BY <1>1, <1>2, <1>5, <1>6, <1>7 DEF EditByHand

-----------------------------------------------------------------------------
(* Tools.                                                                  *)

LEMMA StartGeneratorKeeps ==
  ASSUME GatesInv, NEW e \in Ends, StartGenerator(e)
  PROVE  GatesInv'
<1> DEFINE left == Only(Contracts, {i \in DOMAIN Contracts : schema[Contracts[i]] # "absent"})
<1>1. left \in Seq(AllContracts) /\ \A c \in AllContracts : schema[c] # "absent" => c \in ToSet(left)
  <2> DEFINE there == {i \in DOMAIN Contracts : schema[Contracts[i]] # "absent"}
  <2>1. /\ left \in Seq(AllContracts) /\ OnlyOf(left, Contracts, Len(Contracts), there)
        /\ DOMAIN Contracts = 1..Len(Contracts)
    BY OnlyKeeps, GatesAssumption
  <2> HIDE DEF left
  <2>2. ASSUME NEW c \in AllContracts, schema[c] # "absent" PROVE c \in ToSet(left)
    <3>1. PICK i \in DOMAIN Contracts : Contracts[i] = c
      BY DEF AllContracts, ToSet
    <3>2. i \in 1..Len(Contracts) /\ i \in there
      BY <2>1, <2>2, <3>1
    <3>3. PICK j \in 1..Len(left) : left[j] = Contracts[i]
      BY <2>1, <3>2 DEF OnlyOf
    <3>4. j \in DOMAIN left
      BY <2>1, <3>3
    <3> QED
      BY <3>1, <3>3, <3>4 DEF ToSet
  <2> QED
    BY <2>1, <2>2
<1>2. tool' = [name |-> e, left |-> left, clean |-> TRUE]
  BY DEF StartGenerator
<1>3. UNCHANGED <<schema, mirror, property, declared, finished>>
  BY DEF StartGenerator, contractVars, versionVars
<1> HIDE DEF left
<1>4. tool'.name = e /\ tool'.left = left /\ tool' \in Generators /\ e # "sync"
  BY <1>1, <1>2 DEF Generators, Ends
<1>5. TreeOK'
  BY <1>3, <1>4 DEF GatesInv, TreeOK
<1>6. \A f \in Ends : (MirrorsSoFar(f))'
  BY <1>1, <1>3, <1>4 DEF MirrorsSoFar
<1> QED
  BY <1>3, <1>4, <1>5, <1>6 DEF GatesInv, DeclaredSoFar, MirrorsMatch, SyncedMatch

LEMMA NothingRuns ==
  ASSUME GatesInv, tool' = NoTool, UNCHANGED <<schema, mirror, property, declared, finished>>
  PROVE  GatesInv'
<1>1. tool'.name = "none"
  BY DEF NoTool
<1>2. TreeOK'
  BY DEF GatesInv, TreeOK
<1> QED
  BY <1>1, <1>2 DEF GatesInv, MirrorsSoFar, DeclaredSoFar, MirrorsMatch, SyncedMatch, Ends

LEMMA GenerateModelKeeps ==
  ASSUME GatesInv, NEW e \in Ends, GenerateModel(e)
  PROVE  GatesInv'
<1>1. /\ tool \in Generators /\ tool.name = e /\ tool.left # <<>> /\ e # "sync"
      /\ UNCHANGED <<schema, property, declared, finished>>
  BY ToolFields DEF GenerateModel, GatesInv, versionVars, Ends
<1>2. PICK c : c = Head(tool.left)
  OBVIOUS
<1>3. /\ c \in AllContracts /\ Tail(tool.left) \in Seq(AllContracts)
      /\ \A x \in ToSet(tool.left) : x = c \/ x \in ToSet(Tail(tool.left))
  BY <1>1, <1>2, HeadLess DEF Generators
<1>4. CASE tool' = NoTool /\ UNCHANGED mirror
  BY <1>1, <1>4, NothingRuns
<1>5. CASE /\ schema[c] # "absent" /\ Generated(e, schema[c]) # "none"
           /\ mirror' = [mirror EXCEPT ![e][c] = Generated(e, schema[c])]
           /\ tool' = [tool EXCEPT !.left = Tail(@)]
  <2>1. /\ tool'.name = e /\ tool'.clean = tool.clean /\ tool'.left = Tail(tool.left)
        /\ tool' \in Generators
    BY <1>1, <1>3, <1>5 DEF Generators
  <2>2. Generated(e, schema[c]) \in Texts
    BY <1>3, <1>5 DEF GatesInv, TreeOK, Generated, CsModel, KtModel
  <2>3. /\ mirror'[e][c] = Generated(e, schema[c])
        /\ \A d \in AllContracts : d # c => mirror'[e][d] = mirror[e][d]
        /\ \A f \in Ends : f # e => mirror'[f] = mirror[f]
        /\ mirror' \in [Ends -> [AllContracts -> Texts \cup {"edited", "absent"}]]
    BY <1>3, <1>5, <2>2 DEF GatesInv, TreeOK
  <2>4. TreeOK'
    BY <1>1, <2>1, <2>3 DEF GatesInv, TreeOK
  <2>5. (MirrorsSoFar(e))' /\ (e \in finished => (MirrorsMatch(e))')
    <3>1. (MirrorsSoFar(e))'
      BY <1>1, <1>3, <2>1, <2>3 DEF GatesInv, MirrorsSoFar
    <3>2. e \in finished => (MirrorsMatch(e))'
      BY <1>1, <2>3 DEF GatesInv, MirrorsMatch
    <3> QED
      BY <3>1, <3>2
  <2>6. ASSUME NEW f \in Ends, f # e
        PROVE  (MirrorsSoFar(f))' /\ (f \in finished => (MirrorsMatch(f))')
    BY <1>1, <2>1, <2>3, <2>6 DEF GatesInv, MirrorsSoFar, MirrorsMatch
  <2>7. DeclaredSoFar' /\ ("sync" \in finished => SyncedMatch')
    BY <1>1, <2>1 DEF GatesInv, DeclaredSoFar, SyncedMatch
  <2> QED
    BY <1>1, <2>1, <2>4, <2>5, <2>6, <2>7 DEF GatesInv
<1> QED
  BY <1>2, <1>4, <1>5 DEF GenerateModel

LEMMA EndGeneratorKeeps ==
  ASSUME GatesInv, NEW e \in Ends, EndGenerator(e)
  PROVE  GatesInv'
<1>1. /\ tool.name = e /\ tool.left = <<>> /\ tool' = NoTool /\ tool'.name = "none"
      /\ finished' = IF tool.clean THEN finished \cup {e} ELSE finished
      /\ UNCHANGED <<schema, property, declared>> /\ e # "sync" /\ "none" \notin Ends
  BY DEF EndGenerator, versionVars, Ends, NoTool
<1>2. /\ \A f \in Ends : f # e => mirror'[f] = mirror[f]
      /\ \A c \in AllContracts : schema[c] # "absent" => mirror'[e][c] = mirror[e][c]
      /\ mirror' \in [Ends -> [AllContracts -> Texts \cup {"edited", "absent"}]]
  <2> DEFINE row == [c \in AllContracts |-> IF schema[c] = "absent" THEN "absent" ELSE mirror[e][c]]
  <2>1. mirror' = [mirror EXCEPT ![e] = row]
    BY DEF EndGenerator
  <2>2. /\ row \in [AllContracts -> Texts \cup {"edited", "absent"}]
        /\ \A c \in AllContracts : schema[c] # "absent" => row[c] = mirror[e][c]
    BY DEF GatesInv, TreeOK
  <2> HIDE DEF row
  <2> QED
    BY <2>1, <2>2 DEF GatesInv, TreeOK
<1>3. TreeOK'
  BY <1>1, <1>2 DEF GatesInv, TreeOK, Tools
<1>4. e \in finished' => (MirrorsMatch(e))'
  <2>1. CASE tool.clean
    <3>1. ToSet(tool.left) = {}
      BY <1>1 DEF ToSet
    <3> QED
      BY <1>1, <1>2, <2>1, <3>1 DEF GatesInv, MirrorsSoFar, MirrorsMatch
  <2>2. CASE ~tool.clean
    BY <1>1, <1>2, <2>2 DEF GatesInv, MirrorsMatch
  <2> QED
    BY <2>1, <2>2
<1>5. ASSUME NEW f \in Ends, f # e PROVE f \in finished' => (MirrorsMatch(f))'
  BY <1>1, <1>2, <1>5 DEF GatesInv, MirrorsMatch
<1>6. "sync" \in finished' => SyncedMatch'
  BY <1>1 DEF GatesInv, SyncedMatch
<1> QED
  BY <1>1, <1>3, <1>4, <1>5, <1>6 DEF GatesInv, MirrorsSoFar, DeclaredSoFar

LEMMA StartSyncKeeps == ASSUME GatesInv, StartSync PROVE GatesInv'
<1>1. tool' = [name |-> "sync", left |-> Declarations, clean |-> TRUE, read |-> property]
  BY DEF StartSync
<1>2. /\ tool'.name = "sync" /\ tool'.clean /\ tool'.left = Declarations /\ tool'.read = property
      /\ tool' \in Syncs
  BY <1>1, GatesAssumption DEF Syncs, Files, GatesInv, TreeOK
<1>3. UNCHANGED <<schema, mirror, property, declared, finished>> /\ \A k \in Properties : property[k] # "none"
  BY DEF StartSync, contractVars, versionVars
<1>4. \A d \in AllDeclarations : \E l \in ToSet(Declarations) : d \in DOMAIN l
  BY DEF AllDeclarations, ToSet
<1>5. TreeOK'
  BY <1>2, <1>3 DEF GatesInv, TreeOK
<1>6. DeclaredSoFar'
  BY <1>2, <1>3, <1>4 DEF DeclaredSoFar
<1> QED
  BY <1>2, <1>3, <1>5, <1>6 DEF GatesInv, MirrorsSoFar, MirrorsMatch, SyncedMatch, Ends

LEMMA SyncFileKeeps == ASSUME GatesInv, SyncFile PROVE GatesInv'
<1>1. /\ tool \in Syncs /\ tool.name = "sync" /\ tool.left # <<>>
      /\ UNCHANGED <<schema, mirror, property, finished>>
  BY ToolFields DEF SyncFile, GatesInv, contractVars
<1>2. PICK l : l = Head(tool.left)
  OBVIOUS
<1>3. /\ Tail(tool.left) \in Seq(Files)
      /\ \A x \in ToSet(tool.left) : x = l \/ x \in ToSet(Tail(tool.left))
  BY <1>1, <1>2, HeadLess DEF Syncs
<1>4. /\ tool' = [tool EXCEPT !.left = Tail(@)]
      /\ \A d \in AllDeclarations :
           declared'[d] = IF d \in DOMAIN l THEN tool.read[KeyOf(d)] ELSE declared[d]
  BY <1>2 DEF SyncFile
<1>5. /\ tool' \in Syncs /\ tool'.name = "sync" /\ tool'.clean = tool.clean
      /\ tool'.read = tool.read /\ tool'.left = Tail(tool.left)
  BY <1>1, <1>3, <1>4 DEF Syncs
<1>6. TreeOK'
  BY <1>1, <1>5 DEF GatesInv, TreeOK
<1>7. DeclaredSoFar'
  BY <1>1, <1>3, <1>4, <1>5 DEF GatesInv, DeclaredSoFar
<1>8. "sync" \in finished => SyncedMatch'
  BY <1>1, <1>4 DEF GatesInv, DeclaredSoFar, SyncedMatch
<1> QED
  BY <1>1, <1>5, <1>6, <1>7, <1>8 DEF GatesInv, MirrorsSoFar, MirrorsMatch, Ends

LEMMA EndSyncKeeps == ASSUME GatesInv, EndSync PROVE GatesInv'
<1>1. /\ tool.name = "sync" /\ tool.left = <<>> /\ tool' = NoTool /\ tool'.name = "none"
      /\ finished' = IF tool.clean THEN finished \cup {"sync"} ELSE finished
      /\ UNCHANGED <<schema, mirror, property, declared>> /\ Ends \cap {"none", "sync"} = {}
  BY DEF EndSync, versionVars, contractVars, Ends, NoTool
<1>2. TreeOK'
  BY <1>1 DEF GatesInv, TreeOK, Tools
<1>3. tool.clean => SyncedMatch
  <2>1. ToSet(tool.left) = {}
    BY <1>1 DEF ToSet
  <2> QED
    BY <1>1, <2>1 DEF GatesInv, DeclaredSoFar, SyncedMatch
<1>4. "sync" \in finished' => SyncedMatch'
  BY <1>1, <1>3 DEF GatesInv, SyncedMatch
<1>5. \A e \in Ends : e \in finished' => (MirrorsMatch(e))'
  BY <1>1 DEF GatesInv, MirrorsMatch
<1> QED
  BY <1>1, <1>2, <1>4, <1>5 DEF GatesInv, MirrorsSoFar, DeclaredSoFar

LEMMA GatesInvStep == GatesInv /\ [GatesNext]_gateVars => GatesInv'
<1> SUFFICES ASSUME GatesInv, [GatesNext]_gateVars PROVE GatesInv'
  OBVIOUS
<1>1. CASE Interrupt
  BY <1>1, NothingRuns DEF Interrupt, contractVars, versionVars
<1>2. CASE UNCHANGED gateVars
  BY <1>2 DEF gateVars, GatesInv, TreeOK, MirrorsSoFar, DeclaredSoFar, MirrorsMatch, SyncedMatch
<1> QED
  BY <1>1, <1>2, EditByHandKeeps, StartGeneratorKeeps, GenerateModelKeeps, EndGeneratorKeeps,
     StartSyncKeeps, SyncFileKeeps, EndSyncKeeps DEF GatesNext, RunTool

-----------------------------------------------------------------------------
(* What the gates ask for together.                                        *)

LEMMA SchemaIsRevision ==
  ASSUME TreeOK, GatesPass, NEW c \in AllContracts, schema[c] # "absent"
  PROVE  schema[c] \in Revisions /\ \A e \in Ends : mirror[e][c] = schema[c]
<1>1. /\ schema[c] \in Texts /\ "cs" \in Ends /\ "kt" \in Ends
      /\ mirror["cs"][c] = CsModel(schema[c]) /\ mirror["kt"][c] = KtModel(schema[c])
      /\ \A e \in Ends : mirror[e][c] \in Texts \cup {"edited", "absent"} /\ e \in {"cs", "kt"}
  BY DEF TreeOK, GatesPass, MirrorsMatch, Generated, Ends
<1>2. "none" \notin Texts \cup {"edited", "absent"}
  BY DEF Texts, Revisions
<1>3. schema[c] \in Revisions
  BY <1>1, <1>2 DEF Texts, CsModel, KtModel
<1> QED
  BY <1>1, <1>3 DEF Revisions, CsModel, KtModel

LEMMA ContractsHold == TreeOK /\ GatesPass => ContractsAgree
<1> SUFFICES ASSUME TreeOK, GatesPass, NEW c \in AllContracts, schema[c] # "absent"
             PROVE  \E r \in Revisions :
                      /\ \A e \in Ends : mirror[e][c] = r
                      /\ \A v \in Vectors : ContractOf[v] = c /\ vector[v] # "absent" => vector[v] = r
  BY DEF ContractsAgree
<1>1. schema[c] \in Revisions /\ \A e \in Ends : mirror[e][c] = schema[c]
  BY SchemaIsRevision
<1>2. \A v \in Vectors : ContractOf[v] = c => vector[v] = schema[c]
  BY DEF GatesPass, VectorsWellFormed, InstancesAccepted
<1> QED
  BY <1>1, <1>2

LEMMA EndsHold == TreeOK /\ GatesPass => EndsAgree
<1> SUFFICES ASSUME TreeOK, GatesPass PROVE EndsAgree
  OBVIOUS
<1>1. suffixes["cs"] = suffixes["kt"] /\ framing["cs"] = framing["kt"]
  BY DEF GatesPass, SeedsAgree, Ends
<1>2. \E v \in Vectors : vector[v] \in Revisions /\ runs[v] = Ends
  <2> DEFINE both == {v \in {u \in Vectors : vector[u] # "absent"} : runs[v] = Ends}
  <2>1. Cardinality(both) >= MinCrossEnd
    BY DEF GatesPass, ConsumersRegistered
  <2>2. both # {}
    <3> HIDE DEF both
    <3>1. both = {} => Cardinality(both) = 0
      BY FS_EmptySet
    <3> QED
      BY <2>1, <3>1, GatesAssumption
  <2>3. PICK v \in Vectors : vector[v] # "absent" /\ runs[v] = Ends
    BY <2>2
  <2>4. vector[v] = schema[ContractOf[v]] /\ ContractOf[v] \in AllContracts
    BY GatesAssumption DEF GatesPass, VectorsWellFormed, InstancesAccepted
  <2>5. vector[v] \in Revisions
    BY <2>3, <2>4, SchemaIsRevision
  <2> QED
    BY <2>3, <2>5
<1>3. \E r \in [Properties -> Revisions] : \A d \in AllDeclarations : declared[d] = r[KeyOf(d)]
  <2>1. property \in [Properties -> Revisions]
    BY DEF TreeOK, GatesPass, VersionsVerified, DeclarationsMatch, SyncedMatch
  <2>2. \A d \in AllDeclarations : declared[d] = property[KeyOf(d)]
    BY DEF GatesPass, VersionsVerified, DeclarationsMatch, SyncedMatch
  <2> QED
    BY <2>1, <2>2
<1>4. ASSUME NEW c \in DOMAIN HandWritten, NEW d \in DOMAIN HandWritten,
             HandWritten[c] = HandWritten[d], given[HandWritten[c]] # "none"
      PROVE  written[c] = written[d]
  BY <1>4 DEF GatesPass, VersionsVerified, DeclarationsMatch, HandWrittenMatch
<1> QED
  BY <1>1, <1>2, <1>3, <1>4 DEF EndsAgree

\* For any contracts and declarations, and whatever was interrupted or edited before:
\* a generator that ran to its end leaves what its gate asks for, a sync what the
\* version gate asks of the declarations it writes, and a tree that passes the gates,
\* which also compare what only hands write, holds together across both ends
\* (contracts/codegen, scripts).
THEOREM WritersAndReadersAgree == GatesSpec => []GatesAgree
<1>1. GatesInv => GatesAgree
  BY ContractsHold, EndsHold DEF GatesInv, GatesAgree
<1> QED
  BY <1>1, GatesInvInit, GatesInvStep, PTL DEF GatesSpec
-----------------------------------------------------------------------------
(* The generated binding, for any finite number of threads and any of its  *)
(* operations.                                                             *)

AllOperations == DOMAIN BrokerMethods \cup DOMAIN FreeFunctions
Results == {"text"} \cup {Signature(op).answer : op \in AllOperations}
Calls == [stage : Stages, op : AllOperations, clone : BOOLEAN, lowered : 0 .. 4, lifts : Results]

\* A call has at most the buffers of its operation, and a clone if that is a method.
CallOK(c) ==
  /\ c.lowered <= Signature(c.op).buffers
  /\ c.stage = "building" => c.lowered < Signature(c.op).buffers
  /\ c.stage \in {"idle", "lifting"} => c.lowered = 0 /\ ~c.clone

\* The constructor of the broker is on its way.
Making(c) == c.stage # "idle" /\ Signature(c.op).answer = "handle"

BindingInv ==
  /\ binding \in [Callers -> Calls] /\ \A t \in Callers : CallOK(binding[t])
  /\ broker \in {"none", "used", "dropped"}
  /\ liveBuffers \in Int /\ strong \in Int /\ unencodable \in 0 .. MaxUnencodable
  /\ \A t \in Callers : Making(binding[t]) => broker = "none"
  /\ \A t, u \in Callers : Making(binding[t]) /\ Making(binding[u]) => t = u
  /\ MemoryBalances

LEMMA Signatures ==
  ASSUME NEW op \in AllOperations
  PROVE  /\ Signature(op).buffers \in 0 .. 4
         /\ Signature(op).method \in BOOLEAN /\ Signature(op).answer \in Results
         /\ Signature(op).answer = "handle" => ~Signature(op).method
<1>1. /\ Cardinality({}) = 0 /\ Cardinality({"FfiAuthorizedAction"}) = 1
      /\ Cardinality({"FfiProtectionMode"}) = 1
  BY FS_EmptySet, FS_Singleton
<1>2. ASSUME NEW m \in DOMAIN BrokerMethods
      PROVE  /\ BrokerMethods[m].buffers \in 0 .. 4
             /\ BrokerMethods[m].method = TRUE /\ BrokerMethods[m].answer # "handle"
  BY <1>1 DEF BrokerMethods, Op
<1>3. ASSUME NEW f \in DOMAIN FreeFunctions
      PROVE  FreeFunctions[f].buffers \in 0 .. 4 /\ FreeFunctions[f].method = FALSE
  BY <1>1 DEF FreeFunctions, Op
<1>4. Signature(op).answer \in Results
  BY DEF Results
<1>5. CASE op \in DOMAIN BrokerMethods
  BY <1>2, <1>4, <1>5 DEF Signature
<1>6. CASE op \notin DOMAIN BrokerMethods
  BY <1>3, <1>4, <1>6 DEF Signature, AllOperations
<1> QED
  BY <1>5, <1>6

(* Counting what the calls hold.                                           *)

\* The units of a thread that holds n of them.
Units(t, n) == {h \in {t} \X (1 .. 4) : h[2] <= n}
UnitsOf(f) == {h \in Callers \X (1 .. 4) : h[2] <= f[h[1]]}

LEMMA UnitsCount ==
  ASSUME NEW t, NEW n \in 0 .. 4
  PROVE  IsFiniteSet(Units(t, n)) /\ Cardinality(Units(t, n)) = n
<1> DEFINE f == [i \in 1 .. n |-> <<t, i>>]
<1>1. f \in Bijection(1 .. n, Units(t, n))
  <2>1. f \in [1 .. n -> Units(t, n)]
    BY DEF Units
  <2>2. \A i, j \in 1 .. n : f[i] = f[j] => i = j
    OBVIOUS
  <2>3. \A h \in Units(t, n) : h[2] \in 1 .. n /\ f[h[2]] = h
    BY DEF Units
  <2> QED
    BY <2>1, <2>2, <2>3 DEF Bijection, Injection, Surjection, IsInjective
<1>2. ExistsBijection(1 .. n, Units(t, n))
  BY <1>1 DEF ExistsBijection
<1>3. IsFiniteSet(1 .. n) /\ Cardinality(1 .. n) = n
  <2>1. 1 \in Int /\ n \in Int
    OBVIOUS
  <2>2. Cardinality(1 .. n) = IF 1 > n THEN 0 ELSE n - 1 + 1
    BY <2>1, FS_Interval
  <2>3. IsFiniteSet(1 .. n)
    BY <2>1, FS_Interval
  <2> QED
    BY <2>2, <2>3
<1> QED
  BY <1>2, <1>3, FS_Bijection

\* What the sum gains and loses when one thread's part changes.
LEMMA UnitsChange ==
  ASSUME NEW f \in [Callers -> 0 .. 4], NEW g \in [Callers -> 0 .. 4], NEW t \in Callers,
         \A u \in Callers \ {t} : g[u] = f[u]
  PROVE  /\ Cardinality(UnitsOf(f)) \in Nat /\ Cardinality(UnitsOf(g)) \in Nat
         /\ Cardinality(UnitsOf(g)) - Cardinality(UnitsOf(f)) = g[t] - f[t]
<1> DEFINE rest == {h \in UnitsOf(f) : h[1] # t}
<1>1. UnitsOf(f) = rest \cup Units(t, f[t]) /\ rest \cap Units(t, f[t]) = {}
  BY DEF UnitsOf, Units
<1>2. UnitsOf(g) = rest \cup Units(t, g[t]) /\ rest \cap Units(t, g[t]) = {}
  BY DEF UnitsOf, Units
<1>3. IsFiniteSet(rest)
  <2>1. IsFiniteSet(1 .. 4)
    BY FS_Interval, 1 \in Int, 4 \in Int
  <2>2. IsFiniteSet(Callers \X (1 .. 4))
    BY <2>1, BindingAssumption, FS_Product
  <2>3. rest \subseteq Callers \X (1 .. 4)
    BY DEF UnitsOf
  <2> QED
    BY <2>2, <2>3, FS_Subset
<1> HIDE DEF rest
<1>4. Cardinality(rest) \in Nat /\ Cardinality({}) = 0
  BY <1>3, FS_CardinalityType, FS_EmptySet
<1>5. f[t] \in 0 .. 4 /\ g[t] \in 0 .. 4
  OBVIOUS
<1>6. IsFiniteSet(Units(t, f[t])) /\ Cardinality(Units(t, f[t])) = f[t]
  BY <1>5, UnitsCount
<1>7. IsFiniteSet(Units(t, g[t])) /\ Cardinality(Units(t, g[t])) = g[t]
  BY <1>5, UnitsCount
<1>8. Cardinality(UnitsOf(f)) = Cardinality(rest) + f[t] - 0
  BY <1>1, <1>3, <1>4, <1>6, FS_Union
<1>9. Cardinality(UnitsOf(g)) = Cardinality(rest) + g[t] - 0
  BY <1>2, <1>3, <1>4, <1>7, FS_Union
<1> QED
  BY <1>4, <1>5, <1>8, <1>9

Clone(c) == IF c.clone THEN 1 ELSE 0

LEMMA ClonesChange ==
  ASSUME NEW B \in [Callers -> Calls], NEW C \in [Callers -> Calls], NEW t \in Callers,
         \A u \in Callers \ {t} : C[u].clone = B[u].clone
  PROVE  LET had == Cardinality({u \in Callers : B[u].clone})
             has == Cardinality({u \in Callers : C[u].clone})
         IN had \in Nat /\ has \in Nat /\ has - had = Clone(C[t]) - Clone(B[t])
<1> DEFINE rest == {u \in Callers \ {t} : B[u].clone}
           all == {u \in Callers : B[u].clone}
           cloned == {u \in Callers : C[u].clone}
<1>1. IsFiniteSet(rest) /\ t \notin rest
  BY BindingAssumption, FS_Subset
<1>2. B[t].clone \in BOOLEAN /\ C[t].clone \in BOOLEAN
  BY DEF Calls
<1>3. all = IF B[t].clone THEN rest \cup {t} ELSE rest
  BY <1>2
<1>4. cloned = IF C[t].clone THEN rest \cup {t} ELSE rest
  BY <1>2
<1> HIDE DEF rest, all, cloned
<1>5. Cardinality(rest) \in Nat /\ Cardinality(rest \cup {t}) = Cardinality(rest) + 1
  BY <1>1, FS_CardinalityType, FS_AddElement
<1>6. Cardinality(all) = Cardinality(rest) + Clone(B[t])
  BY <1>2, <1>3, <1>5 DEF Clone
<1>7. Cardinality(cloned) = Cardinality(rest) + Clone(C[t])
  BY <1>2, <1>4, <1>5 DEF Clone
<1>8. Clone(B[t]) \in 0 .. 1 /\ Clone(C[t]) \in 0 .. 1
  BY DEF Clone
<1>9. Cardinality(all) \in Nat /\ Cardinality(cloned) \in Nat
      /\ Cardinality(cloned) - Cardinality(all) = Clone(C[t]) - Clone(B[t])
  BY <1>5, <1>6, <1>7, <1>8
<1> QED
  BY <1>9 DEF all, cloned

LEMMA HeldOfCall ==
  ASSUME NEW c \in Calls, CallOK(c)
  PROVE  HeldBuffers(c) \in 0 .. 4 /\ Clone(c) \in 0 .. 1
<1>1. Signature(c.op).buffers \in 0 .. 4 /\ c.lowered \in 0 .. 4
  BY Signatures DEF Calls
<1>2. HeldBuffers(c) \in 0 .. 4
  BY <1>1 DEF HeldBuffers, CallOK
<1> QED
  BY <1>2 DEF Clone

Owned == IF broker = "none" THEN 0 ELSE 1

LEMMA BuffersAddUp ==
  ASSUME NEW live \in Int, NEW live2, NEW held \in Nat, NEW held2 \in Nat, NEW had \in 0 .. 4,
         NEW has \in 0 .. 4, NEW u \in Nat, NEW u2 \in Nat, NEW lost \in Nat,
         held2 - held = has - had, live2 = live - had + has + lost, lost <= 3 * (u2 - u),
         live >= held, live <= held + 3 * u
  PROVE  live2 \in Int /\ live2 >= held2 /\ live2 <= held2 + 3 * u2
OBVIOUS

LEMMA OwnersAddUp ==
  ASSUME NEW owners \in Int, NEW owners2 \in Int, NEW own \in 0 .. 1, NEW own2 \in 0 .. 1,
         NEW held \in Nat, NEW held2 \in Nat, NEW had \in 0 .. 1, NEW has \in 0 .. 1,
         NEW u \in Nat, NEW u2 \in Nat, NEW lost \in Nat, lost <= u2 - u,
         held2 - held = has - had, owners2 - own2 = owners - own - had + has + lost,
         owners >= own + held, owners <= own + held + u
  PROVE  owners2 >= own2 + held2 /\ owners2 <= own2 + held2 + u2
OBVIOUS

\* The balance after one thread's step, which may lose what a call that cannot
\* encode an argument leaves behind.
LEMMA BalanceKept ==
  ASSUME BindingInv, NEW t \in Callers, NEW c \in Calls, CallOK(c),
         binding' = [binding EXCEPT ![t] = c], NEW lost \in Nat, NEW clones \in Nat,
         liveBuffers' = liveBuffers - HeldBuffers(binding[t]) + HeldBuffers(c) + lost,
         strong' - Owned' = strong - Owned - Clone(binding[t]) + Clone(c) + clones,
         strong' \in Int, unencodable' \in Nat,
         lost <= 3 * (unencodable' - unencodable), clones <= unencodable' - unencodable
  PROVE  MemoryBalances' /\ liveBuffers' \in Int
<1>1. binding \in [Callers -> Calls] /\ binding' \in [Callers -> Calls]
      /\ binding'[t] = c /\ \A u \in Callers \ {t} : binding'[u] = binding[u]
  BY DEF BindingInv
<1>2. \A u \in Callers : CallOK(binding[u]) /\ CallOK(binding'[u])
  BY <1>1 DEF BindingInv
<1> DEFINE f == [u \in Callers |-> HeldBuffers(binding[u])]
           g == [u \in Callers |-> HeldBuffers(binding'[u])]
<1>3. f \in [Callers -> 0 .. 4] /\ g \in [Callers -> 0 .. 4]
  BY <1>1, <1>2, HeldOfCall
<1>4. f[t] = HeldBuffers(binding[t]) /\ g[t] = HeldBuffers(c)
      /\ \A u \in Callers \ {t} : g[u] = f[u]
  BY <1>1
<1>5. BuffersHeld = UnitsOf(f) /\ BuffersHeld' = UnitsOf(g)
  BY DEF BuffersHeld, UnitsOf
<1> HIDE DEF f, g
<1>6. /\ Cardinality(BuffersHeld) \in Nat /\ Cardinality(BuffersHeld') \in Nat
      /\ Cardinality(BuffersHeld') - Cardinality(BuffersHeld)
           = HeldBuffers(c) - HeldBuffers(binding[t])
  BY <1>3, <1>4, <1>5, UnitsChange
<1>7. /\ Cardinality(ClonesHeld) \in Nat /\ Cardinality(ClonesHeld') \in Nat
      /\ Cardinality(ClonesHeld') - Cardinality(ClonesHeld) = Clone(c) - Clone(binding[t])
  <2>1. \A u \in Callers \ {t} : binding'[u].clone = binding[u].clone
    BY <1>1
  <2> QED
    BY <1>1, <2>1, ClonesChange DEF ClonesHeld
<1>8. HeldBuffers(c) \in 0 .. 4 /\ HeldBuffers(binding[t]) \in 0 .. 4
      /\ Clone(c) \in 0 .. 1 /\ Clone(binding[t]) \in 0 .. 1
  BY <1>1, <1>2, HeldOfCall
<1>9. /\ liveBuffers \in Int /\ strong \in Int /\ unencodable \in Nat
      /\ liveBuffers >= Cardinality(BuffersHeld)
      /\ liveBuffers <= Cardinality(BuffersHeld) + 3 * unencodable
      /\ strong >= Owned + Cardinality(ClonesHeld)
      /\ strong <= Owned + Cardinality(ClonesHeld) + unencodable
  BY BindingAssumption DEF BindingInv, MemoryBalances, Owned
<1>10. Owned \in 0 .. 1 /\ Owned' \in 0 .. 1
  BY DEF Owned
<1>11. /\ liveBuffers' \in Int
       /\ liveBuffers' >= Cardinality(BuffersHeld')
       /\ liveBuffers' <= Cardinality(BuffersHeld') + 3 * unencodable'
  <2>1. PICK live, live2, held, held2, had, has, u, u2 :
          /\ live = liveBuffers /\ live2 = liveBuffers' /\ held = Cardinality(BuffersHeld)
          /\ held2 = Cardinality(BuffersHeld') /\ had = HeldBuffers(binding[t])
          /\ has = HeldBuffers(c) /\ u = unencodable /\ u2 = unencodable'
    OBVIOUS
  <2>2. /\ live \in Int /\ held \in Nat /\ held2 \in Nat /\ had \in 0 .. 4 /\ has \in 0 .. 4
        /\ u \in Nat /\ u2 \in Nat
    BY <1>6, <1>8, <1>9, <2>1
  <2>3. /\ held2 - held = has - had /\ live2 = live - had + has + lost
        /\ lost <= 3 * (u2 - u) /\ live >= held /\ live <= held + 3 * u
    BY <1>6, <1>9, <2>1
  <2>4. live2 \in Int /\ live2 >= held2 /\ live2 <= held2 + 3 * u2
    BY <2>2, <2>3, BuffersAddUp
  <2> QED
    BY <2>1, <2>4
<1>12. /\ strong' >= Owned' + Cardinality(ClonesHeld')
       /\ strong' <= Owned' + Cardinality(ClonesHeld') + unencodable'
  <2>1. PICK owners, owners2, own, own2, held, held2, had, has, u, u2 :
          /\ owners = strong /\ owners2 = strong' /\ own = Owned /\ own2 = Owned'
          /\ held = Cardinality(ClonesHeld) /\ held2 = Cardinality(ClonesHeld')
          /\ had = Clone(binding[t]) /\ has = Clone(c) /\ u = unencodable /\ u2 = unencodable'
    OBVIOUS
  <2>2. /\ owners \in Int /\ owners2 \in Int /\ own \in 0 .. 1 /\ own2 \in 0 .. 1
        /\ held \in Nat /\ held2 \in Nat /\ had \in 0 .. 1 /\ has \in 0 .. 1
        /\ u \in Nat /\ u2 \in Nat
    BY <1>7, <1>8, <1>9, <1>10, <2>1
  <2>3. /\ held2 - held = has - had
        /\ owners2 - own2 = owners - own - had + has + clones
        /\ clones <= u2 - u /\ owners >= own + held /\ owners <= own + held + u
    BY <1>7, <1>9, <2>1
  <2>4. owners2 >= own2 + held2 /\ owners2 <= own2 + held2 + u2
    BY <2>2, <2>3, OwnersAddUp
  <2> QED
    BY <2>1, <2>4
<1> QED
  BY <1>11, <1>12 DEF MemoryBalances, Owned

\* A step of thread t, whose call becomes c.
LEMMA CallKeeps ==
  ASSUME BindingInv, NEW t \in Callers, NEW c \in Calls, CallOK(c),
         binding' = [binding EXCEPT ![t] = c],
         Making(c) => Making(binding[t]) \/ (broker = "none" /\ \A u \in Callers : ~Making(binding[u])),
         broker' = broker \/ (broker' = "used" /\ Making(binding[t]) /\ ~Making(c)),
         MemoryBalances', liveBuffers' \in Int, strong' \in Int,
         unencodable' \in 0 .. MaxUnencodable
  PROVE  BindingInv'
<1>1. binding' \in [Callers -> Calls] /\ \A u \in Callers : CallOK(binding'[u])
  BY DEF BindingInv
<1>2. broker' \in {"none", "used", "dropped"}
  BY DEF BindingInv
<1>3. \A u \in Callers : binding'[u] = IF u = t THEN c ELSE binding[u]
  BY DEF BindingInv
<1>4. \A u, v \in Callers : Making(binding'[u]) /\ Making(binding'[v]) => u = v
  BY <1>3 DEF BindingInv
<1>5. \A u \in Callers : Making(binding'[u]) => broker' = "none"
  BY <1>3 DEF BindingInv
<1> QED
  BY <1>1, <1>2, <1>4, <1>5 DEF BindingInv

\* A step of a call that goes on or ends as it should.
LEMMA ProperStep ==
  ASSUME BindingInv, NEW t \in Callers, NEW b, b = binding[t], NEW c \in Calls, CallOK(c),
         binding' = [binding EXCEPT ![t] = c],
         Making(c) => Making(b) \/ (broker = "none" /\ \A u \in Callers : ~Making(binding[u])),
         broker' = broker \/ (broker' = "used" /\ Making(b) /\ ~Making(c)),
         liveBuffers' = liveBuffers - HeldBuffers(b) + HeldBuffers(c),
         strong' \in Int, strong' - Owned' = strong - Owned - Clone(b) + Clone(c),
         unencodable' = unencodable
  PROVE  BindingInv'
<1>1. b \in Calls /\ CallOK(b) /\ unencodable \in 0 .. MaxUnencodable /\ unencodable \in Nat
      /\ liveBuffers \in Int /\ strong \in Int
  BY BindingAssumption DEF BindingInv
<1>2. HeldBuffers(c) \in 0 .. 4 /\ HeldBuffers(b) \in 0 .. 4 /\ Clone(c) \in 0 .. 1
      /\ Clone(b) \in 0 .. 1 /\ Owned \in Int
  BY <1>1, HeldOfCall DEF Owned
<1>3. liveBuffers' = liveBuffers - HeldBuffers(b) + HeldBuffers(c) + 0
      /\ 0 <= 3 * (unencodable' - unencodable)
  BY <1>1, <1>2
<1>4. strong' - Owned' = strong - Owned - Clone(b) + Clone(c) + 0 /\ 0 <= unencodable' - unencodable
  BY <1>1, <1>2
<1>5. MemoryBalances' /\ liveBuffers' \in Int
  BY <1>1, <1>3, <1>4, BalanceKept
<1> QED
  BY <1>1, <1>5, CallKeeps

LEMMA IdleCall ==
  /\ Idle \in Calls /\ CallOK(Idle) /\ HeldBuffers(Idle) = 0 /\ Clone(Idle) = 0 /\ ~Making(Idle)
  /\ Idle.stage = "idle"
<1>1. "FfiBroker" \in AllOperations
  BY DEF AllOperations, FreeFunctions
<1>2. Idle \in Calls
  BY <1>1 DEF Idle, Calls, Stages, Results
<1>3. Signature(Idle.op).buffers \in 0 .. 4
  BY <1>2, Signatures DEF Calls
<1> QED
  BY <1>2, <1>3 DEF Idle, CallOK, HeldBuffers, Clone, Making

LEMMA BindingInitKeeps == BindingInit => BindingInv
<1> SUFFICES ASSUME BindingInit PROVE BindingInv
  OBVIOUS
<1>1. binding \in [Callers -> Calls] /\ \A t \in Callers : binding[t] = Idle
  BY IdleCall DEF BindingInit
<1>2. BuffersHeld = {} /\ ClonesHeld = {}
  <2>1. \A t \in Callers : HeldBuffers(binding[t]) = 0 /\ ~binding[t].clone
    BY <1>1, IdleCall DEF CallOK
  <2> QED
    BY <2>1 DEF BuffersHeld, ClonesHeld
<1>3. MemoryBalances
  BY <1>2, FS_EmptySet DEF MemoryBalances, BindingInit
<1> QED
  BY <1>1, <1>3, IdleCall, BindingAssumption DEF BindingInit, BindingInv

LEMMA BeginKeeps == ASSUME BindingInv, NEW t \in Callers, Begin(t) PROVE BindingInv'
<1>1. PICK op \in Operations :
        /\ Signature(op).answer = "handle" =>
             /\ broker = "none"
             /\ \A u \in Callers : Signature(binding[u].op).answer = "handle"
                                     => binding[u].stage = "idle"
        /\ binding' = [binding EXCEPT ![t] = [Idle EXCEPT !.stage = "lowering", !.op = op]]
  BY DEF Begin
<1>2. PICK b, c : b = binding[t] /\ c = [Idle EXCEPT !.stage = "lowering", !.op = op]
  OBVIOUS
<1>3. b \in Calls /\ CallOK(b) /\ b.stage = "idle"
  BY <1>2 DEF BindingInv, Begin
<1>4. c \in Calls /\ c.stage = "lowering" /\ c.op = op /\ c.lowered = 0 /\ c.clone = FALSE
  BY <1>2, IdleCall, BindingAssumption DEF Calls, Stages, AllOperations, Idle
<1>5. CallOK(c) /\ HeldBuffers(c) = 0 /\ Clone(c) = 0
  BY <1>4, Signatures DEF CallOK, HeldBuffers, Clone, Calls
<1>6. HeldBuffers(b) = 0 /\ Clone(b) = 0
  BY <1>3 DEF CallOK, HeldBuffers, Clone
<1>7. Making(c) => broker = "none" /\ \A u \in Callers : ~Making(binding[u])
  BY <1>1, <1>4 DEF Making
<1>8. /\ liveBuffers' = liveBuffers - HeldBuffers(b) + HeldBuffers(c)
      /\ strong' \in Int /\ strong' - Owned' = strong - Owned - Clone(b) + Clone(c)
  BY <1>5, <1>6 DEF Begin, BindingInv, Owned
<1>9. b = binding[t] /\ broker' = broker /\ unencodable' = unencodable
  BY <1>1, <1>2 DEF Begin
<1>10. binding' = [binding EXCEPT ![t] = c]
  BY <1>1, <1>2
<1> QED
  BY <1>4, <1>5, <1>7, <1>8, <1>10, <1>9, ProperStep

LEMMA CloneHandleKeeps == ASSUME BindingInv, NEW t \in Callers, CloneHandle(t) PROVE BindingInv'
<1>1. PICK b, c : b = binding[t] /\ c = [b EXCEPT !.clone = TRUE]
  OBVIOUS
<1>2. b \in Calls /\ CallOK(b) /\ b.stage = "lowering" /\ b.clone = FALSE
  BY <1>1 DEF BindingInv, CloneHandle, Calls
<1>3. c \in Calls /\ c.stage = "lowering" /\ c.op = b.op /\ c.lowered = b.lowered /\ c.clone = TRUE
  BY <1>1, <1>2 DEF Calls
<1>4. CallOK(c) /\ HeldBuffers(c) = HeldBuffers(b) /\ HeldBuffers(b) \in 0 .. 4
  BY <1>2, <1>3, HeldOfCall DEF CallOK, HeldBuffers
<1>5. Clone(b) = 0 /\ Clone(c) = 1 /\ (Making(c) => Making(b))
  BY <1>2, <1>3 DEF Clone, Making
<1>6. binding' = [binding EXCEPT ![t] = c]
  BY <1>1 DEF CloneHandle
<1>7. /\ liveBuffers' = liveBuffers - HeldBuffers(b) + HeldBuffers(c)
      /\ strong' \in Int /\ strong' - Owned' = strong - Owned - Clone(b) + Clone(c)
  BY <1>4, <1>5 DEF CloneHandle, BindingInv, Owned
<1>9. b = binding[t] /\ broker' = broker /\ unencodable' = unencodable
  BY <1>1 DEF CloneHandle
<1> QED
  BY <1>3, <1>4, <1>5, <1>6, <1>7, <1>9, ProperStep

LEMMA AllocKeeps == ASSUME BindingInv, NEW t \in Callers, Alloc(t) PROVE BindingInv'
<1>1. PICK b, c : b = binding[t] /\ c = [b EXCEPT !.stage = "building"]
  OBVIOUS
<1>2. b \in Calls /\ CallOK(b) /\ b.stage = "lowering" /\ b.lowered < Signature(b.op).buffers
  BY <1>1 DEF BindingInv, Alloc
<1>3. c \in Calls /\ c.stage = "building" /\ c.op = b.op /\ c.lowered = b.lowered /\ c.clone = b.clone
  BY <1>1, <1>2 DEF Calls, Stages
<1>4. b.lowered \in 0 .. 4 /\ Signature(b.op).buffers \in 0 .. 4
  BY <1>2, Signatures DEF Calls
<1>5. CallOK(c) /\ HeldBuffers(c) = HeldBuffers(b) + 1 /\ HeldBuffers(b) \in 0 .. 4
  BY <1>2, <1>3, <1>4, HeldOfCall DEF CallOK, HeldBuffers
<1>6. Clone(b) = Clone(c) /\ Clone(c) \in 0 .. 1 /\ (Making(c) => Making(b))
  BY <1>2, <1>3 DEF Clone, Making
<1>7. binding' = [binding EXCEPT ![t] = c]
  BY <1>1 DEF Alloc
<1>8. /\ liveBuffers' = liveBuffers - HeldBuffers(b) + HeldBuffers(c)
      /\ strong' \in Int /\ strong' - Owned' = strong - Owned - Clone(b) + Clone(c)
  BY <1>5, <1>6 DEF Alloc, BindingInv, Owned
<1>9. b = binding[t] /\ broker' = broker /\ unencodable' = unencodable
  BY <1>1 DEF Alloc
<1> QED
  BY <1>3, <1>5, <1>6, <1>7, <1>8, <1>9, ProperStep

LEMMA FinalizeKeeps == ASSUME BindingInv, NEW t \in Callers, Finalize(t) PROVE BindingInv'
<1>1. PICK b, c : b = binding[t] /\ c = [b EXCEPT !.stage = "lowering", !.lowered = @ + 1]
  OBVIOUS
<1>2. b \in Calls /\ CallOK(b) /\ b.stage = "building"
  BY <1>1 DEF BindingInv, Finalize
<1>3. b.lowered \in 0 .. 4 /\ Signature(b.op).buffers \in 0 .. 4 /\ b.lowered < Signature(b.op).buffers
  BY <1>2, Signatures DEF Calls, CallOK
<1>4. c \in Calls /\ c.stage = "lowering" /\ c.op = b.op /\ c.lowered = b.lowered + 1 /\ c.clone = b.clone
  <2>1. b.lowered + 1 \in 0 .. 4
    BY <1>3
  <2> QED
    BY <1>1, <1>2, <2>1 DEF Calls, Stages
<1>5. CallOK(c) /\ HeldBuffers(c) = HeldBuffers(b) /\ HeldBuffers(b) \in 0 .. 4
  BY <1>2, <1>3, <1>4, HeldOfCall DEF CallOK, HeldBuffers
<1>6. Clone(b) = Clone(c) /\ Clone(c) \in 0 .. 1 /\ (Making(c) => Making(b))
  BY <1>2, <1>4 DEF Clone, Making
<1>7. binding' = [binding EXCEPT ![t] = c]
  BY <1>1 DEF Finalize
<1>8. /\ liveBuffers' = liveBuffers - HeldBuffers(b) + HeldBuffers(c)
      /\ strong' \in Int /\ strong' - Owned' = strong - Owned - Clone(b) + Clone(c)
  BY <1>5, <1>6 DEF Finalize, BindingInv, Owned
<1>9. b = binding[t] /\ broker' = broker /\ unencodable' = unencodable
  BY <1>1 DEF Finalize
<1> QED
  BY <1>4, <1>5, <1>6, <1>7, <1>8, <1>9, ProperStep

\* Of the call nothing is left; what it had lowered and its clone are.
LEMMA DiscardKeeps == ASSUME BindingInv, NEW t \in Callers, Discard(t) PROVE BindingInv'
<1>1. PICK b : b = binding[t]
  OBVIOUS
<1>2. b \in Calls /\ CallOK(b) /\ b.stage = "building"
  BY <1>1 DEF BindingInv, Discard
<1>3. /\ b.lowered \in 0 .. 3 /\ HeldBuffers(b) = b.lowered + 1 /\ Clone(b) \in 0 .. 1
  BY <1>2, Signatures DEF Calls, CallOK, HeldBuffers, Clone
<1>4. /\ unencodable \in Nat /\ liveBuffers \in Int /\ strong \in Int /\ Owned \in Int
      /\ unencodable' = unencodable + 1 /\ unencodable' \in 0 .. MaxUnencodable
      /\ unencodable' \in Nat /\ strong' = strong /\ Owned' = Owned
  BY BindingAssumption DEF Discard, BindingInv, Owned
<1>5. liveBuffers' = liveBuffers - HeldBuffers(b) + HeldBuffers(Idle) + b.lowered
      /\ b.lowered <= 3 * (unencodable' - unencodable) /\ b.lowered \in Nat
  BY <1>3, <1>4, IdleCall DEF Discard
<1>6. strong' - Owned' = strong - Owned - Clone(b) + Clone(Idle) + Clone(b)
      /\ Clone(b) <= unencodable' - unencodable /\ Clone(b) \in Nat
  BY <1>3, <1>4, IdleCall
<1>7. binding' = [binding EXCEPT ![t] = Idle]
  BY DEF Discard
<1>8. MemoryBalances' /\ liveBuffers' \in Int
  BY <1>1, <1>4, <1>5, <1>6, <1>7, IdleCall, BalanceKept
<1> QED
  BY <1>4, <1>7, <1>8, IdleCall, CallKeeps DEF Discard

LEMMA EnterRustKeeps == ASSUME BindingInv, NEW t \in Callers, EnterRust(t) PROVE BindingInv'
<1>1. PICK b, c : b = binding[t] /\ c = [b EXCEPT !.stage = "rust"]
  OBVIOUS
<1>2. b \in Calls /\ CallOK(b) /\ b.stage = "lowering"
  BY <1>1 DEF BindingInv, EnterRust
<1>3. c \in Calls /\ c.stage = "rust" /\ c.op = b.op /\ c.lowered = b.lowered /\ c.clone = b.clone
  BY <1>1, <1>2 DEF Calls, Stages
<1>4. CallOK(c) /\ HeldBuffers(c) = HeldBuffers(b) /\ HeldBuffers(b) \in 0 .. 4
  BY <1>2, <1>3, HeldOfCall DEF CallOK, HeldBuffers
<1>5. Clone(b) = Clone(c) /\ Clone(c) \in 0 .. 1 /\ (Making(c) => Making(b))
  BY <1>2, <1>3 DEF Clone, Making
<1>6. binding' = [binding EXCEPT ![t] = c]
  BY <1>1 DEF EnterRust
<1>7. /\ liveBuffers' = liveBuffers - HeldBuffers(b) + HeldBuffers(c)
      /\ strong' \in Int /\ strong' - Owned' = strong - Owned - Clone(b) + Clone(c)
  BY <1>4, <1>5 DEF EnterRust, BindingInv, Owned
<1>9. b = binding[t] /\ broker' = broker /\ unencodable' = unencodable
  BY <1>1 DEF EnterRust
<1> QED
  BY <1>3, <1>4, <1>5, <1>6, <1>7, <1>9, ProperStep

\* Rust has taken clone and arguments; it answers a buffer, or a new broker, or neither.
LEMMA LeaveRustKeeps == ASSUME BindingInv, NEW t \in Callers, LeaveRust(t) PROVE BindingInv'
<1>1. PICK b : b = binding[t]
  OBVIOUS
<1>2. b \in Calls /\ CallOK(b) /\ b.stage = "rust" /\ b.op \in AllOperations
  BY <1>1 DEF BindingInv, LeaveRust, Calls
<1>3. HeldBuffers(b) = b.lowered /\ b.lowered \in 0 .. 4 /\ Clone(b) \in 0 .. 1
  BY <1>2 DEF HeldBuffers, Clone, Calls
<1>4. PICK answer \in Results \cup {"none"}, made \in BOOLEAN, buffer \in 0 .. 1 :
        /\ buffer = IF answer \in {"plain", "handle", "none"} THEN 0 ELSE 1
        /\ made => answer = "handle" /\ Signature(b.op).answer = "handle"
        /\ liveBuffers' = liveBuffers - b.lowered + buffer
        /\ strong' = strong - Clone(b) + (IF made THEN 1 ELSE 0)
        /\ broker' = IF made THEN "used" ELSE broker
        /\ binding' = [binding EXCEPT ![t] =
             IF buffer = 1
             THEN [Idle EXCEPT !.stage = "lifting", !.op = b.op, !.lifts = answer]
             ELSE Idle]
  <2> DEFINE Answers(answer, made) ==
        LET buffer == IF answer \in {"plain", "handle", "none"} THEN 0 ELSE 1
        IN /\ liveBuffers' = liveBuffers - b.lowered + buffer
           /\ strong' = strong - Clone(b) + (IF made THEN 1 ELSE 0)
           /\ broker' = IF made THEN "used" ELSE broker
           /\ binding' = [binding EXCEPT ![t] =
                IF buffer = 1
                THEN [Idle EXCEPT !.stage = "lifting", !.op = b.op, !.lifts = answer]
                ELSE Idle]
  <2>1. \/ Answers(Signature(b.op).answer, Signature(b.op).answer = "handle")
        \/ Answers("text", FALSE)
        \/ Answers("none", FALSE)
    BY <1>1 DEF LeaveRust, Clone
  <2>2. Signature(b.op).answer \in Results /\ "text" \in Results
    BY <1>2, Signatures DEF Results
  <2>3. PICK answer \in Results \cup {"none"}, made \in BOOLEAN :
          (made => answer = "handle" /\ Signature(b.op).answer = "handle") /\ Answers(answer, made)
    <3> HIDE DEF Answers
    <3> QED
      BY <2>1, <2>2
  <2>4. PICK buffer \in 0 .. 1 : buffer = IF answer \in {"plain", "handle", "none"} THEN 0 ELSE 1
    OBVIOUS
  <2> QED
    BY <2>3, <2>4
<1>5. PICK c : c = IF buffer = 1
                   THEN [Idle EXCEPT !.stage = "lifting", !.op = b.op, !.lifts = answer]
                   ELSE Idle
  OBVIOUS
<1>6. binding' = [binding EXCEPT ![t] = c]
  BY <1>4, <1>5
<1>7. b = binding[t] /\ unencodable' = unencodable
  BY <1>1 DEF LeaveRust
<1>8. CASE buffer = 1
  <2>1. /\ c = [Idle EXCEPT !.stage = "lifting", !.op = b.op, !.lifts = answer]
        /\ answer \in Results /\ ~made
    BY <1>4, <1>5, <1>8
  <2>2. c \in Calls /\ c.stage = "lifting" /\ c.op = b.op /\ c.lowered = 0 /\ c.clone = FALSE
    BY <1>2, <2>1, IdleCall DEF Calls, Stages, Idle
  <2>3. CallOK(c) /\ HeldBuffers(c) = 1 /\ Clone(c) = 0 /\ (Making(c) => Making(b))
    BY <1>2, <2>2, Signatures DEF CallOK, HeldBuffers, Clone, Making
  <2>4. /\ liveBuffers' = liveBuffers - HeldBuffers(b) + HeldBuffers(c)
        /\ strong' \in Int /\ strong' - Owned' = strong - Owned - Clone(b) + Clone(c)
        /\ broker' = broker
    BY <1>3, <1>4, <1>8, <2>1, <2>3 DEF BindingInv, Owned
  <2> QED
    BY <1>6, <1>7, <2>2, <2>3, <2>4, ProperStep
<1>9. CASE buffer = 0
  <2>1. c = Idle /\ HeldBuffers(c) = 0 /\ Clone(c) = 0 /\ ~Making(c)
    BY <1>5, <1>9, IdleCall
  <2>2. made => Making(b) /\ broker = "none"
    BY <1>1, <1>2, <1>4 DEF Making, BindingInv
  <2>3. liveBuffers' = liveBuffers - HeldBuffers(b) + HeldBuffers(c)
    BY <1>3, <1>4, <1>9, <2>1 DEF BindingInv
  <2>4. strong' \in Int /\ strong' - Owned' = strong - Owned - Clone(b) + Clone(c)
    BY <1>3, <1>4, <2>1, <2>2 DEF BindingInv, Owned
  <2>5. broker' = broker \/ (broker' = "used" /\ Making(b) /\ ~Making(c))
    BY <1>4, <2>1, <2>2
  <2>6. c \in Calls /\ CallOK(c)
    BY <2>1, IdleCall
  <2> QED
    BY <1>6, <1>7, <2>1, <2>3, <2>4, <2>5, <2>6, ProperStep
<1> QED
  BY <1>8, <1>9

LEMMA LiftKeeps == ASSUME BindingInv, NEW t \in Callers, Lift(t) PROVE BindingInv'
<1>1. PICK b : b = binding[t]
  OBVIOUS
<1>2. HeldBuffers(b) = 1 /\ Clone(b) = 0
  BY <1>1 DEF BindingInv, Lift, CallOK, HeldBuffers, Clone
<1>3. /\ liveBuffers' = liveBuffers - HeldBuffers(b) + HeldBuffers(Idle)
      /\ strong' \in Int /\ strong' - Owned' = strong - Owned - Clone(b) + Clone(Idle)
  BY <1>2, IdleCall DEF Lift, BindingInv, Owned
<1> QED
  BY <1>1, <1>3, IdleCall, ProperStep DEF Lift

\* The steps that are no thread's.
LEMMA ObjectKeeps ==
  ASSUME BindingInv, Import \/ DropBroker \/ Del \/ UNCHANGED bindingVars
  PROVE  BindingInv'
<1>1. /\ binding' = binding /\ liveBuffers' = liveBuffers /\ unencodable' = unencodable
      /\ broker' \in {"none", "used", "dropped"} /\ strong' \in Int
      /\ strong' - Owned' = strong - Owned
  BY DEF BindingInv, Import, DropBroker, Del, bindingVars, Owned
<1>2. broker' = "none" \/ (broker' = broker) \/ broker # "none"
  BY DEF Import, DropBroker, Del, bindingVars
<1>3. BuffersHeld' = BuffersHeld /\ ClonesHeld' = ClonesHeld
  BY <1>1 DEF BuffersHeld, ClonesHeld
<1>4. IsFiniteSet(ClonesHeld)
  BY BindingAssumption, FS_Subset DEF ClonesHeld
<1>5. Cardinality(ClonesHeld) \in Nat /\ unencodable \in Nat
  BY <1>4, FS_CardinalityType, BindingAssumption DEF BindingInv
<1>6. MemoryBalances'
  <2>1. /\ liveBuffers >= Cardinality(BuffersHeld)
        /\ liveBuffers <= Cardinality(BuffersHeld) + 3 * unencodable
        /\ strong >= Owned + Cardinality(ClonesHeld)
        /\ strong <= Owned + Cardinality(ClonesHeld) + unencodable
    BY DEF MemoryBalances, BindingInv, Owned
  <2>2. strong \in Int /\ Owned \in Int /\ Owned' \in Int
    BY DEF BindingInv, Owned
  <2>3. /\ strong' >= Owned' + Cardinality(ClonesHeld)
        /\ strong' <= Owned' + Cardinality(ClonesHeld) + unencodable
    <3>1. PICK owners, owners2, own, own2, held, u :
            /\ owners = strong /\ owners2 = strong' /\ own = Owned /\ own2 = Owned'
            /\ held = Cardinality(ClonesHeld) /\ u = unencodable
      OBVIOUS
    <3>2. /\ owners \in Int /\ owners2 \in Int /\ own \in Int /\ own2 \in Int /\ held \in Nat
          /\ u \in Nat /\ owners2 - own2 = owners - own
          /\ owners >= own + held /\ owners <= own + held + u
      BY <1>1, <1>5, <2>1, <2>2, <3>1
    <3>3. owners2 >= own2 + held /\ owners2 <= own2 + held + u
      BY <3>2
    <3> QED
      BY <3>1, <3>3
  <2> QED
    BY <1>1, <1>3, <2>1, <2>3 DEF MemoryBalances, Owned
<1> QED
  BY <1>1, <1>2, <1>6 DEF BindingInv

\* However many threads call the broker while it is collected, and however calls end,
\* what crosses the boundary is freed once, save what a call leaves behind whose
\* argument could not be encoded (aegis_policy_core.py).
THEOREM BindingBalances == BindingSpec => []MemoryBalances
<1>1. BindingInv /\ [BindingNext]_bindingVars => BindingInv'
  <2> SUFFICES ASSUME BindingInv, [BindingNext]_bindingVars PROVE BindingInv'
    OBVIOUS
  <2> QED
    BY ObjectKeeps, BeginKeeps, CloneHandleKeeps, AllocKeeps, FinalizeKeeps, DiscardKeeps,
       EnterRustKeeps, LeaveRustKeeps, LiftKeeps DEF BindingNext, BindingStep
<1>2. BindingInv => MemoryBalances
  BY DEF BindingInv
<1> QED
  BY <1>1, <1>2, BindingInitKeeps, PTL DEF BindingSpec
-----------------------------------------------------------------------------
(* The pages of the visit log, for any sites and any number of visits.     *)

\* A table: finitely many rows, none of the same id.
Table(table) ==
  table \in SUBSET Rows /\ IsFiniteSet(table) /\ \A v, w \in table : v.id = w.id => v = w

LEMMA LaterIsTotal ==
  /\ \A v, w \in Rows : Later(v, w) <=> Older(w, v)
  /\ \A v \in Rows : ~Later(v, v)
  /\ \A v, w \in Rows : Later(v, w) \/ Later(w, v) \/ v.id = w.id
  /\ \A u, v, w \in Rows : Later(u, v) /\ Later(v, w) => Later(u, w)
BY HistoryAssumption DEF Rows, Later, Older

\* Rows that are later come first: each place has its row.
LEMMA PlacesOfRows ==
  ASSUME NEW S, Table(S)
  PROVE  \E rank \in [S -> Nat] :
           /\ \A v \in S : rank[v] = Cardinality({w \in S : Later(w, v)})
           /\ \A v, w \in S : rank[v] < rank[w] <=> Later(v, w)
           /\ \A v, w \in S : rank[v] = rank[w] => v = w
           /\ Cardinality(S) \in Nat
           /\ \A v \in S : rank[v] < Cardinality(S)
           /\ \A k \in 0..(Cardinality(S) - 1) : \E v \in S : rank[v] = k
<1> DEFINE Ahead(v) == {w \in S : Later(w, v)}
           rank == [v \in S |-> Cardinality(Ahead(v))]
           n == Cardinality(S)
<1>1. S \subseteq Rows /\ IsFiniteSet(S) /\ n \in Nat
      /\ \A v, w \in S : v.id = w.id => v = w
  BY FS_CardinalityType DEF Table
<1>2. ASSUME NEW v \in S
      PROVE  IsFiniteSet(Ahead(v)) /\ Cardinality(Ahead(v)) \in Nat /\ Cardinality(Ahead(v)) < n
  <2>1. Ahead(v) \subseteq S \ {v}
    BY <1>1, LaterIsTotal
  <2>2. IsFiniteSet(S \ {v}) /\ Cardinality(S \ {v}) = n - 1
    BY <1>1, FS_RemoveElement
  <2>3. IsFiniteSet(Ahead(v)) /\ Cardinality(Ahead(v)) <= Cardinality(S \ {v})
    BY <2>1, <2>2, FS_Subset
  <2>4. Cardinality(Ahead(v)) \in Nat
    BY <2>3, FS_CardinalityType
  <2> HIDE DEF Ahead, n
  <2> QED
    BY <1>1, <2>2, <2>3, <2>4
<1>3. ASSUME NEW v \in S, NEW w \in S, Later(v, w)
      PROVE  Cardinality(Ahead(v)) < Cardinality(Ahead(w))
  <2>1. Ahead(v) \subseteq Ahead(w) \ {v} /\ v \in Ahead(w)
    BY <1>1, <1>3, LaterIsTotal
  <2> HIDE DEF Ahead
  <2>2. IsFiniteSet(Ahead(w)) /\ Cardinality(Ahead(w)) \in Nat /\ Cardinality(Ahead(v)) \in Nat
    BY <1>2
  <2>3. IsFiniteSet(Ahead(w) \ {v}) /\ Cardinality(Ahead(w) \ {v}) = Cardinality(Ahead(w)) - 1
    BY <2>1, <2>2, FS_RemoveElement
  <2>4. Cardinality(Ahead(v)) <= Cardinality(Ahead(w) \ {v})
    BY <2>1, <2>3, FS_Subset
  <2> QED
    BY <2>2, <2>3, <2>4
<1>4. /\ rank \in [S -> Nat] /\ \A v \in S : rank[v] = Cardinality(Ahead(v))
      /\ \A v \in S : rank[v] < n
  BY <1>2
<1> HIDE DEF rank
<1>5. \A v, w \in S : Later(v, w) => rank[v] < rank[w]
  BY <1>3, <1>4
<1> HIDE DEF Ahead, n
<1>6. \A v, w \in S : rank[v] = rank[w] => v = w
  <2> SUFFICES ASSUME NEW v \in S, NEW w \in S, rank[v] = rank[w] PROVE v = w
    OBVIOUS
  <2>1. rank[v] \in Nat /\ ~Later(v, w) /\ ~Later(w, v)
    BY <1>4, <1>5
  <2> QED
    BY <1>1, <2>1, LaterIsTotal
<1>7. \A v, w \in S : rank[v] < rank[w] => Later(v, w)
  <2> SUFFICES ASSUME NEW v \in S, NEW w \in S, rank[v] < rank[w] PROVE Later(v, w)
    OBVIOUS
  <2>1. rank[v] \in Nat /\ rank[w] \in Nat /\ v # w /\ ~Later(w, v)
    BY <1>4, <1>5
  <2> QED
    BY <1>1, <2>1, LaterIsTotal
<1>8. \A k \in 0..(n - 1) : \E v \in S : rank[v] = k
  <2>1. rank \in [S -> 0..(n - 1)]
    BY <1>1, <1>4
  <2>2. rank \in Injection(S, 0..(n - 1))
    BY <1>6, <2>1 DEF Injection, IsInjective
  <2>3. IsFiniteSet(0..(n - 1)) /\ Cardinality(0..(n - 1)) = n
    <3>1. 0 \in Int /\ n - 1 \in Int
      BY <1>1
    <3>2. Cardinality(0..(n - 1)) = IF 0 > n - 1 THEN 0 ELSE n - 1 - 0 + 1
      BY <3>1, FS_Interval
    <3>3. IsFiniteSet(0..(n - 1))
      BY <3>1, FS_Interval
    <3> QED
      BY <1>1, <3>2, <3>3
  <2>4. rank \in Surjection(S, 0..(n - 1))
    BY <2>2, <2>3, FS_Injection DEF n
  <2> QED
    BY <2>4 DEF Surjection
<1> QED
  BY <1>1, <1>4, <1>5, <1>6, <1>7, <1>8 DEF Ahead, n

\* What a page is: rows behind the cursor, latest first, and what it leaves
\* out is older than its last row.
PageFor(p, S) ==
  /\ p \in Seq(S)
  /\ \A i, j \in 1..Len(p) : i < j => Later(p[i], p[j])
  /\ \A v \in S : \/ \E i \in 1..Len(p) : p[i] = v
                  \/ Len(p) > 0 /\ Later(p[Len(p)], v)

LEMMA PageIsPage ==
  ASSUME NEW table, Table(table), NEW limit \in Nat \ {0}
  PROVE  PageFor(Page(table, limit), Behind(table))
<1> DEFINE S == Behind(table)
           n == Cardinality(S)
           m == IF n < limit THEN n ELSE limit
           p == Page(table, limit)
<1>1. Table(S)
  <2>1. S \subseteq table
    BY DEF Behind
  <2> QED
    BY <2>1, FS_Subset DEF Table
<1>2. p = [i \in 1..m |-> CHOOSE v \in S : Cardinality({w \in S : Later(w, v)}) = i - 1]
  BY DEF Page
<1> HIDE DEF S, p
<1>3. PICK rank \in [S -> Nat] :
        /\ \A v \in S : rank[v] = Cardinality({w \in S : Later(w, v)})
        /\ \A v, w \in S : rank[v] < rank[w] <=> Later(v, w)
        /\ \A v, w \in S : rank[v] = rank[w] => v = w
        /\ n \in Nat
        /\ \A v \in S : rank[v] < n
        /\ \A k \in 0..(n - 1) : \E v \in S : rank[v] = k
  BY <1>1, PlacesOfRows
<1> HIDE DEF n
<1>4. m \in Nat /\ m <= n /\ (m < n => m = limit /\ m > 0)
  BY <1>3
<1> HIDE DEF m
<1>5. ASSUME NEW i \in 1..m PROVE p[i] \in S /\ rank[p[i]] = i - 1
  <2>1. i - 1 \in 0..(n - 1)
    BY <1>3, <1>4
  <2>2. \E v \in S : Cardinality({w \in S : Later(w, v)}) = i - 1
    BY <1>3, <2>1
  <2>3. p[i] = CHOOSE v \in S : Cardinality({w \in S : Later(w, v)}) = i - 1
    BY <1>2
  <2> QED
    BY <1>3, <2>2, <2>3
<1>6. p \in Seq(S) /\ Len(p) = m
  <2>1. p \in [1..m -> S]
    BY <1>2, <1>5
  <2> QED
    BY <1>4, <2>1
<1>7. ASSUME NEW i \in 1..m, NEW j \in 1..m, i < j PROVE Later(p[i], p[j])
  <2>1. rank[p[i]] < rank[p[j]]
    BY <1>4, <1>5, <1>7
  <2> QED
    BY <1>3, <1>5, <2>1
<1>8. ASSUME NEW v \in S, \A i \in 1..m : p[i] # v PROVE m > 0 /\ Later(p[m], v)
  <2>1. rank[v] \in Nat /\ rank[v] < n
    BY <1>3
  <2>2. rank[v] >= m
    <3> SUFFICES ASSUME rank[v] < m PROVE FALSE
      BY <1>4, <2>1
    <3>1. rank[v] + 1 \in 1..m /\ rank[v] + 1 - 1 = rank[v]
      BY <1>4, <2>1
    <3>2. p[rank[v] + 1] \in S /\ rank[p[rank[v] + 1]] = rank[v]
      BY <1>5, <3>1
    <3> QED
      BY <1>3, <1>8, <3>1, <3>2
  <2>3. m < n /\ m > 0 /\ m \in 1..m
    BY <1>3, <1>4, <2>1, <2>2
  <2>4. p[m] \in S /\ rank[p[m]] = m - 1
    BY <1>5, <2>3
  <2>5. rank[p[m]] < rank[v]
    BY <1>4, <2>1, <2>2, <2>4
  <2> QED
    BY <1>3, <2>3, <2>4, <2>5
<1> QED
  BY <1>6, <1>7, <1>8 DEF PageFor, S, p

LEMMA ElementsOf ==
  ASSUME NEW T, NEW s \in Seq(T)
  PROVE  Len(s) \in Nat /\ DOMAIN s = 1..Len(s) /\ \A i \in 1..Len(s) : s[i] \in T
OBVIOUS

LEMMA JoinedLists ==
  ASSUME NEW T, NEW s \in Seq(T), NEW r \in Seq(T)
  PROVE  /\ s \o r \in Seq(T) /\ Len(s \o r) = Len(s) + Len(r)
         /\ \A i \in 1..Len(s) : (s \o r)[i] = s[i]
         /\ \A i \in 1..Len(r) : (s \o r)[Len(s) + i] = r[i]
OBVIOUS

(* The invariant.                                                          *)

\* What the page that is read must come by.
Wanted(v) == reading = "all" \/ v.url \in Whole

\* Nothing given is behind the cursor any more.
GivenIsPassed ==
  /\ \A i, j \in DOMAIN shown : i # j => shown[i] # shown[j]
  /\ \A i \in DOMAIN shown : shown[i] <= lastId
  /\ \A i \in DOMAIN shown, v \in visits :
       v.id = shown[i] => cursor # NoCursor /\ ~Older(v, cursor)

\* What the cursor is past was given.
PassedIsGiven ==
  \A v \in kept :
    Wanted(v) /\ (cursor = NoCursor \/ ~Older(v, cursor)) => \E i \in DOMAIN shown : shown[i] = v.id

HistoryInv ==
  /\ HistoryTypeOK /\ Table(visits)
  /\ reading = "none" => shown = <<>> /\ cursor = NoCursor /\ kept = {}
  /\ GivenIsPassed /\ PassedIsGiven

LEMMA OlderIsTotal ==
  /\ \A u, v, w \in Rows : ~Older(v, u) /\ Later(u, w) => ~Older(v, w)
  /\ \A u, v, w \in Rows : Older(v, u) /\ Older(w, v) => Older(w, u)
  /\ \A v, w \in Rows : ~Older(v, w) /\ v.id # w.id => Later(v, w)
  /\ \A v, w \in Rows : Later(v, w) => ~Older(v, w)
  /\ \A v \in Rows : ~Older(v, v) /\ v # NoCursor
BY HistoryAssumption DEF Rows, Later, Older, NoCursor

LEMMA HistoryInitKeeps == HistoryInit => HistoryInv
<1> SUFFICES ASSUME HistoryInit PROVE HistoryInv
  OBVIOUS
<1>1. HistoryTypeOK
  BY HistoryAssumption DEF HistoryInit, HistoryTypeOK, Readings
<1>2. Table(visits)
  BY FS_EmptySet DEF HistoryInit, Table
<1> QED
  BY <1>1, <1>2 DEF HistoryInit, HistoryInv, GivenIsPassed, PassedIsGiven

\* Writing.
LEMMA AddKeeps ==
  ASSUME HistoryInv, NEW url \in Sites, Add(url), importing' \in Seq(Sites)
  PROVE  HistoryInv'
<1>1. PICK row : row = [id |-> lastId + 1, url |-> url, visit_time |-> second]
  OBVIOUS
<1>2. /\ lastId \in 0..MaxVisits /\ lastId' = lastId + 1 /\ lastId' \in 0..MaxVisits
      /\ visits' = visits \cup {row} /\ MaxVisits \in Nat
  BY <1>1, HistoryAssumption DEF Add, HistoryInv, HistoryTypeOK
<1>3. row \in Rows /\ row.id = lastId + 1 /\ \A v \in visits : v.id \in Nat /\ v.id <= lastId
  BY <1>1, <1>2 DEF HistoryInv, HistoryTypeOK, Rows
<1>4. HistoryTypeOK'
  <2>1. \A v \in visits' : v.id <= lastId'
    BY <1>2, <1>3
  <2>2. visits' \subseteq Rows /\ kept' \subseteq visits'
    BY <1>2, <1>3 DEF Add, HistoryInv, HistoryTypeOK
  <2> QED
    BY <1>2, <2>1, <2>2 DEF Add, HistoryInv, HistoryTypeOK
<1>5. Table(visits')
  <2>1. IsFiniteSet(visits')
    BY <1>2, FS_AddElement DEF HistoryInv, Table
  <2>2. \A v \in visits : v.id # row.id
    BY <1>2, <1>3
  <2> QED
    BY <1>2, <1>3, <2>1, <2>2 DEF HistoryInv, Table
<1>6. GivenIsPassed'
  <2>1. \A i \in DOMAIN shown : shown[i] \in Nat /\ shown[i] <= lastId
    <3>1. shown \in Seq(1..MaxVisits)
      BY DEF HistoryInv, HistoryTypeOK
    <3>2. \A i \in DOMAIN shown : shown[i] \in 1..MaxVisits
      BY <3>1, ElementsOf
    <3> QED
      BY <1>2, <3>2 DEF HistoryInv, GivenIsPassed
  <2>2. \A i \in DOMAIN shown : shown[i] # row.id /\ shown[i] <= lastId'
    BY <1>2, <1>3, <2>1
  <2> QED
    BY <1>2, <2>2 DEF HistoryInv, GivenIsPassed, Add
<1>7. PassedIsGiven'
  BY DEF HistoryInv, PassedIsGiven, Wanted, Add
<1> QED
  BY <1>4, <1>5, <1>6, <1>7 DEF HistoryInv, Add

LEMMA DeleteRowsKeeps ==
  ASSUME HistoryInv, NEW table, DeleteRows(table)
  PROVE  HistoryInv'
<1>1. visits' \subseteq visits /\ kept' \subseteq kept /\ kept' \subseteq visits'
  BY DEF DeleteRows, HistoryInv, HistoryTypeOK
<1>2. HistoryTypeOK'
  BY <1>1 DEF DeleteRows, HistoryInv, HistoryTypeOK
<1>3. Table(visits')
  BY <1>1, FS_Subset DEF HistoryInv, Table
<1>4. GivenIsPassed'
  BY <1>1 DEF DeleteRows, HistoryInv, GivenIsPassed
<1>5. PassedIsGiven'
  BY <1>1 DEF DeleteRows, HistoryInv, PassedIsGiven, Wanted
<1> QED
  BY <1>1, <1>2, <1>3, <1>4, <1>5 DEF DeleteRows, HistoryInv

\* Reading: what a page of either kind gives.
LEMMA PageOfIsPage ==
  ASSUME HistoryInv, NEW what \in {"all", "search"}, NEW limit \in Nat \ {0}
  PROVE  LET p == PageOf(what, limit)
         IN  /\ p \in Seq(Behind(visits))
             /\ \A i, j \in 1..Len(p) : i < j => Later(p[i], p[j])
             /\ \A v \in Behind(visits) : what = "all" \/ v.url \in Whole =>
                  \/ \E i \in 1..Len(p) : p[i] = v
                  \/ Len(p) > 0 /\ Later(p[Len(p)], v)
<1> DEFINE p == PageOf(what, limit)
           byWord == Page(MatchedByWord, limit)
<1>1. Table(visits) /\ Table(MatchedByWord) /\ Table(Matched)
  <2>1. MatchedByWord \subseteq visits /\ Matched \subseteq visits
    BY DEF MatchedByWord, Matched
  <2> QED
    BY <2>1, FS_Subset DEF HistoryInv, Table
<1>2. /\ PageFor(Page(visits, limit), Behind(visits))
      /\ PageFor(byWord, Behind(MatchedByWord))
      /\ PageFor(Page(Matched, limit), Behind(Matched))
  BY <1>1, PageIsPage
<1>3. /\ Behind(MatchedByWord) \subseteq Behind(visits) /\ Behind(Matched) \subseteq Behind(visits)
      /\ \A v \in Behind(visits) : v.url \in Whole => v \in Behind(MatchedByWord)
  BY DEF Behind, MatchedByWord, Matched
<1>4. CASE what = "all"
  <2>1. p = Page(visits, limit)
    BY <1>4 DEF PageOf
  <2> HIDE DEF p
  <2> QED
    BY <1>2, <2>1 DEF PageFor, p
<1>5. CASE what = "search" /\ byWord # <<>>
  <2>1. p = byWord
    BY <1>5 DEF PageOf, FulltextSearch
  <2> HIDE DEF p, byWord
  <2>2. p \in Seq(Behind(visits))
    BY <1>2, <1>3, <2>1 DEF PageFor
  <2> QED
    BY <1>2, <1>3, <1>5, <2>1, <2>2 DEF PageFor, p
<1>6. CASE what = "search" /\ byWord = <<>>
  <2>1. p = Page(Matched, limit)
    BY <1>6 DEF PageOf, FulltextSearch
  <2>2. Behind(MatchedByWord) = {}
    BY <1>2, <1>6 DEF PageFor
  <2> HIDE DEF p, byWord
  <2>3. p \in Seq(Behind(visits))
    BY <1>2, <1>3, <2>1 DEF PageFor
  <2> QED
    BY <1>2, <1>3, <1>6, <2>1, <2>2, <2>3 DEF PageFor, p
<1> QED
  BY <1>4, <1>5, <1>6

LEMMA GiveKeeps ==
  ASSUME HistoryInv, NEW what \in {"all", "search"}, NEW limit \in Nat \ {0},
         NEW p, p = PageOf(what, limit), Give(p), reading' = what,
         UNCHANGED <<visits, lastId, second, importing>>,
         \/ reading = what /\ kept' = kept
         \/ reading = "none" /\ kept' = visits
  PROVE  HistoryInv'
<1> DEFINE m == Len(shown)
           n == Len(p)
<1>1. /\ p \in Seq(Behind(visits))
      /\ \A i, j \in 1..n : i < j => Later(p[i], p[j])
      /\ \A v \in Behind(visits) : what = "all" \/ v.url \in Whole =>
           (\E i \in 1..n : p[i] = v) \/ (n > 0 /\ Later(p[n], v))
  BY PageOfIsPage
<1>2. /\ n \in Nat /\ DOMAIN p = 1..n /\ \A i \in 1..n : p[i] \in Behind(visits)
      /\ p = <<>> <=> n = 0
  BY <1>1
<1>3. /\ visits \subseteq Rows /\ Behind(visits) \subseteq visits
      /\ \A v \in Behind(visits) : cursor # NoCursor => Older(v, cursor)
      /\ \A v \in visits \ Behind(visits) : cursor # NoCursor /\ ~Older(v, cursor)
      /\ \A v, w \in visits : v.id = w.id => v = w
      /\ cursor # NoCursor => cursor \in Rows
  BY DEF Behind, HistoryInv, HistoryTypeOK, Table
<1>4. /\ m \in Nat /\ DOMAIN shown = 1..m /\ \A i \in 1..m : shown[i] \in 1..MaxVisits
      /\ shown \in Seq(1..MaxVisits)
  <2>1. shown \in Seq(1..MaxVisits)
    BY DEF HistoryInv, HistoryTypeOK
  <2> QED
    BY <2>1, ElementsOf
<1>5. \A i \in 1..n : p[i] \in visits /\ p[i] \in Rows /\ p[i].id \in 1..MaxVisits
  BY <1>2, <1>3 DEF Rows
<1> DEFINE ids == [i \in 1..n |-> p[i].id]
<1>6. ids \in Seq(1..MaxVisits) /\ Len(ids) = n /\ \A i \in 1..n : ids[i] = p[i].id
  <2>1. ids \in [1..n -> 1..MaxVisits]
    BY <1>5
  <2> QED
    BY <1>2, <2>1
<1>7. shown' = shown \o ids
  BY <1>2 DEF Give
<1> HIDE DEF ids
<1>8. /\ shown' \in Seq(1..MaxVisits) /\ DOMAIN shown' = 1..(m + n)
      /\ \A i \in 1..m : i \in 1..(m + n) /\ shown'[i] = shown[i]
      /\ \A i \in 1..n : m + i \in 1..(m + n) /\ shown'[m + i] = p[i].id
  <2>1. /\ shown' \in Seq(1..MaxVisits) /\ Len(shown') = m + n
        /\ \A i \in 1..m : shown'[i] = shown[i]
        /\ \A i \in 1..n : shown'[m + i] = ids[i]
    <3>1. PICK T, s, r : T = 1..MaxVisits /\ s = shown /\ r = ids
      OBVIOUS
    <3>2. s \in Seq(T) /\ r \in Seq(T)
      BY <1>4, <1>6, <3>1
    <3>3. /\ s \o r \in Seq(T) /\ Len(s \o r) = Len(s) + Len(r)
          /\ \A i \in 1..Len(s) : (s \o r)[i] = s[i]
          /\ \A i \in 1..Len(r) : (s \o r)[Len(s) + i] = r[i]
      BY <3>2, JoinedLists
    <3>4. shown' = s \o r /\ Len(s) = m /\ Len(r) = n
      BY <1>6, <1>7, <3>1
    <3> QED
      BY <3>1, <3>3, <3>4
  <2>2. DOMAIN shown' = 1..(m + n)
    BY <2>1, ElementsOf
  <2> HIDE DEF m, n
  <2> QED
    BY <1>2, <1>4, <1>6, <2>1, <2>2
<1> HIDE DEF m, n
\* A place in what is shown now is an old one or one of the page.
<1>9. \A k \in DOMAIN shown' :
        \/ k \in 1..m /\ shown'[k] = shown[k]
        \/ \E i \in 1..n : k = m + i /\ shown'[k] = p[i].id
  <2> SUFFICES ASSUME NEW k \in 1..(m + n), k \notin 1..m
               PROVE  \E i \in 1..n : k = m + i /\ shown'[k] = p[i].id
    BY <1>8
  <2>1. k - m \in 1..n /\ k = m + (k - m)
    BY <1>2, <1>4
  <2> QED
    BY <1>8, <2>1
<1>10. \A i \in 1..m, j \in 1..n : shown[i] # p[j].id
  BY <1>2, <1>3, <1>4, <1>5 DEF HistoryInv, GivenIsPassed
<1>11. \A i, j \in 1..n : i # j => p[i].id # p[j].id
  <2> SUFFICES ASSUME NEW i \in 1..n, NEW j \in 1..n, i < j PROVE p[i].id # p[j].id
    BY <1>2
  <2> QED
    BY <1>1, <1>3, <1>5, LaterIsTotal
<1>12. \A i, j \in DOMAIN shown' : i # j => shown'[i] # shown'[j]
  <2>1. \A i, j \in 1..m : i # j => shown[i] # shown[j]
    BY <1>4 DEF HistoryInv, GivenIsPassed
  <2> QED
    BY <1>9, <1>10, <1>11, <2>1
<1>13. \A i \in DOMAIN shown' : shown'[i] <= lastId
  BY <1>4, <1>5, <1>9 DEF HistoryInv, GivenIsPassed, HistoryTypeOK
<1>14. n > 0 => n \in 1..n /\ cursor' = p[n] /\ cursor' \in Rows /\ cursor' # NoCursor
  BY <1>2, <1>5, OlderIsTotal DEF Give, n
<1>15. n = 0 => cursor' = cursor
  BY <1>2 DEF Give
<1>16. \A i \in 1..m, v \in visits : v.id = shown[i] => cursor' # NoCursor /\ ~Older(v, cursor')
  <2> SUFFICES ASSUME NEW i \in 1..m, NEW v \in visits, v.id = shown[i]
               PROVE  cursor' # NoCursor /\ ~Older(v, cursor')
    OBVIOUS
  <2>1. cursor # NoCursor /\ ~Older(v, cursor)
    BY <1>4 DEF HistoryInv, GivenIsPassed
  <2>2. CASE n = 0
    BY <1>15, <2>1, <2>2
  <2>3. CASE n > 0
    <3>1. p[n] \in Rows /\ Older(p[n], cursor) /\ v \in Rows /\ cursor \in Rows
      BY <1>2, <1>3, <1>5, <1>14, <2>1, <2>3
    <3> QED
      BY <1>14, <2>1, <2>3, <3>1, OlderIsTotal
  <2> QED
    BY <1>2, <2>2, <2>3
<1>17. \A i \in 1..n, v \in visits : v.id = p[i].id => cursor' # NoCursor /\ ~Older(v, cursor')
  <2> SUFFICES ASSUME NEW i \in 1..n PROVE cursor' # NoCursor /\ ~Older(p[i], cursor')
    BY <1>3, <1>5
  <2>1. n > 0 /\ p[i] \in Rows /\ p[n] \in Rows
    BY <1>2, <1>5
  <2>2. i = n \/ i < n
    BY <1>2
  <2> QED
    BY <1>1, <1>14, <2>1, <2>2, OlderIsTotal
<1>18. GivenIsPassed'
  <2>1. \A k \in DOMAIN shown', v \in visits :
          v.id = shown'[k] => cursor' # NoCursor /\ ~Older(v, cursor')
    BY <1>9, <1>16, <1>17
  <2> QED
    BY <1>12, <1>13, <2>1 DEF GivenIsPassed
<1>19. PassedIsGiven'
  <2> SUFFICES ASSUME NEW v \in kept', what = "all" \/ v.url \in Whole,
                      cursor' = NoCursor \/ ~Older(v, cursor')
               PROVE  \E i \in DOMAIN shown' : shown'[i] = v.id
    BY DEF PassedIsGiven, Wanted
  <2>1. v \in visits /\ v \in Rows
    BY <1>3 DEF HistoryInv, HistoryTypeOK
  <2>2. CASE v \in Behind(visits)
    <3>1. \/ \E i \in 1..n : p[i] = v
          \/ n > 0 /\ Later(p[n], v)
      BY <1>1, <2>2
    <3>2. ~(n > 0 /\ Later(p[n], v))
      BY <1>5, <1>14, <2>1, LaterIsTotal
    <3> QED
      BY <1>8, <3>1, <3>2
  <2>3. CASE v \notin Behind(visits)
    <3>1. cursor # NoCursor /\ ~Older(v, cursor) /\ reading = what /\ kept' = kept
      BY <1>3, <2>1, <2>3 DEF HistoryInv
    <3>2. \E i \in DOMAIN shown : shown[i] = v.id
      BY <3>1 DEF HistoryInv, PassedIsGiven, Wanted
    <3> QED
      BY <1>4, <1>8, <3>2
  <2> QED
    BY <2>2, <2>3
<1>20. HistoryTypeOK'
  <2>1. cursor' \in Rows \cup {NoCursor}
    BY <1>2, <1>14, <1>15 DEF HistoryInv, HistoryTypeOK
  <2>2. kept' \subseteq visits
    BY DEF HistoryInv, HistoryTypeOK
  <2> QED
    BY <1>8, <2>1, <2>2 DEF HistoryInv, HistoryTypeOK, Readings
<1> QED
  BY <1>18, <1>19, <1>20 DEF HistoryInv

LEMMA HistoryStep == HistoryInv /\ [HistoryNext]_historyVars => HistoryInv'
<1> SUFFICES ASSUME HistoryInv, [HistoryNext]_historyVars PROVE HistoryInv'
  OBVIOUS
<1>1. ASSUME NEW url \in Sites, AddVisit(url) PROVE HistoryInv'
  <2>1. Add(url) /\ importing' \in Seq(Sites)
    BY <1>1 DEF AddVisit, HistoryInv, HistoryTypeOK
  <2> QED
    BY <2>1, AddKeeps
<1>2. ASSUME NEW url \in Sites, DeleteUrl(url) PROVE HistoryInv'
  BY <1>2, DeleteRowsKeeps DEF DeleteUrl
<1>3. ASSUME NEW u \in Sites, NEW v \in Sites, ImportHistory(<<u, v>>) PROVE HistoryInv'
  BY <1>3 DEF ImportHistory, HistoryInv, HistoryTypeOK, Table, GivenIsPassed, PassedIsGiven, Wanted
<1>4. CASE ImportNext
  <2>1. Head(importing) \in Sites /\ Add(Head(importing)) /\ importing' \in Seq(Sites)
    BY <1>4 DEF ImportNext, HistoryInv, HistoryTypeOK
  <2> QED
    BY <2>1, AddKeeps
<1>5. CASE ClearHistory
  BY <1>5, DeleteRowsKeeps DEF ClearHistory
<1>6. CASE SetClock
  BY <1>6 DEF SetClock, HistoryInv, HistoryTypeOK, Table, GivenIsPassed, PassedIsGiven, Wanted
<1>7. ASSUME NEW limit \in 1..2, NextPage(limit) PROVE HistoryInv'
  <2>1. reading \in {"all", "search"} /\ limit \in Nat \ {0}
    BY <1>7 DEF NextPage, HistoryInv, HistoryTypeOK, Readings
  <2>2. PICK p, what : p = PageOf(what, limit) /\ what = reading
    OBVIOUS
  <2>3. /\ Give(p) /\ reading' = what /\ reading = what /\ kept' = kept
        /\ UNCHANGED <<visits, lastId, second, importing>>
    BY <1>7, <2>2 DEF NextPage
  <2> QED
    BY <2>1, <2>2, <2>3, GiveKeeps
<1>8. ASSUME NEW limit \in 1..2, NEW what \in Readings \ {"none"}, FirstPage(what, limit)
      PROVE  HistoryInv'
  <2>1. what \in {"all", "search"} /\ limit \in Nat \ {0}
    BY DEF Readings
  <2>2. PICK p : p = PageOf(what, limit)
    OBVIOUS
  <2>3. /\ Give(p) /\ reading' = what /\ reading = "none" /\ kept' = visits
        /\ UNCHANGED <<visits, lastId, second, importing>>
    BY <1>8, <2>2 DEF FirstPage
  <2> QED
    BY <2>1, <2>2, <2>3, GiveKeeps
<1>9. CASE StopReading
  BY <1>9 DEF StopReading, HistoryInv, HistoryTypeOK, Readings, Table, GivenIsPassed, PassedIsGiven
<1>10. CASE UNCHANGED historyVars
  BY <1>10 DEF historyVars, HistoryInv, HistoryTypeOK, Table, GivenIsPassed, PassedIsGiven, Wanted
<1> QED
  BY <1>1, <1>2, <1>3, <1>4, <1>5, <1>6, <1>7, <1>8, <1>9, <1>10 DEF HistoryNext

\* Whatever is added, imported or deleted between two pages, and wherever the clock is
\* set, no row is given twice, and the pages together give every row that was there all
\* along (history_store.py, all and fulltext_search).
THEOREM HistoryIsCoveredOnce == HistorySpec => []PagesCoverOnce
<1>1. HistoryInv => PagesCoverOnce
  <2> SUFFICES ASSUME HistoryInv, AtEnd, NEW v \in kept, Wanted(v)
               PROVE  v.id \in Range(shown)
    BY DEF PagesCoverOnce, HistoryInv, GivenIsPassed, Wanted
  <2>1. cursor = NoCursor \/ v \notin Behind(visits)
    <3> SUFFICES ASSUME PageOf(reading, 1) = <<>>, v \in Behind(visits) PROVE FALSE
      BY DEF AtEnd
    <3>1. reading \in {"all", "search"} /\ 1 \in Nat \ {0}
      BY DEF AtEnd, HistoryInv, HistoryTypeOK, Readings
    <3>2. \/ \E i \in 1..Len(PageOf(reading, 1)) : PageOf(reading, 1)[i] = v
          \/ Len(PageOf(reading, 1)) > 0
      BY <3>1, PageOfIsPage DEF Wanted
    <3> QED
      BY <3>2
  <2>2. v \in visits
    BY DEF HistoryInv, HistoryTypeOK
  <2>3. cursor = NoCursor \/ ~Older(v, cursor)
    BY <2>1, <2>2 DEF Behind
  <2>4. PICK i \in DOMAIN shown : shown[i] = v.id
    BY <2>3 DEF HistoryInv, PassedIsGiven
  <2> QED
    BY <2>4 DEF Range
<1> QED
  BY <1>1, HistoryInitKeeps, HistoryStep, PTL DEF HistorySpec

-----------------------------------------------------------------------------
(* The release, for any platforms: what passes the gate is the upload,     *)
(* what is published is what the publishing job got, under names that no   *)
(* two files share, and what a deployment accepts is what was published.   *)
(* First the names: a renamed file has a name no other file has or is      *)
(* given.                                                                  *)

\* The places of the files a platform uploads, and of one that joined them.
Places(p) == {Library, Metadata, OwnList(p), Sbom(p), Stray}

\* Those of the files that the publishing job got of it.
Came(p) == DOMAIN delivered[p]

LEMMA PlaceForms ==
  /\ Library = [dir |-> "lib", name |-> <<"policy_core">>]
  /\ Metadata = [dir |-> "", name |-> <<"build-metadata.json">>]
  /\ Json = [dir |-> "", name |-> <<"SHA256SUMS.json">>]
  /\ Txt = [dir |-> "", name |-> <<"SHA256SUMS.txt">>]
  /\ Stray = [dir |-> "", name |-> <<"stray">>]
  /\ \A p : Sbom(p) = [dir |-> "", name |-> <<p, "cdx.json">>]
BY DEF Library, Metadata, Json, Txt, Stray, Sbom, At

LEMMA PlaceNames ==
  /\ Library.name = <<"policy_core">> /\ Metadata.name = <<"build-metadata.json">>
  /\ Json.name = <<"SHA256SUMS.json">> /\ Txt.name = <<"SHA256SUMS.txt">>
  /\ Stray.name = <<"stray">>
  /\ \A p : Sbom(p).name = <<p, "cdx.json">>
BY PlaceForms

\* The places a list may have, whichever the platform writes, among them.
KnownPlaces(p) == {Library, Metadata, Json, Txt, Stray, Sbom(p)}

LEMMA PlacesAreKnown == \A p : Places(p) \subseteq KnownPlaces(p)
BY DEF Places, OwnList, KnownPlaces

\* The last part of a name tells the places apart.
LEMMA PlacesApart ==
  /\ Library # Metadata /\ Library # Json /\ Library # Txt /\ Library # Stray
  /\ Metadata # Json /\ Metadata # Txt /\ Metadata # Stray
  /\ Json # Txt /\ Json # Stray /\ Txt # Stray
  /\ \A p : Sbom(p) \notin {Library, Metadata, Json, Txt, Stray}
<1>1. ASSUME NEW p PROVE <<p, "cdx.json">>[2] = "cdx.json" /\ Len(<<p, "cdx.json">>) = 2
  OBVIOUS
<1>2. \A p : Len(Sbom(p).name) = 2
  BY <1>1 DEF Sbom
<1>3. Len(Library.name) = 1 /\ Len(Metadata.name) = 1 /\ Len(Json.name) = 1
      /\ Len(Txt.name) = 1 /\ Len(Stray.name) = 1
  BY PlaceForms
<1>4. /\ Library.name[1] = "policy_core" /\ Metadata.name[1] = "build-metadata.json"
      /\ Json.name[1] = "SHA256SUMS.json" /\ Txt.name[1] = "SHA256SUMS.txt"
      /\ Stray.name[1] = "stray"
  BY PlaceForms
<1> QED
  BY <1>2, <1>3, <1>4

LEMMA OwnListApart ==
  ASSUME NEW p
  PROVE  /\ OwnList(p) \in {Json, Txt}
         /\ OwnList(p) \notin {Library, Metadata, Stray} /\ \A s : OwnList(p) # Sbom(s)
BY PlacesApart DEF OwnList

LEMMA OneBefore ==
  ASSUME NEW V, NEW x \in V, NEW s \in Seq(V)
  PROVE  /\ <<x>> \o s \in Seq(V) /\ Len(<<x>> \o s) = Len(s) + 1 /\ (<<x>> \o s)[1] = x
         /\ \A i \in 1..Len(s) : (<<x>> \o s)[i + 1] = s[i]
OBVIOUS

LEMMA PrefixedName ==
  ASSUME NEW p, NEW s
  PROVE  /\ Prefixed(p, Library).name = <<p, "policy_core">>
         /\ Prefixed(p, Metadata).name = <<p, "build-metadata.json">>
         /\ Prefixed(p, Json).name = <<p, "SHA256SUMS.json">>
         /\ Prefixed(p, Txt).name = <<p, "SHA256SUMS.txt">>
         /\ Prefixed(p, Stray).name = <<p, "stray">>
         /\ Prefixed(p, Sbom(s)).name = <<p, s, "cdx.json">>
<1>1. ASSUME NEW x PROVE <<p>> \o <<x>> = <<p, x>>
  <2> PICK V : V = {p, x}
    OBVIOUS
  <2>1. p \in V /\ <<x>> \in Seq(V) /\ Len(<<x>>) = 1 /\ <<x>>[1] = x
    OBVIOUS
  <2> PICK r : r = <<p>> \o <<x>>
    OBVIOUS
  <2>2. r \in Seq(V) /\ Len(r) = 2 /\ r[1] = p /\ r[2] = x
    BY <2>1, OneBefore
  <2> PICK t : t = <<p, x>>
    OBVIOUS
  <2>3. t \in Seq(V) /\ Len(t) = 2 /\ t[1] = p /\ t[2] = x
    BY <2>1
  <2>4. Len(r) = Len(t) /\ \A i \in 1..Len(r) : r[i] = t[i]
    BY <2>2, <2>3
  <2>5. r = t
    BY <2>2, <2>3, <2>4, SameList, Zenon
  <2> QED
    BY <2>5
<1>2. <<p>> \o <<s, "cdx.json">> = <<p, s, "cdx.json">>
  <2> PICK V : V = {p, s, "cdx.json"}
    OBVIOUS
  <2> PICK u : u = <<s, "cdx.json">>
    OBVIOUS
  <2>1. p \in V /\ u \in Seq(V) /\ Len(u) = 2 /\ u[1] = s /\ u[2] = "cdx.json"
    OBVIOUS
  <2> PICK r : r = <<p>> \o u
    OBVIOUS
  <2>2. r \in Seq(V) /\ Len(r) = 3 /\ r[1] = p /\ r[2] = s /\ r[3] = "cdx.json"
    BY <2>1, OneBefore
  <2> PICK t : t = <<p, s, "cdx.json">>
    OBVIOUS
  <2>3. t \in Seq(V) /\ Len(t) = 3 /\ t[1] = p /\ t[2] = s /\ t[3] = "cdx.json"
    OBVIOUS
  <2>4. Len(r) = Len(t) /\ \A i \in 1..Len(r) : r[i] = t[i]
    BY <2>2, <2>3
  <2>5. r = t
    BY <2>2, <2>3, <2>4, SameList, Zenon
  <2> QED
    BY <2>5
<1>3. \A q : q \in {Library, Metadata, Json, Txt, Stray, Sbom(s)} =>
        Prefixed(p, q).name = <<p>> \o q.name
  BY PlaceForms DEF Prefixed
<1> QED
  BY <1>1, <1>2, <1>3, PlaceForms

LEMMA OneNameOnePlace ==
  ASSUME NEW p, NEW q \in KnownPlaces(p), NEW r \in KnownPlaces(p), q.name = r.name
  PROVE  q = r
<1>1. \A x : Len(<<x, "cdx.json">>) = 2 /\ Len(<<x>>) = 1 /\ <<x>>[1] = x
  OBVIOUS
<1>2. \A k \in {Library, Metadata, Json, Txt, Stray} : Len(k.name) = 1
  <2>1. /\ Len(Library.name) = 1 /\ Len(Metadata.name) = 1
        /\ Len(Json.name) = 1 /\ Len(Txt.name) = 1 /\ Len(Stray.name) = 1
    BY PlaceNames
  <2> QED
    BY <2>1
<1>3. (q # Sbom(p) => Len(q.name) = 1) /\ (r # Sbom(p) => Len(r.name) = 1)
  <2>1. /\ q \in {Library, Metadata, Json, Txt, Stray, Sbom(p)}
        /\ r \in {Library, Metadata, Json, Txt, Stray, Sbom(p)}
    BY DEF KnownPlaces
  <2> QED
    BY <1>2, <2>1
<1>4. Len(Sbom(p).name) = 2
  BY <1>1, PlaceNames
<1>5. CASE q # Sbom(p) /\ r # Sbom(p)
  <2>1. q \in {Library, Metadata, Json, Txt, Stray} /\ r \in {Library, Metadata, Json, Txt, Stray}
    BY <1>5 DEF KnownPlaces
  <2>2. /\ Library.name[1] = "policy_core" /\ Metadata.name[1] = "build-metadata.json"
        /\ Json.name[1] = "SHA256SUMS.json" /\ Txt.name[1] = "SHA256SUMS.txt"
        /\ Stray.name[1] = "stray"
    BY PlaceNames
  <2> QED
    BY <2>1, <2>2
<1> QED
  BY <1>3, <1>4, <1>5

LEMMA PrefixedIsNew ==
  ASSUME NEW p, NEW s, NEW q \in KnownPlaces(p), NEW r \in KnownPlaces(s)
  PROVE  Prefixed(p, q).name # r.name
<1>1. Prefixed(p, q).name \in
        {<<p, "policy_core">>, <<p, "build-metadata.json">>, <<p, "SHA256SUMS.json">>,
         <<p, "SHA256SUMS.txt">>, <<p, "stray">>, <<p, p, "cdx.json">>}
  BY PrefixedName DEF KnownPlaces
<1>2. r.name \in
        {<<"policy_core">>, <<"build-metadata.json">>, <<"SHA256SUMS.json">>,
         <<"SHA256SUMS.txt">>, <<"stray">>, <<s, "cdx.json">>}
  BY PlaceNames DEF KnownPlaces
<1> DEFINE a == Prefixed(p, q).name
           b == r.name
<1>3. (Len(a) = 2 /\ a[2] # "cdx.json") \/ Len(a) = 3
  <2> HIDE DEF a
  <2> QED
    BY <1>1 DEF a
<1>4. Len(b) = 1 \/ (Len(b) = 2 /\ b[2] = "cdx.json")
  <2> HIDE DEF b
  <2> QED
    BY <1>2 DEF b
<1> QED
  BY <1>3, <1>4

LEMMA PrefixedTellsApart ==
  ASSUME NEW p, NEW s, NEW q \in KnownPlaces(p), NEW r \in KnownPlaces(s),
         Prefixed(p, q).name = Prefixed(s, r).name
  PROVE  p = s /\ q = r
<1> DEFINE a == Prefixed(p, q).name
           b == Prefixed(s, r).name
<1>1. \/ q = Library /\ a = <<p, "policy_core">>
      \/ q = Metadata /\ a = <<p, "build-metadata.json">>
      \/ q = Json /\ a = <<p, "SHA256SUMS.json">>
      \/ q = Txt /\ a = <<p, "SHA256SUMS.txt">>
      \/ q = Stray /\ a = <<p, "stray">>
      \/ q = Sbom(p) /\ a = <<p, p, "cdx.json">>
  BY PrefixedName DEF KnownPlaces
<1>2. \/ r = Library /\ b = <<s, "policy_core">>
      \/ r = Metadata /\ b = <<s, "build-metadata.json">>
      \/ r = Json /\ b = <<s, "SHA256SUMS.json">>
      \/ r = Txt /\ b = <<s, "SHA256SUMS.txt">>
      \/ r = Stray /\ b = <<s, "stray">>
      \/ r = Sbom(s) /\ b = <<s, s, "cdx.json">>
  BY PrefixedName DEF KnownPlaces
<1>3. a = b
  OBVIOUS
<1> HIDE DEF a, b
<1>4. a[1] = p /\ b[1] = s
  BY <1>1, <1>2
<1>5. p = s
  BY <1>3, <1>4
<1>6. Len(a) = 3 <=> q = Sbom(p)
  <2>1. Len(<<p, p, "cdx.json">>) = 3 /\ \A x : Len(<<p, x>>) = 2
    OBVIOUS
  <2> QED
    BY <1>1, <2>1, PlacesApart
<1>7. Len(b) = 3 <=> r = Sbom(s)
  <2>1. Len(<<s, s, "cdx.json">>) = 3 /\ \A x : Len(<<s, x>>) = 2
    OBVIOUS
  <2> QED
    BY <1>2, <2>1, PlacesApart
<1>8. CASE q # Sbom(p) /\ r # Sbom(s)
  <2>1. \A x, y : <<x, y>>[2] = y
    OBVIOUS
  <2> QED
    BY <1>1, <1>2, <1>3, <1>5, <1>8, <2>1
<1> QED
  BY <1>3, <1>5, <1>6, <1>7, <1>8

\* A platform's files while they are renamed: each under its own name or under
\* the prefixed one, with the content it came with, and no others.
OneName(p, files) ==
  /\ Came(p) \subseteq Places(p)
  /\ \A q \in Came(p) :
       \/ /\ q \in DOMAIN files /\ Prefixed(p, q) \notin DOMAIN files
          /\ files[q] = delivered[p][q]
       \/ /\ q \notin DOMAIN files /\ Prefixed(p, q) \in DOMAIN files
          /\ files[Prefixed(p, q)] = delivered[p][q]
  /\ \A r \in DOMAIN files : r \in Came(p) \/ \E q \in Came(p) : r = Prefixed(p, q)

\* No two of the files that the renaming is through with kept one name, and it
\* remembers the names that were kept.
KeptApart(seen, files, done) ==
  /\ \A p \in AllPlatforms : \A q \in Came(p) :
       <<p, q>> \in done /\ q \in DOMAIN files[p] => q.name \in seen
  /\ \A p, s \in AllPlatforms : \A q \in Came(p), r \in Came(s) :
       /\ <<p, q>> \in done /\ q \in DOMAIN files[p]
       /\ <<s, r>> \in done /\ r \in DOMAIN files[s] /\ q.name = r.name
       => p = s

RenamingInv(seen, files, done) ==
  /\ files = [p \in AllPlatforms |-> files[p]]
  /\ \A p \in AllPlatforms : OneName(p, files[p])
  /\ \A p \in AllPlatforms : \A q \in Came(p) :
       <<p, q>> \notin done => q \in DOMAIN files[p]
  /\ KeptApart(seen, files, done)

Result(seen, files) == [seen |-> seen, files |-> files, ok |-> TRUE]

LEMMA KeepsItsName ==
  ASSUME NEW seen, NEW files, NEW done, RenamingInv(seen, files, done),
         NEW p \in AllPlatforms, NEW q \in Came(p), <<p, q>> \notin done, q.name \notin seen
  PROVE  RenamingInv(seen \cup {q.name}, files, done \cup {<<p, q>>})
<1> DEFINE more == done \cup {<<p, q>>}
<1>1. ASSUME NEW t \in AllPlatforms, NEW r \in Came(t), <<t, r>> \in more, r \in DOMAIN files[t]
      PROVE  r.name \in seen \/ (t = p /\ r = q)
  <2>1. CASE <<t, r>> \in done
    BY <1>1, <2>1 DEF RenamingInv, KeptApart
  <2>2. CASE <<t, r>> = <<p, q>>
    BY <2>2
  <2> QED
    BY <1>1, <2>1, <2>2
<1>2. ASSUME NEW t \in AllPlatforms, NEW s \in AllPlatforms, NEW r \in Came(t), NEW k \in Came(s),
             <<t, r>> \in more, r \in DOMAIN files[t], <<s, k>> \in more, k \in DOMAIN files[s],
             r.name = k.name
      PROVE  t = s
  <2>1. CASE <<t, r>> \in done /\ <<s, k>> \in done
    BY <1>2, <2>1 DEF RenamingInv, KeptApart
  <2>2. CASE <<t, r>> \in done /\ s = p /\ k = q
    <3>1. r.name \in seen
      BY <1>2, <2>2 DEF RenamingInv, KeptApart
    <3> QED
      BY <1>2, <2>2, <3>1
  <2>3. CASE <<s, k>> \in done /\ t = p /\ r = q
    <3>1. k.name \in seen
      BY <1>2, <2>3 DEF RenamingInv, KeptApart
    <3> QED
      BY <1>2, <2>3, <3>1
  <2> QED
    BY <1>2, <2>1, <2>2, <2>3
<1>3. KeptApart(seen \cup {q.name}, files, more)
  BY <1>1, <1>2 DEF KeptApart
<1> QED
  BY <1>3 DEF RenamingInv

LEMMA PrefixedElse ==
  ASSUME NEW p, NEW q \in Places(p)
  PROVE  /\ \A r \in Places(p) : Prefixed(p, q) # r /\ (r # q => Prefixed(p, r) # Prefixed(p, q))
BY PrefixedIsNew, PrefixedTellsApart, PlacesAreKnown

LEMMA MovedHasOneName ==
  ASSUME NEW p, NEW files, OneName(p, files), NEW q \in Came(p), q \in DOMAIN files
  PROVE  /\ Prefixed(p, q) \notin DOMAIN files
         /\ OneName(p, Put(Without(files, q), Prefixed(p, q), files[q]))
         /\ \A r \in Came(p) : r \in DOMAIN Put(Without(files, q), Prefixed(p, q), files[q])
                                   <=> r \in DOMAIN files /\ r # q
<1> PICK target : target = Prefixed(p, q)
  OBVIOUS
<1> PICK moved : moved = Put(Without(files, q), target, files[q])
  OBVIOUS
<1>0. Came(p) \subseteq Places(p)
  BY DEF OneName
<1>1. target \notin DOMAIN files /\ files[q] = delivered[p][q]
  BY DEF OneName
<1>2. /\ DOMAIN moved = (DOMAIN files \ {q}) \cup {target}
      /\ moved[target] = files[q]
      /\ \A r \in DOMAIN files \ {q} : moved[r] = files[r]
  BY <1>1 DEF Put, Without
<1>3. \A r \in Came(p) : target # r /\ (r # q => Prefixed(p, r) # target)
  BY <1>0, PrefixedElse
<1>4. ASSUME NEW r \in Came(p)
      PROVE  \/ /\ r \in DOMAIN moved /\ Prefixed(p, r) \notin DOMAIN moved
                /\ moved[r] = delivered[p][r]
             \/ /\ r \notin DOMAIN moved /\ Prefixed(p, r) \in DOMAIN moved
                /\ moved[Prefixed(p, r)] = delivered[p][r]
  <2>1. CASE r = q
    BY <1>1, <1>2, <1>3, <2>1
  <2>2. CASE r # q
    <3>1. q # Prefixed(p, r)
      BY <1>0, PrefixedElse
    <3>2. /\ r \in DOMAIN moved <=> r \in DOMAIN files
          /\ Prefixed(p, r) \in DOMAIN moved <=> Prefixed(p, r) \in DOMAIN files
      BY <1>2, <1>3, <2>2, <3>1
    <3>3. /\ r \in DOMAIN files => moved[r] = files[r]
          /\ Prefixed(p, r) \in DOMAIN files => moved[Prefixed(p, r)] = files[Prefixed(p, r)]
      BY <1>2, <2>2, <3>1
    <3> QED
      BY <3>2, <3>3 DEF OneName
  <2> QED
    BY <2>1, <2>2
<1>5. \A r \in DOMAIN moved : r \in Came(p) \/ \E k \in Came(p) : r = Prefixed(p, k)
  BY <1>2 DEF OneName
<1>6. OneName(p, moved)
  BY <1>0, <1>4, <1>5 DEF OneName
<1>7. \A r \in Came(p) : r \in DOMAIN moved <=> r \in DOMAIN files /\ r # q
  BY <1>2, <1>3
<1> QED
  BY <1>1, <1>6, <1>7

LEMMA GetsPrefix ==
  ASSUME NEW seen, NEW files, NEW done, RenamingInv(seen, files, done),
         NEW p \in AllPlatforms, NEW q \in Came(p), <<p, q>> \notin done
  PROVE  /\ Prefixed(p, q) \notin DOMAIN files[p]
         /\ RenamingInv(seen \cup {Prefixed(p, q).name},
              [files EXCEPT ![p] = Put(Without(@, q), Prefixed(p, q), @[q])],
              done \cup {<<p, q>>})
<1> PICK moved : moved = Put(Without(files[p], q), Prefixed(p, q), files[p][q])
  OBVIOUS
<1> PICK after : after = [files EXCEPT ![p] = moved]
  OBVIOUS
<1>1. OneName(p, files[p]) /\ q \in DOMAIN files[p]
  BY DEF RenamingInv
<1>2. /\ Prefixed(p, q) \notin DOMAIN files[p]
      /\ OneName(p, moved)
      /\ \A r \in Came(p) : r \in DOMAIN moved <=> r \in DOMAIN files[p] /\ r # q
  BY <1>1, MovedHasOneName
<1>3. /\ after[p] = moved /\ \A s \in AllPlatforms \ {p} : after[s] = files[s]
      /\ after = [s \in AllPlatforms |-> after[s]]
  BY DEF RenamingInv
<1>4. \A s \in AllPlatforms : OneName(s, after[s])
  BY <1>2, <1>3 DEF RenamingInv
<1> PICK more : more = done \cup {<<p, q>>}
  OBVIOUS
<1>5. ASSUME NEW s \in AllPlatforms, NEW r \in Came(s)
      PROVE  /\ r \in DOMAIN after[s] <=> r \in DOMAIN files[s] /\ ~(s = p /\ r = q)
             /\ <<s, r>> \in more <=> <<s, r>> \in done \/ (s = p /\ r = q)
  BY <1>2, <1>3
<1>6. \A s \in AllPlatforms : \A r \in Came(s) : <<s, r>> \notin more => r \in DOMAIN after[s]
  BY <1>5 DEF RenamingInv
<1>7. KeptApart(seen \cup {Prefixed(p, q).name}, after, more)
  BY <1>5 DEF RenamingInv, KeptApart
<1>8. RenamingInv(seen \cup {Prefixed(p, q).name}, after, more)
  BY <1>3, <1>4, <1>6, <1>7 DEF RenamingInv
<1> QED
  BY <1>2, <1>8

\* What the renaming has made of the files by the time some are done.
Renaming(acc, done) ==
  \E seen, files : acc = Result(seen, files) /\ RenamingInv(seen, files, done)

\* One file: it never meets a file that is in its way.
LEMMA RenamedKeeps ==
  ASSUME NEW acc, NEW done, Renaming(acc, done),
         NEW p \in AllPlatforms, NEW q \in Came(p), <<p, q>> \notin done
  PROVE  Renaming(Renamed(acc, p, q), done \cup {<<p, q>>})
<1>1. PICK seen, files : acc = Result(seen, files) /\ RenamingInv(seen, files, done)
  BY DEF Renaming
<1>2. CASE q.name \notin seen
  <2>1. Renamed(Result(seen, files), p, q) = Result(seen \cup {q.name}, files)
    BY <1>2 DEF Renamed, Result
  <2>2. RenamingInv(seen \cup {q.name}, files, done \cup {<<p, q>>})
    BY <1>1, <1>2, KeepsItsName
  <2> QED
    BY <1>1, <2>1, <2>2 DEF Renaming
<1>3. CASE q.name \in seen
  <2> PICK renamed : renamed = [files EXCEPT ![p] = Put(Without(@, q), Prefixed(p, q), @[q])]
    OBVIOUS
  <2>1. /\ Prefixed(p, q) \notin DOMAIN files[p]
        /\ RenamingInv(seen \cup {Prefixed(p, q).name}, renamed, done \cup {<<p, q>>})
    BY <1>1, <1>3, GetsPrefix
  <2>2. Renamed(Result(seen, files), p, q) = Result(seen \cup {Prefixed(p, q).name}, renamed)
    BY <1>3, <2>1 DEF Renamed, Result
  <2> QED
    BY <1>1, <2>1, <2>2 DEF Renaming
<1> QED
  BY <1>2, <1>3

FilesUpTo(acc, p, found, m, after) ==
  [n \in 0..m |-> IF n = 0 THEN acc ELSE Renamed(after[n - 1], p, found[n])]

LEMMA FilesUpToExists ==
  ASSUME NEW acc, NEW p, NEW found, NEW m \in Nat
  PROVE  \E after : after = FilesUpTo(acc, p, found, m, after)
<1> DEFINE T == {n \in Nat : \E after : after = FilesUpTo(acc, p, found, n, after)}
<1>1. 0 \in T
  <2>1. [n \in 0..0 |-> acc] = FilesUpTo(acc, p, found, 0, [n \in 0..0 |-> acc])
    BY DEF FilesUpTo
  <2> QED
    BY <2>1
<1>2. ASSUME NEW l \in 1..m, l - 1 \in T PROVE l \in T
  <2>1. PICK old : old = FilesUpTo(acc, p, found, l - 1, old)
    BY <1>2
  <2> DEFINE new == [n \in 0..l |-> IF n < l THEN old[n] ELSE Renamed(old[l - 1], p, found[l])]
  <2>2. \A n \in 0..l : new[n] = FilesUpTo(acc, p, found, l, new)[n]
    <3> SUFFICES ASSUME NEW n \in 0..l PROVE new[n] = FilesUpTo(acc, p, found, l, new)[n]
      OBVIOUS
    <3>1. CASE n < l
      <4>1. new[n] = FilesUpTo(acc, p, found, l - 1, old)[n]
        BY <2>1, <3>1
      <4>2. n # 0 => new[n - 1] = old[n - 1]
        BY <3>1
      <4> QED
        BY <3>1, <4>1, <4>2 DEF FilesUpTo
    <3>2. CASE n = l
      <4>1. new[n - 1] = old[n - 1]
        BY <3>2
      <4> QED
        BY <3>2, <4>1 DEF FilesUpTo
    <3> QED
      BY <3>1, <3>2
  <2>3. new = FilesUpTo(acc, p, found, l, new)
    BY <2>2 DEF FilesUpTo
  <2> QED
    BY <2>3
<1>3. \A n \in 0..m : n \in T
  <2> HIDE DEF T
  <2> QED
    BY <1>1, <1>2, UpTo
<1> QED
  BY <1>3

LEMMA PlatformStep ==
  ASSUME NEW acc, NEW p, NEW found, found = SetToSeq(DOMAIN dist[p]), Len(found) \in Nat
  PROVE  \E after :
           /\ after[0] = acc
           /\ \A n \in 1..Len(found) : after[n] = Renamed(after[n - 1], p, found[n])
           /\ PlatformRenamed(acc, p) = after[Len(found)]
<1> DEFINE Is(after) == after = FilesUpTo(acc, p, found, Len(found), after)
           a == CHOOSE after : Is(after)
<1>1. Is(a)
  <2>1. \E after : Is(after)
    BY FilesUpToExists
  <2> HIDE DEF Is
  <2> QED
    BY <2>1
<1>2. PlatformRenamed(acc, p) = a[Len(found)]
  BY DEF PlatformRenamed, FilesUpTo
<1> HIDE DEF a
<1>3. \A n \in 0..Len(found) :
        a[n] = IF n = 0 THEN acc ELSE Renamed(a[n - 1], p, found[n])
  BY <1>1 DEF FilesUpTo
<1>4. a[0] = acc /\ \A n \in 1..Len(found) : a[n] = Renamed(a[n - 1], p, found[n])
  BY <1>3
<1> QED
  BY <1>2, <1>4

PlatformsUpTo(m, after) ==
  [n \in 0..m |-> IF n = 0 THEN [seen |-> {}, files |-> dist, ok |-> TRUE]
                  ELSE PlatformRenamed(after[n - 1], Platforms[n])]

LEMMA PlatformsUpToExists ==
  ASSUME NEW m \in Nat
  PROVE  \E after : after = PlatformsUpTo(m, after)
<1> DEFINE T == {n \in Nat : \E after : after = PlatformsUpTo(n, after)}
           none == [seen |-> {}, files |-> dist, ok |-> TRUE]
<1>1. 0 \in T
  <2>1. [n \in 0..0 |-> none] = PlatformsUpTo(0, [n \in 0..0 |-> none])
    BY DEF PlatformsUpTo
  <2> QED
    BY <2>1
<1>2. ASSUME NEW l \in 1..m, l - 1 \in T PROVE l \in T
  <2>1. PICK old : old = PlatformsUpTo(l - 1, old)
    BY <1>2
  <2> DEFINE new == [n \in 0..l |-> IF n < l THEN old[n]
                                    ELSE PlatformRenamed(old[l - 1], Platforms[l])]
  <2>2. \A n \in 0..l : new[n] = PlatformsUpTo(l, new)[n]
    <3> SUFFICES ASSUME NEW n \in 0..l PROVE new[n] = PlatformsUpTo(l, new)[n]
      OBVIOUS
    <3>1. CASE n < l
      <4>1. new[n] = PlatformsUpTo(l - 1, old)[n]
        BY <2>1, <3>1
      <4>2. n # 0 => new[n - 1] = old[n - 1]
        BY <3>1
      <4> QED
        BY <3>1, <4>1, <4>2 DEF PlatformsUpTo
    <3>2. CASE n = l
      <4>1. new[n - 1] = old[n - 1]
        BY <3>2
      <4> QED
        BY <3>2, <4>1 DEF PlatformsUpTo
    <3> QED
      BY <3>1, <3>2
  <2>3. new = PlatformsUpTo(l, new)
    BY <2>2 DEF PlatformsUpTo
  <2> QED
    BY <2>3
<1>3. \A n \in 0..m : n \in T
  <2> HIDE DEF T
  <2> QED
    BY <1>1, <1>2, UpTo
<1> QED
  BY <1>3

LEMMA DedupStep ==
  \E after :
    /\ after[0] = Result({}, dist)
    /\ \A n \in 1..Len(Platforms) : after[n] = PlatformRenamed(after[n - 1], Platforms[n])
    /\ DedupAll = after[Len(Platforms)]
<1> DEFINE Is(after) == after = PlatformsUpTo(Len(Platforms), after)
           a == CHOOSE after : Is(after)
<1>0. Len(Platforms) \in Nat
  BY ReleaseAssumption
<1>1. Is(a)
  <2>1. \E after : Is(after)
    BY <1>0, PlatformsUpToExists
  <2> HIDE DEF Is
  <2> QED
    BY <2>1
<1>2. DedupAll = a[Len(Platforms)]
  BY DEF DedupAll, PlatformsUpTo
<1> HIDE DEF a
<1>3. \A n \in 0..Len(Platforms) :
        a[n] = IF n = 0 THEN Result({}, dist) ELSE PlatformRenamed(a[n - 1], Platforms[n])
  BY <1>1 DEF PlatformsUpTo, Result
<1>4. a[0] = Result({}, dist)
      /\ \A n \in 1..Len(Platforms) : a[n] = PlatformRenamed(a[n - 1], Platforms[n])
  BY <1>0, <1>3
<1> QED
  BY <1>2, <1>4

LEMMA PlacesAreFinite == ASSUME NEW p PROVE IsFiniteSet(Places(p))
<1>1. /\ IsFiniteSet({Library}) /\ IsFiniteSet({Metadata}) /\ IsFiniteSet({OwnList(p)})
      /\ IsFiniteSet({Sbom(p)}) /\ IsFiniteSet({Stray})
  BY FS_Singleton
<1>2. IsFiniteSet({Library} \cup {Metadata}) /\ IsFiniteSet({OwnList(p)} \cup {Sbom(p)})
  BY <1>1, FS_Union
<1>3. IsFiniteSet((({Library} \cup {Metadata}) \cup ({OwnList(p)} \cup {Sbom(p)})) \cup {Stray})
  BY <1>1, <1>2, FS_Union
<1>4. Places(p) = (({Library} \cup {Metadata}) \cup ({OwnList(p)} \cup {Sbom(p)})) \cup {Stray}
  BY DEF Places
<1> QED
  BY <1>3, <1>4

FilesOf(p) == {<<p, q>> : q \in Came(p)}

LEMMA PlatformKeeps ==
  ASSUME NEW acc, NEW done, Renaming(acc, done),
         NEW p \in AllPlatforms, DOMAIN dist[p] = Came(p), Came(p) \subseteq Places(p),
         FilesOf(p) \cap done = {}
  PROVE  Renaming(PlatformRenamed(acc, p), done \cup FilesOf(p))
<1> PICK found : found = SetToSeq(DOMAIN dist[p])
  OBVIOUS
<1>1. /\ Len(found) \in Nat
      /\ \A i \in 1..Len(found) : found[i] \in Came(p)
      /\ \A i, j \in 1..Len(found) : found[i] = found[j] => i = j
      /\ \A q \in Came(p) : \E i \in 1..Len(found) : found[i] = q
  <2>1. IsFiniteSet(Came(p))
    BY PlacesAreFinite, FS_Subset
  <2> QED
    BY <2>1, ListOfSet
<1>2. PICK after :
        /\ after[0] = acc
        /\ \A n \in 1..Len(found) : after[n] = Renamed(after[n - 1], p, found[n])
        /\ PlatformRenamed(acc, p) = after[Len(found)]
  BY <1>1, PlatformStep
<1> DEFINE Done(n) == done \cup {<<p, found[i]>> : i \in 1..n}
           T == {n \in Nat : Renaming(after[n], Done(n))}
<1>3. 0 \in T
  <2>1. Done(0) = done
    OBVIOUS
  <2> QED
    BY <1>2, <2>1
<1>4. ASSUME NEW n \in 1..Len(found), n - 1 \in T PROVE n \in T
  <2>1. Renaming(after[n - 1], Done(n - 1))
    BY <1>4
  <2>2. found[n] \in Came(p) /\ <<p, found[n]>> \notin Done(n - 1)
    <3>1. \A i \in 1..(n - 1) : i \in 1..Len(found) /\ i # n
      BY <1>1
    <3>2. \A i \in 1..(n - 1) : found[i] # found[n]
      BY <1>1, <3>1
    <3>3. found[n] \in Came(p) /\ <<p, found[n]>> \notin done
      BY <1>1 DEF FilesOf
    <3> QED
      BY <3>2, <3>3
  <2>3. Done(n) = Done(n - 1) \cup {<<p, found[n]>>}
    <3>1. 1..n = (1..(n - 1)) \cup {n}
      BY <1>1
    <3> QED
      BY <3>1
  <2>4. n \in Nat /\ after[n] = Renamed(after[n - 1], p, found[n])
    BY <1>1, <1>2
  <2>5. Renaming(Renamed(after[n - 1], p, found[n]), Done(n - 1) \cup {<<p, found[n]>>})
    <3> HIDE DEF Done, T
    <3> QED
      BY <2>1, <2>2, RenamedKeeps
  <2> HIDE DEF Done
  <2> QED
    BY <2>3, <2>4, <2>5
<1>5. Len(found) \in T
  <2>1. \A n \in 0..Len(found) : n \in T
    <3> HIDE DEF T
    <3> QED
      BY <1>1, <1>3, <1>4, UpTo
  <2>2. Len(found) \in 0..Len(found)
    BY <1>1
  <2> HIDE DEF T
  <2> QED
    BY <2>1, <2>2
<1>6. Done(Len(found)) = done \cup FilesOf(p)
  BY <1>1 DEF FilesOf
<1> HIDE DEF Done
<1> QED
  BY <1>2, <1>5, <1>6

\* The files of some platforms.
FilesOfAll(some) == UNION {FilesOf(p) : p \in some}

LEMMA DedupKeeps ==
  ASSUME dist = [p \in AllPlatforms |-> dist[p]], delivered = dist,
         \A p \in AllPlatforms : Came(p) \subseteq Places(p)
  PROVE  Renaming(DedupAll, FilesOfAll(AllPlatforms))
<1>1. /\ Len(Platforms) \in Nat
      /\ \A i \in 1..Len(Platforms) : Platforms[i] \in AllPlatforms
      /\ \A i, j \in 1..Len(Platforms) : Platforms[i] = Platforms[j] => i = j
      /\ \A p \in AllPlatforms : \E i \in 1..Len(Platforms) : Platforms[i] = p
  <2>1. Platforms \in Seq(AllPlatforms) /\ IsInjective(Platforms)
    BY ReleaseAssumption
  <2>2. DOMAIN Platforms = 1..Len(Platforms)
    BY <2>1
  <2> QED
    BY <2>1, <2>2 DEF IsInjective, AllPlatforms, ToSet
<1>2. PICK after :
        /\ after[0] = Result({}, dist)
        /\ \A n \in 1..Len(Platforms) : after[n] = PlatformRenamed(after[n - 1], Platforms[n])
        /\ DedupAll = after[Len(Platforms)]
  BY DedupStep
<1> DEFINE First(n) == {Platforms[i] : i \in 1..n}
           T == {n \in Nat : Renaming(after[n], FilesOfAll(First(n)))}
<1>3. 0 \in T
  <2>1. FilesOfAll(First(0)) = {}
    BY DEF FilesOfAll, FilesOf
  <2>2. \A p \in AllPlatforms : Came(p) = DOMAIN dist[p]
    BY DEF Came
  <2>3. \A p \in AllPlatforms : \A q \in Came(p) : Prefixed(p, q) \notin Came(p)
    BY PrefixedElse
  <2>4. \A p \in AllPlatforms : OneName(p, dist[p])
    BY <2>2, <2>3 DEF OneName
  <2>5. RenamingInv({}, dist, {})
    BY <2>2, <2>4 DEF RenamingInv, KeptApart
  <2>6. Renaming(after[0], {})
    BY <1>2, <2>5 DEF Renaming
  <2> QED
    BY <2>1, <2>6
<1>4. ASSUME NEW n \in 1..Len(Platforms), n - 1 \in T PROVE n \in T
  <2>1. Renaming(after[n - 1], FilesOfAll(First(n - 1)))
    BY <1>4
  <2> PICK p : p = Platforms[n]
    OBVIOUS
  <2>2. p \in AllPlatforms /\ p \notin First(n - 1)
    <3>1. \A i \in 1..(n - 1) : i \in 1..Len(Platforms) /\ i # n
      BY <1>1
    <3>2. \A i \in 1..(n - 1) : Platforms[i] # Platforms[n]
      BY <1>1, <3>1
    <3> QED
      BY <1>1, <3>2
  <2>3. First(n) = First(n - 1) \cup {p}
    <3>1. 1..n = (1..(n - 1)) \cup {n}
      BY <1>1
    <3> QED
      BY <3>1
  <2>4. FilesOfAll(First(n)) = FilesOfAll(First(n - 1)) \cup FilesOf(p)
    <3> HIDE DEF First
    <3> QED
      BY <2>3 DEF FilesOfAll, FilesOf
  <2>5. FilesOf(p) \cap FilesOfAll(First(n - 1)) = {}
    <3> HIDE DEF First
    <3> QED
      BY <2>2 DEF FilesOfAll, FilesOf
  <2>6. DOMAIN dist[p] = Came(p) /\ Came(p) \subseteq Places(p)
    BY <2>2 DEF Came
  <2>7. n \in Nat /\ after[n] = PlatformRenamed(after[n - 1], p)
    BY <1>1, <1>2
  <2>8. Renaming(PlatformRenamed(after[n - 1], p), FilesOfAll(First(n - 1)) \cup FilesOf(p))
    <3> HIDE DEF First, T
    <3> QED
      BY <2>1, <2>2, <2>5, <2>6, PlatformKeeps
  <2> HIDE DEF First
  <2> QED
    BY <2>4, <2>7, <2>8
<1>5. Len(Platforms) \in T
  <2>1. \A n \in 0..Len(Platforms) : n \in T
    <3> HIDE DEF T
    <3> QED
      BY <1>1, <1>3, <1>4, UpTo
  <2>2. Len(Platforms) \in 0..Len(Platforms)
    BY <1>1
  <2> HIDE DEF T
  <2> QED
    BY <2>1, <2>2
<1>6. First(Len(Platforms)) = AllPlatforms
  BY <1>1
<1> HIDE DEF First
<1> QED
  BY <1>2, <1>5, <1>6

IsFiles(files) == files = [q \in DOMAIN files |-> files[q]]

\* The build's files.
BuiltFiles(p, files) ==
  /\ IsFiles(files) /\ DOMAIN files = {Library, Metadata, OwnList(p)}
  /\ files[Library] = Content("library") /\ files[Metadata] = Content(env)
  /\ files[OwnList(p)] = [is |-> "sums", of |-> Listing(files, OwnList(p))]

\* What accidents leave of a platform's files: a list only where it writes one.
Shape(p, files) ==
  /\ IsFiles(files) /\ DOMAIN files \subseteq Places(p)
  /\ \A q \in DOMAIN files : files[q].is = "sums" => q = OwnList(p)

\* The upload of the SBOM's job, from what it got.
UploadFiles(p, files, got) ==
  /\ Shape(p, files) /\ OwnList(p) \in DOMAIN files /\ Sbom(p) \in DOMAIN files
  /\ files[OwnList(p)] = [is |-> "sums", of |-> Listing(files, OwnList(p))]
  /\ got = first[p] => Library \in DOMAIN files /\ files[Library] = Content("library")

\* What accidents leave of an upload: no list but one of the two uploads'.
Near(p, files) ==
  /\ Shape(p, files)
  /\ \A q \in DOMAIN files : files[q].is = "sums" =>
       files[q] \in {first[p][OwnList(p)], uploaded[p][OwnList(p)]}

LEMMA ContentIs == \A is : Content(is).is = is
BY DEF Content

\* A list lists neither itself nor what it replaces.
SummedAt(files, place, summed) ==
  /\ IsFiles(summed) /\ DOMAIN summed = DOMAIN files \cup {place}
  /\ summed[place] = [is |-> "sums", of |-> Listing(summed, place)]
  /\ \A q \in DOMAIN files : q # place => summed[q] = files[q]

LEMMA SummedFacts ==
  ASSUME NEW files, NEW place, NEW summed, summed = Summed(files, place)
  PROVE  SummedAt(files, place, summed)
<1> PICK sums : sums = [is |-> "sums", of |-> Listing(files, place)]
  OBVIOUS
<1>1. summed = [q \in DOMAIN files \cup {place} |-> IF q = place THEN sums ELSE files[q]]
  BY DEF Summed, Put
<1>2. Listing(summed, place) = Listing(files, place)
  BY <1>1 DEF Listing
<1>3. DOMAIN summed = DOMAIN files \cup {place} /\ summed[place] = sums
      /\ \A q \in DOMAIN files : q # place => summed[q] = files[q]
  BY <1>1
<1>4. IsFiles(summed)
  BY <1>1 DEF IsFiles
<1> QED
  BY <1>2, <1>3, <1>4 DEF SummedAt

LEMMA BuildGives ==
  ASSUME NEW p, NEW lib, lib = Content("library")
  PROVE  BuiltFiles(p, Summed(WithMetadata(Put(NoFiles, Library, lib)), OwnList(p)))
<1> PICK a : a = Put(NoFiles, Library, lib)
  OBVIOUS
<1>1. DOMAIN a = {Library} /\ a[Library] = lib
  BY DEF Put, NoFiles
<1> PICK b : b = WithMetadata(a)
  OBVIOUS
<1>2. DOMAIN b = {Library, Metadata} /\ b[Library] = lib /\ b[Metadata] = Content(env)
  BY <1>1, PlacesApart DEF WithMetadata, Put
<1> PICK c : c = Summed(b, OwnList(p))
  OBVIOUS
<1>3. /\ IsFiles(c) /\ DOMAIN c = DOMAIN b \cup {OwnList(p)}
      /\ c[OwnList(p)] = [is |-> "sums", of |-> Listing(c, OwnList(p))]
      /\ \A q \in DOMAIN b : q # OwnList(p) => c[q] = b[q]
  <2>1. SummedAt(b, OwnList(p), c)
    BY SummedFacts
  <2> QED
    BY <2>1 DEF SummedAt
<1>4. BuiltFiles(p, c)
  BY <1>2, <1>3, OwnListApart DEF BuiltFiles
<1> QED
  BY <1>4

LEMMA BuildHasShape ==
  ASSUME NEW p, NEW files, BuiltFiles(p, files), env \in {"ci", "local"}
  PROVE  Shape(p, files)
BY ContentIs DEF BuiltFiles, Shape, Places

LEMMA NoFilesHaveShape == \A p : Shape(p, NoFiles)
BY DEF Shape, IsFiles, NoFiles

LEMMA PutKeepsShape ==
  ASSUME NEW p, NEW files, Shape(p, files), NEW q \in Places(p), NEW c,
         c.is = "sums" => q = OwnList(p)
  PROVE  Shape(p, Put(files, q, c))
BY DEF Shape, Put, IsFiles

LEMMA AccidentKeepsShape ==
  ASSUME NEW p, NEW files, Shape(p, files), NEW earlier, Shape(p, earlier),
         NEW left \in Accident(files, earlier)
  PROVE  Shape(p, left)
<1>1. ASSUME NEW q, left = Without(files, q) PROVE Shape(p, left)
  BY <1>1 DEF Shape, Without, IsFiles
<1>2. ASSUME NEW q \in DOMAIN files \cup {Stray}, left = Put(files, q, Damaged)
      PROVE  Shape(p, left)
  <2>1. Damaged.is # "sums" /\ q \in Places(p)
    BY ContentIs DEF Damaged, Shape, Places
  <2> QED
    BY <1>2, <2>1, PutKeepsShape
<1>3. ASSUME NEW q \in DOMAIN earlier, left = Put(files, q, earlier[q]) PROVE Shape(p, left)
  <2>1. q \in Places(p) /\ (earlier[q].is = "sums" => q = OwnList(p))
    BY DEF Shape
  <2> QED
    BY <1>3, <2>1, PutKeepsShape
<1> QED
  BY <1>1, <1>2, <1>3 DEF Accident

LEMMA SbomGives ==
  ASSUME NEW p, NEW files, Shape(p, files), BuiltFiles(p, first[p])
  PROVE  UploadFiles(p, Summed(Put(files, Sbom(p), Content("sbom")), OwnList(p)), files)
<1> PICK b : b = Put(files, Sbom(p), Content("sbom"))
  OBVIOUS
<1>1. /\ DOMAIN b = DOMAIN files \cup {Sbom(p)} /\ b[Sbom(p)] = Content("sbom")
      /\ \A q \in DOMAIN files \ {Sbom(p)} : b[q] = files[q]
  BY DEF Put
<1>2. Shape(p, b)
  <2>1. Content("sbom").is # "sums" /\ Sbom(p) \in Places(p)
    BY ContentIs DEF Places
  <2> QED
    BY <2>1, PutKeepsShape
<1> PICK c : c = Summed(b, OwnList(p))
  OBVIOUS
<1>3. /\ IsFiles(c) /\ DOMAIN c = DOMAIN b \cup {OwnList(p)}
      /\ c[OwnList(p)] = [is |-> "sums", of |-> Listing(c, OwnList(p))]
      /\ \A q \in DOMAIN b : q # OwnList(p) => c[q] = b[q]
  <2>1. SummedAt(b, OwnList(p), c)
    BY SummedFacts
  <2> QED
    BY <2>1 DEF SummedAt
<1>4. Shape(p, c)
  BY <1>2, <1>3 DEF Shape, Places
<1>5. files = first[p] => Library \in DOMAIN c /\ c[Library] = Content("library")
  BY <1>1, <1>3, OwnListApart, PlacesApart DEF BuiltFiles
<1> QED
  BY <1>1, <1>3, <1>4, <1>5 DEF UploadFiles

LEMMA AccidentStaysNear ==
  ASSUME NEW p, BuiltFiles(p, first[p]), Near(p, dist[p]), env \in {"ci", "local"},
         NEW files \in Accident(dist[p], first[p])
  PROVE  Near(p, files)
<1>1. Shape(p, first[p]) /\ Shape(p, dist[p])
  BY BuildHasShape DEF Near
<1>2. Shape(p, files)
  BY <1>1, AccidentKeepsShape
<1>3. \A q \in DOMAIN first[p] : first[p][q].is = "sums" => first[p][q] = first[p][OwnList(p)]
  BY <1>1 DEF Shape
<1>4. ASSUME NEW q \in DOMAIN files
      PROVE  \/ q \in DOMAIN dist[p] /\ files[q] = dist[p][q]
             \/ files[q] = Damaged
             \/ q \in DOMAIN first[p] /\ files[q] = first[p][q]
  <2>1. CASE \E r \in DOMAIN dist[p] : files = Without(dist[p], r)
    BY <2>1 DEF Without
  <2>2. CASE \E r \in DOMAIN dist[p] \cup {Stray} : files = Put(dist[p], r, Damaged)
    BY <2>2 DEF Put
  <2>3. CASE \E r \in DOMAIN first[p] : files = Put(dist[p], r, first[p][r])
    BY <2>3 DEF Put
  <2> QED
    BY <2>1, <2>2, <2>3 DEF Accident
<1>5. Damaged.is # "sums"
  BY ContentIs DEF Damaged
<1>6. \A q \in DOMAIN files : files[q].is = "sums" =>
        files[q] \in {first[p][OwnList(p)], uploaded[p][OwnList(p)]}
  BY <1>3, <1>4, <1>5 DEF Near
<1> QED
  BY <1>2, <1>6 DEF Near

\* An SBOM is found under its own name only.
LEMMA SbomFound ==
  ASSUME NEW p, NEW q \in Places(p), q.name[Len(q.name)] = "cdx.json"
  PROVE  q = Sbom(p)
<1>1. /\ Len(Library.name) = 1 /\ Len(Metadata.name) = 1 /\ Len(Json.name) = 1
      /\ Len(Txt.name) = 1 /\ Len(Stray.name) = 1
  BY PlaceNames
<1>2. /\ Library.name[1] = "policy_core" /\ Metadata.name[1] = "build-metadata.json"
      /\ Json.name[1] = "SHA256SUMS.json" /\ Txt.name[1] = "SHA256SUMS.txt"
      /\ Stray.name[1] = "stray"
  BY PlaceNames
<1>3. q \in {Library, Metadata, Json, Txt, Stray, Sbom(p)}
  BY DEF Places, OwnList
<1> QED
  BY <1>1, <1>2, <1>3

LEMMA SameListing ==
  ASSUME NEW f, NEW g, NEW place, Listing(f, place) = Listing(g, place)
  PROVE  /\ DOMAIN f \ {place} = DOMAIN g \ {place}
         /\ \A q \in DOMAIN f \ {place} : f[q] = g[q]
<1>1. ASSUME NEW a, NEW b, Listing(a, place) = Listing(b, place), NEW q \in DOMAIN a \ {place}
      PROVE  q \in DOMAIN b \ {place} /\ a[q] = b[q]
  <2>1. <<q, a[q]>> \in Listing(b, place)
    BY <1>1 DEF Listing
  <2> QED
    BY <2>1 DEF Listing
<1> QED
  BY <1>1

\* What the gate lets pass is the upload itself, with the metadata of a CI run.
LEMMA GateIsSharp ==
  ASSUME NEW p, NEW got, BuiltFiles(p, first[p]), UploadFiles(p, uploaded[p], got),
         Near(p, dist[p]), PassesGate(dist[p])
  PROVE  /\ dist[p] = uploaded[p]
         /\ Metadata \in DOMAIN uploaded[p] /\ uploaded[p][Metadata] = Content("ci")
<1> PICK f, u, a, l : f = dist[p] /\ u = uploaded[p] /\ a = first[p] /\ l = OwnList(p)
  OBVIOUS
<1>1. SumsOf(f) = l /\ l \in DOMAIN f /\ f[l] \in {a[l], u[l]} /\ f[l].of = Listing(f, l)
  BY DEF PassesGate, Reconciled, Near, Shape
<1>2. a[l].of = Listing(a, l) /\ u[l].of = Listing(u, l)
  BY DEF BuiltFiles, UploadFiles
<1>3. Sbom(p) \in DOMAIN f /\ Sbom(p) # l
  BY SbomFound, OwnListApart DEF PassesGate, Near, Shape
<1>4. f[l] # a[l]
  <2>1. SUFFICES ASSUME f[l] = a[l] PROVE FALSE
    OBVIOUS
  <2>2. Sbom(p) \in DOMAIN a
    BY <1>1, <1>2, <1>3, <2>1, SameListing
  <2> QED
    BY <1>3, <2>2, PlacesApart DEF BuiltFiles
<1>5. Listing(f, l) = Listing(u, l) /\ f[l] = u[l]
  BY <1>1, <1>2, <1>4
<1>6. l \in DOMAIN u
  BY DEF UploadFiles
<1>7. DOMAIN f = DOMAIN u /\ \A q \in DOMAIN f : f[q] = u[q]
  BY <1>1, <1>5, <1>6, SameListing
<1>8. f = u
  BY <1>7 DEF IsFiles, Near, UploadFiles, Shape
<1> QED
  BY <1>8 DEF PassesGate

\* A platform's files from the renaming on: what came, each file under its own
\* name or the prefixed one, and for the list perhaps another.
SameContent(p, q, content) ==
  content = delivered[p][q] \/ (q = OwnList(p) /\ content.is = "sums")

AssetFiles(p, files) ==
  /\ Came(p) \subseteq Places(p)
  /\ \A q \in Came(p) :
       \/ /\ q \in DOMAIN files /\ Prefixed(p, q) \notin DOMAIN files
          /\ SameContent(p, q, files[q])
       \/ /\ q \notin DOMAIN files /\ Prefixed(p, q) \in DOMAIN files
          /\ SameContent(p, q, files[Prefixed(p, q)])
  /\ \A r \in DOMAIN files : r \in Came(p) \/ \E q \in Came(p) : r = Prefixed(p, q)

\* The list has been written, under the one name or the other.
ListWritten(p, files) ==
  \A r \in {OwnList(p), Prefixed(p, OwnList(p))} \cap DOMAIN files : files[r].is = "sums"

NamesApart(files) ==
  \A p, s \in AllPlatforms : \A q \in DOMAIN files[p], r \in DOMAIN files[s] :
    q.name = r.name => p = s /\ q = r

LEMMA RenamedIsAsset ==
  ASSUME NEW seen, NEW files, RenamingInv(seen, files, FilesOfAll(AllPlatforms))
  PROVE  NamesApart(files) /\ \A p \in AllPlatforms : AssetFiles(p, files[p])
<1>0. \A p \in AllPlatforms : Came(p) \subseteq Places(p) /\ Came(p) \subseteq KnownPlaces(p)
  BY PlacesAreKnown DEF RenamingInv, OneName
<1>1. ASSUME NEW p \in AllPlatforms, NEW s \in AllPlatforms,
             NEW q \in DOMAIN files[p], NEW r \in DOMAIN files[s], q.name = r.name
      PROVE  p = s /\ q = r
  <2>1. /\ q \in Came(p) \/ \E k \in Came(p) : q = Prefixed(p, k)
        /\ r \in Came(s) \/ \E k \in Came(s) : r = Prefixed(s, k)
    BY DEF RenamingInv, OneName
  <2>2. CASE q \in Came(p) /\ r \in Came(s)
    <3>1. <<p, q>> \in FilesOfAll(AllPlatforms) /\ <<s, r>> \in FilesOfAll(AllPlatforms)
      BY <2>2 DEF FilesOfAll, FilesOf
    <3>2. p = s
      BY <1>1, <2>2, <3>1 DEF RenamingInv, KeptApart
    <3> QED
      BY <1>1, <2>2, <3>2, OneNameOnePlace, <1>0
  <2>3. ASSUME NEW k \in Came(p), q = Prefixed(p, k), r \in Came(s) PROVE FALSE
    BY <1>1, <2>3, PrefixedIsNew, <1>0
  <2>4. ASSUME NEW k \in Came(s), r = Prefixed(s, k), q \in Came(p) PROVE FALSE
    BY <1>1, <2>4, PrefixedIsNew, <1>0
  <2>5. ASSUME NEW k \in Came(p), q = Prefixed(p, k), NEW m \in Came(s), r = Prefixed(s, m)
        PROVE  p = s /\ q = r
    <3>1. p = s /\ k = m
      BY <1>1, <2>5, PrefixedTellsApart, <1>0
    <3> QED
      BY <2>5, <3>1
  <2> QED
    BY <2>1, <2>2, <2>3, <2>4, <2>5
<1>2. NamesApart(files)
  BY <1>1 DEF NamesApart
<1>3. \A p \in AllPlatforms : AssetFiles(p, files[p])
  BY DEF RenamingInv, OneName, AssetFiles, SameContent
<1> QED
  BY <1>2, <1>3

\* The publish job finds the list under the one name or the other.
LEMMA FinalSumsFound ==
  ASSUME NEW p, AssetFiles(p, dist[p]), HasSums(p)
  PROVE  /\ FinalSums(p) \in DOMAIN dist[p]
         /\ FinalSums(p) \in {OwnList(p), Prefixed(p, OwnList(p))}
<1> PICK order : order = SumsOrder(p)
  OBVIOUS
<1> DEFINE I == {i \in 1..Len(order) : order[i] \in DOMAIN dist[p]}
<1>1. Len(order) = 4 /\ order[1] = Json /\ order[2] = Prefixed(p, Json)
      /\ order[3] = Txt /\ order[4] = Prefixed(p, Txt) /\ DOMAIN order = 1..4
  BY DEF SumsOrder
<1>2. I # {}
  BY <1>1 DEF HasSums, ToSet
<1>3. FinalSums(p) = order[Min(I)]
  BY <1>2 DEF FinalSums, SelectInSeq
<1>4. Min(I) \in I
  <2>1. I \in SUBSET Nat
    OBVIOUS
  <2> HIDE DEF I
  <2>2. \E x \in I : \A y \in I : x <= y
    BY <1>2, <2>1, LeastElement
  <2> QED
    BY <2>2 DEF Min
<1>5. FinalSums(p) \in DOMAIN dist[p]
  BY <1>3, <1>4
<1>6. FinalSums(p) \in {Json, Prefixed(p, Json), Txt, Prefixed(p, Txt)}
  BY <1>1, <1>3, <1>4
<1>7. ASSUME NEW l \in {Json, Txt}, l # OwnList(p)
      PROVE  l \notin DOMAIN dist[p] /\ Prefixed(p, l) \notin DOMAIN dist[p]
  <2>1. l \in KnownPlaces(p) /\ l \notin Places(p)
    BY <1>7, PlacesApart DEF KnownPlaces, Places
  <2>2. \A k \in Places(p) : Prefixed(p, k) # l /\ Prefixed(p, l) # k /\ Prefixed(p, k) # Prefixed(p, l)
    BY <2>1, PrefixedIsNew, PrefixedTellsApart, PlacesAreKnown
  <2>3. \A k \in Came(p) : Prefixed(p, k) # l /\ Prefixed(p, l) # k
                            /\ Prefixed(p, k) # Prefixed(p, l) /\ k # l
    BY <2>1, <2>2 DEF AssetFiles
  <2> QED
    BY <2>3 DEF AssetFiles
<1> QED
  BY <1>5, <1>6, <1>7

\* Writing the list again changes its content and nothing else.
LEMMA ResumKeeps ==
  ASSUME NEW p, AssetFiles(p, dist[p]), HasSums(p),
         NEW files, files = Summed(dist[p], FinalSums(p))
  PROVE  DOMAIN files = DOMAIN dist[p] /\ AssetFiles(p, files) /\ ListWritten(p, files)
<1> PICK s : s = FinalSums(p)
  OBVIOUS
<1>1. s \in DOMAIN dist[p] /\ s \in {OwnList(p), Prefixed(p, OwnList(p))}
  BY FinalSumsFound
<1>2. SummedAt(dist[p], s, files)
  BY SummedFacts
<1>3. DOMAIN files = DOMAIN dist[p] /\ files[s].is = "sums"
      /\ \A q \in DOMAIN dist[p] : q # s => files[q] = dist[p][q]
  BY <1>1, <1>2 DEF SummedAt
<1>4. OwnList(p) \in Places(p) /\ Came(p) \subseteq Places(p)
  BY DEF Places, AssetFiles
<1>5. ASSUME NEW q \in Came(p)
      PROVE  \/ /\ q \in DOMAIN files /\ Prefixed(p, q) \notin DOMAIN files
                /\ SameContent(p, q, files[q])
             \/ /\ q \notin DOMAIN files /\ Prefixed(p, q) \in DOMAIN files
                /\ SameContent(p, q, files[Prefixed(p, q)])
  <2>1. CASE q = OwnList(p)
    BY <1>1, <1>3, <2>1 DEF AssetFiles, SameContent
  <2>2. CASE q # OwnList(p)
    <3>1. q # s /\ Prefixed(p, q) # s
      BY <1>1, <1>4, <2>2, PrefixedElse
    <3> QED
      BY <1>3, <3>1 DEF AssetFiles
  <2> QED
    BY <2>1, <2>2
<1>6. AssetFiles(p, files)
  BY <1>3, <1>5 DEF AssetFiles
<1>7. OwnList(p) \in Came(p)
  <2>1. PICK q \in Came(p) : s = q \/ s = Prefixed(p, q)
    BY <1>1 DEF AssetFiles
  <2>2. q = OwnList(p)
    BY <1>1, <1>4, <2>1, PrefixedElse
  <2> QED
    BY <2>2
<1>8. ListWritten(p, files)
  BY <1>1, <1>3, <1>7 DEF ListWritten, AssetFiles
<1> QED
  BY <1>3, <1>6, <1>8

AssetsOf(files) ==
  UNION {{[p |-> p, place |-> q, content |-> files[p][q]] : q \in DOMAIN files[p]}
           : p \in AllPlatforms}

\* What the published assets of one platform hold.
LEMMA AssetsAreDelivered ==
  ASSUME NEW p \in AllPlatforms, AssetFiles(p, dist[p]), ListWritten(p, dist[p]),
         Shape(p, delivered[p]), assets = AssetsOf(dist)
  PROVE  {a.content : a \in {b \in assets : b.p = p /\ b.content.is # "sums"}}
           = {delivered[p][q] : q \in DOMAIN delivered[p] \ {OwnList(p)}}
<1>1. DOMAIN delivered[p] = Came(p) /\ Came(p) \subseteq Places(p)
  BY DEF Came, AssetFiles
<1>2. \A q \in Came(p) : q # OwnList(p) => delivered[p][q].is # "sums"
  BY <1>1 DEF Shape
<1>3. ASSUME NEW a \in assets, a.p = p, a.content.is # "sums"
      PROVE  \E q \in Came(p) \ {OwnList(p)} : a.content = delivered[p][q]
  <2>1. PICK r \in DOMAIN dist[p] : a = [p |-> p, place |-> r, content |-> dist[p][r]]
    BY <1>3 DEF AssetsOf
  <2>2. PICK q \in Came(p) : r = q \/ r = Prefixed(p, q)
    BY DEF AssetFiles
  <2>3. SameContent(p, q, a.content)
    <3>1. \A k \in Came(p) : Prefixed(p, q) # k /\ Prefixed(p, k) # q
      BY <1>1, PrefixedElse
    <3> QED
      BY <2>1, <2>2, <3>1 DEF AssetFiles
  <2>4. q # OwnList(p)
    BY <1>3, <2>1, <2>2 DEF ListWritten
  <2> QED
    BY <2>3, <2>4 DEF SameContent
<1>4. ASSUME NEW q \in Came(p), q # OwnList(p)
      PROVE  \E a \in assets : a.p = p /\ a.content.is # "sums" /\ a.content = delivered[p][q]
  <2>1. PICK r \in DOMAIN dist[p] : SameContent(p, q, dist[p][r])
    BY DEF AssetFiles
  <2>2. dist[p][r] = delivered[p][q]
    BY <1>4, <2>1 DEF SameContent
  <2> PICK a : a = [p |-> p, place |-> r, content |-> dist[p][r]]
    OBVIOUS
  <2>3. a \in assets
    BY DEF AssetsOf
  <2>4. a.p = p /\ a.content = delivered[p][q]
    BY <2>2
  <2> QED
    BY <1>2, <1>4, <2>3, <2>4
<1> QED
  BY <1>1, <1>3, <1>4

ReleaseFunctions ==
  /\ listed = [p \in AllPlatforms |-> Content("library")]
  /\ natives = [p \in AllPlatforms |-> natives[p]]
  /\ dist = [p \in AllPlatforms |-> dist[p]]
  /\ first = [p \in AllPlatforms |-> first[p]]
  /\ received = [p \in AllPlatforms |-> received[p]]
  /\ uploaded = [p \in AllPlatforms |-> uploaded[p]]
  /\ delivered = [p \in AllPlatforms |-> delivered[p]]

\* How far a platform's jobs are, and what its files are then.
JobInv(p) ==
  /\ stage[p] = "built" => BuiltFiles(p, first[p]) /\ Shape(p, dist[p])
  /\ stage[p] \in {"uploaded", "gated"} =>
       BuiltFiles(p, first[p]) /\ UploadFiles(p, uploaded[p], received[p])
  /\ stage[p] = "uploaded" => Near(p, dist[p])
  /\ stage[p] = "gated" =>
       /\ publish = "waiting" => dist[p] = uploaded[p]
       /\ Metadata \in DOMAIN uploaded[p] /\ uploaded[p][Metadata] = Content("ci")

AllGated == publish # "waiting" => \A p \in AllPlatforms : stage[p] = "gated"

JobsInv ==
  ReleaseTypeOK /\ ReleaseFunctions /\ (\A p \in AllPlatforms : JobInv(p)) /\ AllGated

\* Publication: files come, they are renamed, their names apart, their lists are
\* written, and the assets are they.
PublishInv ==
  /\ publish = "fetched" => delivered = dist
  /\ publish \in {"fetched", "renamed", "summed", "published"} =>
       \A p \in AllPlatforms : Shape(p, delivered[p])
  /\ publish \in {"renamed", "summed", "published"} =>
       NamesApart(dist) /\ \A p \in AllPlatforms : AssetFiles(p, dist[p])
  /\ publish \in {"summed", "published"} => \A p \in AllPlatforms : ListWritten(p, dist[p])
  /\ assets = IF publish = "published" THEN AssetsOf(dist) ELSE {}

UserInv ==
  /\ publish # "published" => deployed = NoFiles /\ archived = {}
  /\ verified => ArtifactSetVerified /\ publish = "published" /\ deployed # NoFiles
  /\ archived # {} => archived = Components

ReleaseInv == JobsInv /\ PublishInv /\ UserInv

LEMMA DamageBound == MaxDamage \in Nat
BY ReleaseAssumption

LEMMA ReleaseInvInit == ReleaseInit => ReleaseInv
<1> SUFFICES ASSUME ReleaseInit PROVE ReleaseInv
  OBVIOUS
<1>1. ReleaseTypeOK
  <2>1. damage \in 0..MaxDamage
    BY DamageBound DEF ReleaseInit
  <2>2. stage \in [AllPlatforms -> {"new", "built", "uploaded", "gated", "refused"}]
    BY DEF ReleaseInit
  <2> QED
    BY <2>1, <2>2 DEF ReleaseInit, ReleaseTypeOK
<1>2. ReleaseFunctions
  BY DEF ReleaseInit, ReleaseFunctions
<1>3. AllGated /\ \A p \in AllPlatforms : JobInv(p)
  BY DEF ReleaseInit, AllGated, JobInv
<1>4. PublishInv /\ UserInv
  BY DEF ReleaseInit, PublishInv, UserInv
<1> QED
  BY <1>1, <1>2, <1>3, <1>4 DEF ReleaseInv, JobsInv

\* A job of one platform, before publication.
LEMMA OtherJobs ==
  ASSUME JobsInv, NEW p \in AllPlatforms, ReleaseTypeOK', ReleaseFunctions', JobInv(p)',
         \A s \in AllPlatforms \ {p} :
           /\ stage'[s] = stage[s] /\ dist'[s] = dist[s]
           /\ first'[s] = first[s] /\ uploaded'[s] = uploaded[s]
           /\ received'[s] = received[s],
         env' = env, publish' = publish, publish = "waiting"
  PROVE  JobsInv'
<1>1. ASSUME NEW s \in AllPlatforms \ {p} PROVE JobInv(s)'
  <2>1. JobInv(s)
    BY DEF JobsInv
  <2> QED
    BY <2>1 DEF JobInv, BuiltFiles, UploadFiles, Near, Shape
<1>2. AllGated'
  BY DEF AllGated
<1> QED
  BY <1>1, <1>2 DEF JobsInv

LEMMA DamageNativeJobs ==
  ASSUME JobsInv, NEW p \in AllPlatforms, DamageNative(p)
  PROVE  JobsInv' /\ publish = "waiting" /\ UNCHANGED <<publish, assets, userVars>>
<1>1. publish = "waiting" /\ UNCHANGED <<publish, assets, userVars>>
  BY DEF JobsInv, AllGated, DamageNative
<1>2. ReleaseTypeOK' /\ ReleaseFunctions'
  <2>1. damage' \in 0..MaxDamage
    BY DamageBound DEF JobsInv, DamageNative, ReleaseTypeOK
  <2> QED
    BY <2>1 DEF JobsInv, DamageNative, ReleaseTypeOK, ReleaseFunctions, userVars
<1>3. JobInv(p)'
  BY DEF JobInv, DamageNative
<1>4. UNCHANGED <<env, dist, first, received, uploaded, stage>>
  BY DEF DamageNative
<1> QED
  BY <1>1, <1>2, <1>3, <1>4, OtherJobs

LEMMA BuildJobs ==
  ASSUME JobsInv, NEW p \in AllPlatforms, Build(p)
  PROVE  JobsInv' /\ publish = "waiting" /\ UNCHANGED <<publish, assets, userVars>>
<1>1. publish = "waiting" /\ UNCHANGED <<publish, assets, userVars>>
  BY DEF JobsInv, AllGated, Build
<1>2. stage' = [stage EXCEPT ![p] = stage'[p]] /\ stage'[p] \in {"refused", "built"}
      /\ dist' = [dist EXCEPT ![p] = dist'[p]] /\ first' = [first EXCEPT ![p] = first'[p]]
  BY DEF Build, JobsInv, ReleaseTypeOK, ReleaseFunctions
<1>3. ReleaseTypeOK'
  BY <1>1, <1>2 DEF JobsInv, Build, ReleaseTypeOK, userVars
<1>4. ReleaseFunctions'
  BY <1>2 DEF JobsInv, Build, ReleaseFunctions
<1>5. ASSUME stage'[p] = "built" PROVE BuiltFiles(p, first'[p]) /\ dist'[p] = first'[p]
  <2> PICK lib : lib = IF p \in NativeOf THEN natives[p] ELSE Content("library")
    OBVIOUS
  <2>1. lib = Content("library")
        /\ dist'[p] = Summed(WithMetadata(Put(NoFiles, Library, lib)), OwnList(p))
        /\ first'[p] = dist'[p]
    BY <1>5 DEF Build, JobsInv, ReleaseTypeOK, ReleaseFunctions
  <2> QED
    BY <2>1, BuildGives
<1>6. ASSUME stage'[p] = "built" PROVE BuiltFiles(p, first[p])' /\ Shape(p, dist[p])'
  <2>1. env' = env /\ env \in {"ci", "local"}
    BY DEF Build, JobsInv, ReleaseTypeOK
  <2>2. Shape(p, dist'[p])
    BY <1>5, <1>6, <2>1, BuildHasShape
  <2> QED
    BY <1>5, <1>6, <2>1, <2>2 DEF BuiltFiles, Shape
<1>7. UNCHANGED <<env, received, uploaded>> /\ stage'[p] = stage[p]' /\ stage[p]' \in {"built", "refused"}
  BY <1>2 DEF Build
<1>8. JobInv(p)'
  BY <1>6, <1>7 DEF JobInv
<1> QED
  BY <1>1, <1>2, <1>3, <1>4, <1>7, <1>8, OtherJobs DEF JobsInv, ReleaseTypeOK, ReleaseFunctions

LEMMA AddSbomJobs ==
  ASSUME JobsInv, NEW p \in AllPlatforms, AddSbom(p)
  PROVE  JobsInv' /\ publish = "waiting" /\ UNCHANGED <<publish, assets, userVars>>
<1>1. publish = "waiting" /\ UNCHANGED <<publish, assets, userVars>>
  BY DEF JobsInv, AllGated, AddSbom
<1>2. BuiltFiles(p, first[p]) /\ Shape(p, dist[p]) /\ env \in {"ci", "local"}
  BY DEF JobsInv, JobInv, AddSbom, ReleaseTypeOK
<1>3. /\ dist' = [dist EXCEPT ![p] = dist'[p]] /\ uploaded' = [uploaded EXCEPT ![p] = dist'[p]]
      /\ received' = [received EXCEPT ![p] = dist[p]]
      /\ stage' = [stage EXCEPT ![p] = "uploaded"]
      /\ dist'[p] = Summed(Put(dist[p], Sbom(p), Content("sbom")), OwnList(p))
      /\ UNCHANGED <<env, natives, listed, first, delivered, damage>>
  BY DEF AddSbom, JobsInv, ReleaseFunctions
<1>4. ReleaseTypeOK' /\ ReleaseFunctions'
  BY <1>1, <1>3 DEF JobsInv, ReleaseTypeOK, ReleaseFunctions, userVars
<1>5. /\ uploaded'[p] = dist'[p] /\ received'[p] = dist[p]
      /\ stage'[p] = "uploaded" /\ first'[p] = first[p]
  BY <1>3 DEF JobsInv, ReleaseTypeOK, ReleaseFunctions
<1>6. UploadFiles(p, dist'[p], dist[p])
  BY <1>2, <1>3, SbomGives
<1>7. UploadFiles(p, uploaded[p], received[p])' /\ BuiltFiles(p, first[p])'
  BY <1>2, <1>3, <1>5, <1>6 DEF UploadFiles, BuiltFiles, Shape
<1>8. Near(p, dist[p])'
  <2>1. Shape(p, dist'[p])
    BY <1>6 DEF UploadFiles
  <2>2. \A q \in DOMAIN dist'[p] : dist'[p][q].is = "sums" => dist'[p][q] = uploaded'[p][OwnList(p)]
    BY <1>5, <2>1 DEF Shape
  <2> QED
    BY <2>1, <2>2 DEF Near, Shape
<1>9. JobInv(p)'
  BY <1>5, <1>7, <1>8 DEF JobInv
<1> QED
  BY <1>1, <1>3, <1>4, <1>9, OtherJobs DEF JobsInv, ReleaseTypeOK, ReleaseFunctions

LEMMA DamageBuildJobs ==
  ASSUME JobsInv, NEW p \in AllPlatforms, DamageBuild(p)
  PROVE  JobsInv' /\ publish = "waiting" /\ UNCHANGED <<publish, assets, userVars>>
<1>1. publish = "waiting" /\ UNCHANGED <<publish, assets, userVars>>
  BY DEF JobsInv, AllGated, DamageBuild
<1>2. PICK files \in Accident(dist[p], NoFiles) : dist' = [dist EXCEPT ![p] = files]
  BY DEF DamageBuild, Damage
<1>3. BuiltFiles(p, first[p]) /\ Shape(p, dist[p])
  BY DEF JobsInv, JobInv, DamageBuild
<1>4. Shape(p, files)
  BY <1>3, AccidentKeepsShape, NoFilesHaveShape
<1>5. dist'[p] = files
      /\ UNCHANGED <<env, natives, listed, first, received, uploaded, delivered, stage>>
  BY <1>2 DEF DamageBuild, buildVars, uploadVars, JobsInv, ReleaseFunctions
<1>6. JobInv(p)'
  BY <1>3, <1>4, <1>5 DEF JobInv, BuiltFiles, Shape, DamageBuild
<1>7. ReleaseTypeOK' /\ ReleaseFunctions'
  <2>1. damage' \in 0..MaxDamage
    BY DamageBound DEF JobsInv, DamageBuild, Damage, ReleaseTypeOK
  <2> QED
    BY <1>1, <1>2, <1>5, <2>1 DEF JobsInv, ReleaseTypeOK, ReleaseFunctions, userVars
<1> QED
  BY <1>1, <1>2, <1>5, <1>6, <1>7, OtherJobs DEF JobsInv, ReleaseFunctions

LEMMA DamageUploadJobs ==
  ASSUME JobsInv, NEW p \in AllPlatforms, DamageUpload(p)
  PROVE  JobsInv' /\ publish = "waiting" /\ UNCHANGED <<publish, assets, userVars>>
<1>1. publish = "waiting" /\ UNCHANGED <<publish, assets, userVars>>
  BY DEF JobsInv, AllGated, DamageUpload
<1>2. PICK files \in Accident(dist[p], first[p]) : dist' = [dist EXCEPT ![p] = files]
  BY DEF DamageUpload, Damage
<1>3. BuiltFiles(p, first[p]) /\ Near(p, dist[p]) /\ env \in {"ci", "local"}
  BY DEF JobsInv, JobInv, DamageUpload, ReleaseTypeOK
<1>4. Near(p, files)
  BY <1>3, AccidentStaysNear
<1>5. dist'[p] = files
      /\ UNCHANGED <<env, natives, listed, first, received, uploaded, delivered, stage>>
  BY <1>2 DEF DamageUpload, buildVars, uploadVars, JobsInv, ReleaseFunctions
<1>6. Near(p, dist[p])'
  BY <1>4, <1>5 DEF Near, Shape
<1>7. JobInv(p)
  BY DEF JobsInv
<1>8. JobInv(p)'
  BY <1>5, <1>6, <1>7 DEF JobInv, BuiltFiles, UploadFiles, Shape, DamageUpload
<1>9. ReleaseTypeOK' /\ ReleaseFunctions'
  <2>1. damage' \in 0..MaxDamage
    BY DamageBound DEF JobsInv, DamageUpload, Damage, ReleaseTypeOK
  <2> QED
    BY <1>1, <1>2, <1>5, <2>1
    DEF JobsInv, ReleaseTypeOK, ReleaseFunctions, userVars
<1> QED
  BY <1>1, <1>2, <1>5, <1>8, <1>9, OtherJobs DEF JobsInv, ReleaseFunctions

LEMMA GateJobs ==
  ASSUME JobsInv, NEW p \in AllPlatforms, Gate(p)
  PROVE  JobsInv' /\ publish = "waiting" /\ UNCHANGED <<publish, assets, userVars>>
<1>1. publish = "waiting" /\ UNCHANGED <<publish, assets, userVars>>
  BY DEF JobsInv, AllGated, Gate
<1>2. /\ BuiltFiles(p, first[p]) /\ UploadFiles(p, uploaded[p], received[p])
      /\ Near(p, dist[p])
  BY DEF JobsInv, JobInv, Gate
<1>3. UNCHANGED <<env, natives, listed, first, received, uploaded, delivered, dist, damage>>
      /\ stage' = [stage EXCEPT ![p] = stage'[p]]
      /\ stage'[p] = IF PassesGate(dist[p]) THEN "gated" ELSE "refused"
  BY DEF Gate, buildVars, uploadVars, JobsInv, ReleaseTypeOK
<1>4. ReleaseTypeOK' /\ ReleaseFunctions'
  BY <1>1, <1>3 DEF JobsInv, ReleaseTypeOK, ReleaseFunctions, userVars
<1>5. stage'[p] = "gated" =>
        /\ dist[p] = uploaded[p]
        /\ Metadata \in DOMAIN uploaded[p] /\ uploaded[p][Metadata] = Content("ci")
  BY <1>2, <1>3, GateIsSharp
<1>6. BuiltFiles(p, first[p])' /\ UploadFiles(p, uploaded[p], received[p])'
  BY <1>2, <1>3 DEF BuiltFiles, UploadFiles, Shape
<1>7. JobInv(p)'
  BY <1>3, <1>5, <1>6 DEF JobInv
<1> QED
  BY <1>1, <1>3, <1>4, <1>7, OtherJobs DEF JobsInv, ReleaseTypeOK

-----------------------------------------------------------------------------

\* A step of the publication.
LEMMA LaterJobs ==
  ASSUME JobsInv, \A p \in AllPlatforms : stage[p] = "gated",
         publish' \in {"fetched", "renamed", "summed", "published", "refused"},
         UNCHANGED <<uploadVars, stage, userVars>>, damage' \in 0..MaxDamage,
         dist' = [p \in AllPlatforms |-> dist'[p]],
         delivered' = [p \in AllPlatforms |-> delivered'[p]]
  PROVE  JobsInv'
<1>1. UNCHANGED <<env, natives, listed, first, received, uploaded, stage, verified>>
  BY DEF uploadVars, userVars
<1>2. ReleaseTypeOK' /\ ReleaseFunctions'
  BY <1>1 DEF JobsInv, ReleaseTypeOK, ReleaseFunctions
<1>3. \A p \in AllPlatforms : stage[p] = "gated" /\ JobInv(p)
  BY DEF JobsInv
<1>4. \A p \in AllPlatforms : JobInv(p)'
  BY <1>1, <1>3 DEF JobInv, BuiltFiles, UploadFiles, Shape
<1>5. AllGated'
  BY <1>1, <1>3 DEF AllGated
<1> QED
  BY <1>2, <1>4, <1>5 DEF JobsInv

LEMMA FetchKeepsInv ==
  ASSUME JobsInv, PublishInv, Fetch
  PROVE  JobsInv' /\ PublishInv' /\ publish = "waiting"
<1>1. /\ publish = "waiting" /\ publish' = "fetched" /\ delivered' = dist /\ dist' = dist
      /\ UNCHANGED <<uploadVars, stage, assets, userVars, damage>>
      /\ \A p \in AllPlatforms : stage[p] = "gated"
  BY DEF Fetch
<1>2. JobsInv'
  BY <1>1, LaterJobs DEF JobsInv, ReleaseFunctions, ReleaseTypeOK
<1>3. ASSUME NEW p \in AllPlatforms PROVE Shape(p, delivered[p])'
  <2>1. dist[p] = uploaded[p] /\ Shape(p, uploaded[p])
    BY <1>1 DEF JobsInv, JobInv, UploadFiles
  <2> QED
    BY <1>1, <2>1 DEF Shape
<1>4. PublishInv'
  BY <1>1, <1>3 DEF PublishInv
<1> QED
  BY <1>1, <1>2, <1>4

LEMMA DamageFetchKeepsInv ==
  ASSUME JobsInv, PublishInv, NEW p \in AllPlatforms, DamageFetch(p)
  PROVE  JobsInv' /\ PublishInv' /\ publish = "fetched" /\ UNCHANGED userVars
<1>1. /\ publish = "fetched" /\ publish' = "fetched" /\ delivered' = dist'
      /\ UNCHANGED <<uploadVars, stage, assets, userVars>>
  BY DEF DamageFetch
<1>2. PICK files \in Accident(dist[p], first[p]) : dist' = [dist EXCEPT ![p] = files]
  BY DEF DamageFetch, Damage
<1>3. damage' \in 0..MaxDamage
  BY DamageBound DEF DamageFetch, Damage, JobsInv, ReleaseTypeOK
<1>4. /\ \A s \in AllPlatforms : stage[s] = "gated"
      /\ dist' = [s \in AllPlatforms |-> dist'[s]] /\ dist'[p] = files
      /\ \A s \in AllPlatforms \ {p} : dist'[s] = dist[s]
  BY <1>1, <1>2 DEF JobsInv, AllGated, ReleaseFunctions
<1>5. JobsInv'
  BY <1>1, <1>3, <1>4, LaterJobs
<1>6. \A s \in AllPlatforms : Shape(s, dist[s])
  BY <1>1 DEF PublishInv
<1>7. Shape(p, files)
  <2>1. BuiltFiles(p, first[p]) /\ env \in {"ci", "local"}
    BY <1>4 DEF JobsInv, JobInv, ReleaseTypeOK
  <2>2. Shape(p, first[p])
    BY <2>1, BuildHasShape
  <2> QED
    BY <1>6, <2>2, AccidentKeepsShape
<1>8. \A s \in AllPlatforms : Shape(s, delivered[s])'
  BY <1>1, <1>4, <1>6, <1>7 DEF Shape
<1>9. PublishInv'
  BY <1>1, <1>8 DEF PublishInv
<1> QED
  BY <1>1, <1>5, <1>9

LEMMA DedupKeepsInv ==
  ASSUME JobsInv, PublishInv, Dedup
  PROVE  JobsInv' /\ PublishInv' /\ publish' = "renamed"
<1>1. delivered = dist /\ \A p \in AllPlatforms : Shape(p, delivered[p])
  BY DEF PublishInv, Dedup
<1>2. PICK seen, files :
        DedupAll = Result(seen, files) /\ RenamingInv(seen, files, FilesOfAll(AllPlatforms))
  <2>1. \A p \in AllPlatforms : Came(p) \subseteq Places(p)
    BY <1>1 DEF Came, Shape
  <2>2. Renaming(DedupAll, FilesOfAll(AllPlatforms))
    BY <1>1, <2>1, DedupKeeps DEF JobsInv, ReleaseFunctions
  <2> QED
    BY <2>2 DEF Renaming
<1>3. /\ publish = "fetched" /\ publish' = "renamed" /\ dist' = files
      /\ UNCHANGED <<uploadVars, delivered, stage, assets, userVars, damage>>
  BY <1>2 DEF Dedup, Result, buildVars
<1>4. NamesApart(files) /\ \A p \in AllPlatforms : AssetFiles(p, files[p])
  BY <1>2, RenamedIsAsset
<1>5. NamesApart(dist)' /\ \A p \in AllPlatforms : AssetFiles(p, dist[p])'
  BY <1>3, <1>4 DEF NamesApart, AssetFiles, SameContent, Came
<1>6. \A p \in AllPlatforms : Shape(p, delivered[p])'
  BY <1>1, <1>3 DEF Shape
<1>7. PublishInv'
  BY <1>3, <1>5, <1>6 DEF PublishInv
<1>8. JobsInv'
  <2>1. \A p \in AllPlatforms : stage[p] = "gated"
    BY <1>3 DEF JobsInv, AllGated
  <2>2. dist' = [p \in AllPlatforms |-> dist'[p]]
    BY <1>2, <1>3 DEF RenamingInv
  <2> QED
    BY <1>3, <2>1, <2>2, LaterJobs DEF JobsInv, ReleaseFunctions, ReleaseTypeOK
<1> QED
  BY <1>3, <1>7, <1>8

LEMMA ResumKeepsInv ==
  ASSUME JobsInv, PublishInv, Resum
  PROVE  JobsInv' /\ PublishInv' /\ publish' # "published"
<1>1. /\ publish = "renamed" /\ publish' \in {"summed", "refused"}
      /\ UNCHANGED <<uploadVars, delivered, stage, assets, userVars, damage>>
  BY DEF Resum, buildVars
<1>2. /\ publish' = "refused" => dist' = dist
      /\ publish' = "summed" =>
           /\ \A p \in AllPlatforms : HasSums(p)
           /\ dist' = [p \in AllPlatforms |-> Summed(dist[p], FinalSums(p))]
  BY DEF Resum
<1>3. JobsInv'
  <2>1. dist' = [p \in AllPlatforms |-> dist'[p]] /\ \A p \in AllPlatforms : stage[p] = "gated"
    BY <1>1, <1>2 DEF JobsInv, ReleaseFunctions, AllGated
  <2> QED
    BY <1>1, <2>1, LaterJobs DEF JobsInv, ReleaseFunctions, ReleaseTypeOK
<1>4. /\ NamesApart(dist) /\ \A p \in AllPlatforms : AssetFiles(p, dist[p])
      /\ \A p \in AllPlatforms : Shape(p, delivered[p])
  BY <1>1 DEF PublishInv
<1>5. CASE publish' = "refused"
  BY <1>1, <1>3, <1>5 DEF PublishInv
<1>6. CASE publish' = "summed"
  <2>1. \A p \in AllPlatforms : DOMAIN dist'[p] = DOMAIN dist[p] /\ AssetFiles(p, dist'[p])
                                /\ ListWritten(p, dist'[p])
    BY <1>2, <1>4, <1>6, ResumKeeps
  <2>2. \A p \in AllPlatforms : AssetFiles(p, dist[p])' /\ ListWritten(p, dist[p])'
                                /\ Shape(p, delivered[p])'
    BY <1>1, <1>4, <2>1 DEF AssetFiles, SameContent, Came, ListWritten, Shape
  <2>3. NamesApart(dist)'
    BY <1>4, <2>1 DEF NamesApart
  <2>4. PublishInv'
    BY <1>1, <1>6, <2>2, <2>3 DEF PublishInv
  <2> QED
    BY <1>3, <1>6, <2>4
<1> QED
  BY <1>1, <1>5, <1>6

LEMMA PublishKeepsInv ==
  ASSUME JobsInv, PublishInv, Publish
  PROVE  JobsInv' /\ PublishInv' /\ publish = "summed"
<1>1. publish' \in {"published", "refused"} /\ publish = "summed"
      /\ UNCHANGED <<uploadVars, delivered, stage, dist, userVars, damage>>
  BY DEF Publish, buildVars
<1>2. JobsInv'
  BY <1>1, LaterJobs DEF JobsInv, ReleaseFunctions, ReleaseTypeOK, AllGated
<1>3. NamesApart(dist)'
      /\ \A p \in AllPlatforms : AssetFiles(p, dist[p])' /\ ListWritten(p, dist[p])'
                                 /\ Shape(p, delivered[p])'
  BY <1>1 DEF PublishInv, NamesApart, AssetFiles, SameContent, Came, ListWritten, Shape
<1>4. assets' = (IF publish' = "published" THEN AssetsOf(dist') ELSE {})
  BY <1>1 DEF Publish, PublishInv, AssetsOf
<1> QED
  BY <1>1, <1>2, <1>3, <1>4 DEF PublishInv, AssetsOf

LEMMA SetVerifiedSame ==
  ASSUME UNCHANGED <<assets, deployed>>
  PROVE  ArtifactSetVerified' = ArtifactSetVerified /\ Components' = Components
<1>1. assets' = assets /\ deployed' = deployed
  OBVIOUS
<1>2. ASSUME NEW a PROVE Chosen(a)' = Chosen(a)
  BY <1>1, Zenon DEF Chosen
<1>3. ArtifactSetVerified' = ArtifactSetVerified
  BY <1>1, <1>2 DEF ArtifactSetVerified
<1> QED
  BY <1>1, <1>3 DEF Components

LEMMA PublishAndUserKept ==
  ASSUME JobsInv, PublishInv, UserInv, UNCHANGED <<buildVars, stage, dist, publish, assets, damage>>,
         verified' \in BOOLEAN
  PROVE  JobsInv' /\ PublishInv'
<1>1. UNCHANGED <<env, natives, listed, first, received, uploaded, delivered>>
  BY DEF buildVars, uploadVars
<1>2. ReleaseTypeOK' /\ ReleaseFunctions'
  BY <1>1 DEF JobsInv, ReleaseTypeOK, ReleaseFunctions
<1>3. AllGated' /\ \A p \in AllPlatforms : JobInv(p)'
  BY <1>1 DEF JobsInv, AllGated, JobInv, BuiltFiles, UploadFiles, Near, Shape
<1>4. PublishInv'
  BY <1>1 DEF PublishInv, NamesApart, AssetFiles, SameContent, Came, ListWritten, Shape, AssetsOf
<1> QED
  BY <1>2, <1>3, <1>4 DEF JobsInv

LEMMA DownloadKeeps ==
  ASSUME JobsInv, PublishInv, UserInv, Download \/ DamageDownload
  PROVE  ReleaseInv'
<1>1. /\ UNCHANGED <<env, natives, listed, first, received, uploaded, delivered>>
      /\ UNCHANGED <<stage, dist, publish, assets, verified, archived>>
      /\ damage' \in 0..MaxDamage
  BY DamageBound
  DEF Download, DamageDownload, buildVars, uploadVars, JobsInv, ReleaseTypeOK
<1>2. ReleaseTypeOK' /\ ReleaseFunctions'
  BY <1>1 DEF JobsInv, ReleaseTypeOK, ReleaseFunctions
<1>3. AllGated' /\ \A p \in AllPlatforms : JobInv(p)'
  BY <1>1 DEF JobsInv, AllGated, JobInv, BuiltFiles, UploadFiles, Near, Shape
<1>4. PublishInv'
  BY <1>1 DEF PublishInv, NamesApart, AssetFiles, SameContent, Came, ListWritten, Shape, AssetsOf
<1>5. publish = "published" /\ ~verified
  BY DEF UserInv, Download, DamageDownload
<1>6. UserInv'
  BY <1>1, <1>5 DEF UserInv, Components
<1> QED
  BY <1>2, <1>3, <1>4, <1>6 DEF ReleaseInv, JobsInv

LEMMA VerifyKeeps ==
  ASSUME JobsInv, PublishInv, UserInv, VerifyDownload \/ GenerateSbom
  PROVE  ReleaseInv'
<1>1. JobsInv' /\ PublishInv'
  <2>1. UNCHANGED <<buildVars, stage, dist, publish, assets, damage>> /\ verified' \in BOOLEAN
    BY DEF VerifyDownload, GenerateSbom, JobsInv, ReleaseTypeOK
  <2> QED
    BY <2>1, PublishAndUserKept
<1>2. publish = "published" /\ UNCHANGED <<publish, assets, deployed>>
  BY DEF VerifyDownload, GenerateSbom
<1>3. UserInv'
  <2>1. CASE VerifyDownload
    BY <1>2, <2>1, SetVerifiedSame DEF VerifyDownload, UserInv
  <2>2. CASE GenerateSbom
    BY <1>2, <2>2, SetVerifiedSame DEF GenerateSbom, UserInv
  <2> QED
    BY <2>1, <2>2
<1> QED
  BY <1>1, <1>3 DEF ReleaseInv

\* Before publication there is nothing to deploy.
LEMMA NobodyYet ==
  ASSUME UserInv, publish # "published", UNCHANGED userVars
  PROVE  UserInv'
BY DEF UserInv, userVars

LEMMA JobKeeps ==
  ASSUME ReleaseInv, JobsInv', publish = "waiting", UNCHANGED <<publish, assets, userVars>>
  PROVE  ReleaseInv'
<1>1. UserInv'
  BY NobodyYet DEF ReleaseInv
<1>2. PublishInv'
  BY DEF ReleaseInv, PublishInv
<1> QED
  BY <1>1, <1>2 DEF ReleaseInv

LEMMA ReleaseInvStep == ReleaseInv /\ [ReleaseNext]_releaseVars => ReleaseInv'
<1> SUFFICES ASSUME ReleaseInv, [ReleaseNext]_releaseVars PROVE ReleaseInv'
  OBVIOUS
<1>1. JobsInv /\ PublishInv /\ UserInv
  BY DEF ReleaseInv
<1>2. ASSUME NEW p \in AllPlatforms,
             \/ DamageNative(p) \/ Build(p) \/ AddSbom(p) \/ Gate(p)
             \/ DamageBuild(p) \/ DamageUpload(p)
      PROVE  ReleaseInv'
  BY <1>1, <1>2, JobKeeps, DamageNativeJobs, BuildJobs, AddSbomJobs, DamageBuildJobs,
     DamageUploadJobs, GateJobs
<1>9. ASSUME NEW p \in AllPlatforms, DamageFetch(p) PROVE ReleaseInv'
  <2>1. JobsInv' /\ PublishInv' /\ publish # "published" /\ UNCHANGED userVars
    BY <1>1, <1>9, DamageFetchKeepsInv
  <2>2. UserInv'
    BY <1>1, <2>1, NobodyYet
  <2> QED
    BY <2>1, <2>2 DEF ReleaseInv
<1>10. CASE Fetch
  <2>1. JobsInv' /\ PublishInv'
    BY <1>1, <1>10, FetchKeepsInv
  <2>2. UserInv'
    BY <1>1, <1>10, NobodyYet DEF Fetch
  <2> QED
    BY <2>1, <2>2 DEF ReleaseInv
<1>3. CASE Dedup
  <2>1. JobsInv' /\ PublishInv'
    BY <1>1, <1>3, DedupKeepsInv
  <2>2. UserInv'
    BY <1>1, <1>3, NobodyYet DEF Dedup
  <2> QED
    BY <2>1, <2>2 DEF ReleaseInv
<1>4. CASE Resum
  <2>1. JobsInv' /\ PublishInv'
    BY <1>1, <1>4, ResumKeepsInv
  <2>2. UserInv'
    BY <1>1, <1>4, NobodyYet DEF Resum
  <2> QED
    BY <2>1, <2>2 DEF ReleaseInv
<1>5. CASE Publish
  <2>1. JobsInv' /\ PublishInv'
    BY <1>1, <1>5, PublishKeepsInv
  <2>2. UserInv'
    BY <1>1, <1>5, NobodyYet DEF Publish
  <2> QED
    BY <2>1, <2>2 DEF ReleaseInv
<1>6. CASE Download \/ DamageDownload
  BY <1>1, <1>6, DownloadKeeps
<1>7. CASE VerifyDownload \/ GenerateSbom
  BY <1>1, <1>7, VerifyKeeps
<1>8. CASE UNCHANGED releaseVars
  <2>1. UNCHANGED <<buildVars, stage, dist, publish, assets, damage, deployed, verified, archived>>
    BY <1>8 DEF releaseVars, buildVars, uploadVars
  <2>2. JobsInv' /\ PublishInv'
    BY <1>1, <2>1, PublishAndUserKept DEF JobsInv, ReleaseTypeOK
  <2>3. UserInv'
    BY <1>1, <2>1, SetVerifiedSame DEF UserInv
  <2> QED
    BY <2>2, <2>3 DEF ReleaseInv
<1> QED
  BY <1>2, <1>3, <1>4, <1>5, <1>6, <1>7, <1>8, <1>9, <1>10 DEF ReleaseNext

LEMMA ReleaseInvGates == ASSUME JobsInv PROVE GatedIsUploaded
<1>1. ASSUME NEW p \in AllPlatforms, stage[p] = "gated"
      PROVE  /\ publish = "waiting" => dist[p] = uploaded[p]
             /\ Metadata \in DOMAIN uploaded[p] /\ uploaded[p][Metadata] = Content("ci")
             /\ received[p] = first[p] =>
                  Library \in DOMAIN uploaded[p] /\ uploaded[p][Library] = Content("library")
  BY <1>1 DEF JobsInv, JobInv, UploadFiles
<1> QED
  BY <1>1 DEF GatedIsUploaded

LEMMA ReleaseInvPublishes == ASSUME JobsInv, PublishInv PROVE PublishedIsDelivered
<1>1. CASE publish # "published"
  BY <1>1 DEF PublishInv, PublishedIsDelivered
<1>2. CASE publish = "published"
  <2>1. /\ assets = AssetsOf(dist) /\ NamesApart(dist)
        /\ \A p \in AllPlatforms : /\ AssetFiles(p, dist[p]) /\ ListWritten(p, dist[p])
                                    /\ Shape(p, delivered[p])
    BY <1>2 DEF PublishInv
  <2>2. ASSUME NEW a \in assets, NEW b \in assets, a.place.name = b.place.name PROVE a = b
    <3>1. \A c \in assets : \E p \in AllPlatforms : \E q \in DOMAIN dist[p] :
            c = [p |-> p, place |-> q, content |-> dist[p][q]]
      BY <2>1 DEF AssetsOf
    <3>2. PICK p \in AllPlatforms : \E q \in DOMAIN dist[p] :
            a = [p |-> p, place |-> q, content |-> dist[p][q]]
      BY <3>1
    <3>3. PICK q \in DOMAIN dist[p] : a = [p |-> p, place |-> q, content |-> dist[p][q]]
      BY <3>2
    <3>4. PICK s \in AllPlatforms : \E r \in DOMAIN dist[s] :
            b = [p |-> s, place |-> r, content |-> dist[s][r]]
      BY <3>1
    <3>5. PICK r \in DOMAIN dist[s] : b = [p |-> s, place |-> r, content |-> dist[s][r]]
      BY <3>4
    <3>6. p = s /\ q = r
      BY <2>1, <2>2, <3>3, <3>5 DEF NamesApart
    <3> QED
      BY <3>3, <3>5, <3>6
  <2>3. \A p \in AllPlatforms :
          {a.content : a \in {b \in assets : b.p = p /\ b.content.is # "sums"}}
            = {delivered[p][q] : q \in DOMAIN delivered[p] \ {OwnList(p)}}
    BY <2>1, AssetsAreDelivered
  <2> QED
    BY <2>2, <2>3 DEF PublishedIsDelivered
<1> QED
  BY <1>1, <1>2

LEMMA ReleaseInvDeploys == ASSUME UserInv PROVE DeployedIsPublished
<1> SUFFICES ASSUME verified
             PROVE  LET files == {<<q.name, deployed[q]>> : q \in DOMAIN deployed}
                    IN  files = Components /\ (archived # {} => archived = files)
  BY DEF DeployedIsPublished
<1> DEFINE files == {<<q.name, deployed[q]>> : q \in DOMAIN deployed}
<1>1. /\ \A a \in assets : Chosen(a) # {} /\ \A q \in Chosen(a) : deployed[q] = a.content
      /\ DOMAIN deployed = UNION {Chosen(a) : a \in assets}
  BY DEF UserInv, ArtifactSetVerified
<1>2. \A a \in assets : \A q \in Chosen(a) : q.name = a.place.name /\ q \in DOMAIN deployed
  BY DEF Chosen
<1>3. ASSUME NEW q \in DOMAIN deployed PROVE <<q.name, deployed[q]>> \in Components
  <2>1. PICK a \in assets : q \in Chosen(a)
    BY <1>1
  <2>2. q.name = a.place.name /\ deployed[q] = a.content
    BY <1>1, <1>2, <2>1
  <2> QED
    BY <2>2 DEF Components
<1>4. ASSUME NEW a \in assets PROVE <<a.place.name, a.content>> \in files
  <2>1. PICK q : q \in Chosen(a)
    BY <1>1
  <2>2. q \in DOMAIN deployed /\ q.name = a.place.name /\ deployed[q] = a.content
    BY <1>1, <1>2, <2>1
  <2> QED
    BY <2>2
<1>5. files = Components
  BY <1>3, <1>4 DEF Components
<1>6. archived # {} => archived = Components
  BY DEF UserInv
<1> QED
  BY <1>5, <1>6

\* Any platforms, however often files are lost, damaged, mixed up or joined by
\* others between two jobs or on the way to a deployment (release-windows.yml,
\* release.yml): what passes the gate is what the SBOM's job uploaded, and has the
\* library built if that job got the build; what is published is what the
\* publishing job got, under names no two files share; what a deployment accepts
\* is what was published.  It stops short of the build and of the gate: the two
\* jobs that write checksums write them of whatever came.
THEOREM ReleaseIsHandedOn == ReleaseSpec => []BundleHandedOn
<1>1. ReleaseInv => BundleHandedOn
  BY ReleaseInvGates, ReleaseInvPublishes, ReleaseInvDeploys DEF ReleaseInv, BundleHandedOn
<1> QED
  BY <1>1, ReleaseInvInit, ReleaseInvStep, PTL DEF ReleaseSpec
=============================================================================
