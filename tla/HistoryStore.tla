----------------------------- MODULE HistoryStore -----------------------------
(***************************************************************************)
(* The visit log of the pywebview shell (app/history_store.py) and its     *)
(* bridge methods (app/bridge/history.py, app/bridge/imports.py).          *)
(*                                                                         *)
(* A page reads the log in pages, latest visit first: the last row of one  *)
(* page is the cursor of the next.  Between two pages visits are added,    *)
(* imported and deleted, and the clock, which counts seconds, may stand    *)
(* still or be set back.  Scores, titles and groupings are left out.       *)
(***************************************************************************)
EXTENDS Naturals, Sequences, FiniteSets, SequencesExt

CONSTANTS
  Sites,       \* URLs with a visit
  Whole,       \* those a keyword matches as a word (the full-text index finds them)
  Part,        \* those it matches inside a word only (LIKE finds them)
  MaxVisits,   \* bound: rows ever inserted
  MaxSecond    \* bound: the clock

ASSUME HistoryAssumption ==
  /\ Whole \subseteq Sites /\ Part \subseteq Sites /\ Whole \cap Part = {}
  /\ MaxVisits \in Nat /\ MaxSecond \in Nat

Rows == [id : 1..MaxVisits, url : Sites, visit_time : 0..MaxSecond]
Readings == {"none", "all", "search"}

VARIABLES
  visits,      \* the table
  lastId,      \* the sequence of AUTOINCREMENT: no id is used twice
  second,      \* time.time(), in whole seconds
  importing,   \* URLs import_history has still to add
  reading,     \* what the page reads: get_history or search_history_fulltext
  cursor,      \* the last row it was given
  shown,       \* ids of the rows it was given, in order
  kept         \* history: rows in the table since the first page was asked for

historyVars == <<visits, lastId, second, importing, reading, cursor, shown, kept>>

NoCursor == [id |-> 0]

HistoryTypeOK ==
  /\ visits \subseteq Rows /\ kept \subseteq visits
  /\ lastId \in 0..MaxVisits /\ \A v \in visits : v.id <= lastId
  /\ second \in 0..MaxSecond
  /\ importing \in Seq(Sites)
  /\ reading \in Readings
  /\ cursor \in Rows \cup {NoCursor}
  /\ shown \in Seq(1..MaxVisits)

HistoryInit ==
  /\ visits = {} /\ lastId = 0 /\ second = 0 /\ importing = <<>>
  /\ reading = "none" /\ cursor = NoCursor /\ shown = <<>> /\ kept = {}

-----------------------------------------------------------------------------
(* The order of the log.                                                   *)

\* Mistake: rows of one second are not told apart.
OlderBySecond(v, w) == v.visit_time < w.visit_time

\* The composite key (visit_time, id), as the cursor compares it.
Older(v, w) ==
  \/ v.visit_time < w.visit_time
  \/ v.visit_time = w.visit_time /\ v.id < w.id

Behind(rows) ==
  IF cursor = NoCursor THEN rows ELSE {v \in rows : Older(v, cursor)}

\* ORDER BY visit_time DESC, id DESC.
Later(v, w) ==
  \/ v.visit_time > w.visit_time
  \/ v.visit_time = w.visit_time /\ v.id > w.id

\* That and LIMIT limit: the row at a place has one less than that before it.
Page(rows, limit) ==
  LET behind == Behind(rows)
      size   == Cardinality(behind)
  IN  [i \in 1..(IF size < limit THEN size ELSE limit) |->
         CHOOSE v \in behind : Cardinality({w \in behind : Later(w, v)}) = i - 1]

-----------------------------------------------------------------------------
(* Writing.                                                                *)

\* add: one visit, now.
Add(url) ==
  /\ lastId < MaxVisits
  /\ visits' = visits \cup {[id |-> lastId + 1, url |-> url, visit_time |-> second]}
  /\ lastId' = lastId + 1
  /\ UNCHANGED <<second, reading, cursor, shown, kept>>

AddVisit(url) == Add(url) /\ UNCHANGED importing

\* import_history: another browser's URLs, each once, latest first.  Each is
\* added as a visit of the moment it is added at, in a transaction of its own.
ImportHistory(urls) ==
  /\ importing = <<>>
  /\ importing' = urls
  /\ UNCHANGED <<visits, lastId, second, reading, cursor, shown, kept>>

ImportNext ==
  /\ importing # <<>>
  /\ Add(Head(importing))
  /\ importing' = Tail(importing)

DeleteRows(rows) ==
  /\ visits' = visits \ rows
  /\ kept' = kept \ rows
  /\ UNCHANGED <<lastId, second, importing, reading, cursor, shown>>

DeleteUrl(url) == DeleteRows({v \in visits : v.url = url})
ClearHistory == DeleteRows(visits)

\* The clock runs, or is set.
SetClock ==
  /\ second' \in 0..MaxSecond
  /\ UNCHANGED <<visits, lastId, importing, reading, cursor, shown, kept>>

-----------------------------------------------------------------------------
(* Reading.                                                                *)

MatchedByWord == {v \in visits : v.url \in Whole}
Matched == {v \in visits : v.url \in Whole \cup Part}

\* fulltext_search: the index first, LIKE when the index gives nothing.
FulltextSearch(limit) ==
  IF Page(MatchedByWord, limit) # <<>> THEN Page(MatchedByWord, limit)
  ELSE Page(Matched, limit)

PageOf(what, limit) ==
  IF what = "all" THEN Page(visits, limit) ELSE FulltextSearch(limit)

\* The page the method returns becomes what is shown next.
Give(rows) ==
  /\ shown' = shown \o [i \in DOMAIN rows |-> rows[i].id]
  /\ cursor' = IF rows = <<>> THEN cursor ELSE rows[Len(rows)]

\* get_history and search_history_fulltext without a cursor.
FirstPage(what, limit) ==
  /\ reading = "none"
  /\ reading' = what
  /\ Give(PageOf(what, limit))
  /\ kept' = visits
  /\ UNCHANGED <<visits, lastId, second, importing>>

\* The same with the last row's id and time.
NextPage(limit) ==
  /\ reading # "none" /\ cursor # NoCursor
  /\ PageOf(reading, limit) # <<>>
  /\ Give(PageOf(reading, limit))
  /\ UNCHANGED <<visits, lastId, second, importing, reading, kept>>

\* An empty page is the last one: nothing is left behind the cursor.
AtEnd == reading # "none" /\ (cursor = NoCursor \/ PageOf(reading, 1) = <<>>)

StopReading ==
  /\ reading # "none"
  /\ reading' = "none" /\ cursor' = NoCursor /\ shown' = <<>> /\ kept' = {}
  /\ UNCHANGED <<visits, lastId, second, importing>>

HistoryNext ==
  \/ \E url \in Sites : AddVisit(url) \/ DeleteUrl(url)
  \/ \E u, v \in Sites : u # v /\ ImportHistory(<<u, v>>)
  \/ ImportNext \/ ClearHistory \/ SetClock
  \/ \E limit \in 1..2 :
       NextPage(limit) \/ \E what \in Readings \ {"none"} : FirstPage(what, limit)
  \/ StopReading

HistorySpec == HistoryInit /\ [][HistoryNext]_historyVars

-----------------------------------------------------------------------------
(* Properties.                                                             *)

\* However visits, deletions and the clock come between two pages, no row is
\* given twice, and at the last page every row that was there all along has
\* been given: in a search, every row the index finds.
PagesCoverOnce ==
  /\ \A i, j \in DOMAIN shown : i # j => shown[i] # shown[j]
  /\ AtEnd => {v.id : v \in {w \in kept : reading = "all" \/ w.url \in Whole}}
                \subseteq Range(shown)
=============================================================================
