----------------------------- MODULE BookmarkStore -----------------------------
(***************************************************************************)
(* The bookmarks of the pywebview shell: app/bookmark_store.py over the    *)
(* per-thread connections of app/database.py, and the bridge methods that  *)
(* use it (app/bridge/bookmarks.py, app/bridge/imports.py).                *)
(*                                                                         *)
(* The table has no unique index.  Whether a URL is there is one           *)
(* statement and its insertion or removal another, each a transaction of   *)
(* its own, and any number of bridge threads run them at once.  Titles,    *)
(* folders and the export are left out.                                    *)
(***************************************************************************)
EXTENDS Naturals, Sequences, FiniteSets

CONSTANTS
  Users,      \* threads bridge calls run in
  Links,      \* URLs to bookmark
  Refused,    \* those safe_url turns down
  Seeds       \* DEFAULT_SEEDS, in order

ASSUME BookmarkAssumption ==
  /\ IsFiniteSet(Users) /\ Users # {}
  /\ Refused \subseteq Links /\ Seeds \in Seq(Links)

VARIABLES
  rows,       \* rows[u]: how often u is in the table
  list,       \* list[t]: URLs thread t has still to add
  act         \* act[t]: the statement thread t has decided on

bookmarkVars == <<rows, list, act>>

Nothing == [do |-> "none"]

BookmarkTypeOK ==
  /\ rows \in [Links -> Nat]
  /\ list \in [Users -> Seq(Links)]
  /\ act \in [Users -> {Nothing} \cup [do : {"insert", "delete"}, url : Links]]

BookmarkInit ==
  /\ rows \in [Links -> 0..1]
  /\ list = [t \in Users |-> <<>>]
  /\ act = [t \in Users |-> Nothing]

\* safe_url: http or https with a host, without credentials, white space or
\* control characters, neither too long nor malformed.
Unsafe(u) == u \in Refused

Free(t) == list[t] = <<>> /\ act[t] = Nothing
Bookmarked(u) == rows[u] > 0

-----------------------------------------------------------------------------
(* The statements.                                                         *)

\* Mistake: what is there is not asked for.
AddBookmarkBlindly(t) ==
  /\ act[t] = Nothing /\ list[t] # <<>>
  /\ list' = [list EXCEPT ![t] = Tail(@)]
  /\ act' = [act EXCEPT ![t] =
               IF Unsafe(Head(list[t])) THEN Nothing
               ELSE [do |-> "insert", url |-> Head(list[t])]]
  /\ UNCHANGED rows

\* add: a URL that is refused or there already is passed over.
AddBookmark(t) ==
  /\ act[t] = Nothing /\ list[t] # <<>>
  /\ list' = [list EXCEPT ![t] = Tail(@)]
  /\ act' = [act EXCEPT ![t] =
               IF Unsafe(Head(list[t])) \/ Bookmarked(Head(list[t])) THEN Nothing
               ELSE [do |-> "insert", url |-> Head(list[t])]]
  /\ UNCHANGED rows

Insert(t) ==
  /\ act[t].do = "insert"
  /\ rows' = [rows EXCEPT ![act[t].url] = @ + 1]
  /\ act' = [act EXCEPT ![t] = Nothing]
  /\ UNCHANGED list

\* DELETE takes every row of the URL.
Delete(t) ==
  /\ act[t].do = "delete"
  /\ rows' = [rows EXCEPT ![act[t].url] = 0]
  /\ act' = [act EXCEPT ![t] = Nothing]
  /\ UNCHANGED list

\* A statement that raises (the database is locked or full) ends the call: the
\* rest of an import is dropped without a word.
StatementFails(t) ==
  /\ act[t] # Nothing
  /\ act' = [act EXCEPT ![t] = Nothing]
  /\ list' = [list EXCEPT ![t] = <<>>]
  /\ UNCHANGED rows

-----------------------------------------------------------------------------
(* The calls.  Those of a page that is not the shell's are refused, except *)
(* toggle_bookmark, which takes no argument from the page.                 *)

\* add_bookmark, import_bookmarks and import_html.
AddAll(t, urls) ==
  /\ Free(t)
  /\ list' = [list EXCEPT ![t] = urls]
  /\ UNCHANGED <<rows, act>>

RemoveBookmark(t, u) ==
  /\ Free(t)
  /\ act' = [act EXCEPT ![t] = [do |-> "delete", url |-> u]]
  /\ UNCHANGED <<rows, list>>

\* toggle_bookmark: remove what is there, add what is not.
ToggleBookmark(t, u) ==
  IF Bookmarked(u) THEN RemoveBookmark(t, u) ELSE AddAll(t, <<u>>)

\* seed_defaults, at the start of the process.
SeedDefaults(t) ==
  /\ \A u \in Links : rows[u] = 0
  /\ AddAll(t, Seeds)

BookmarkNext ==
  \E t \in Users :
    \/ AddBookmark(t) \/ Insert(t) \/ Delete(t) \/ StatementFails(t)
    \/ SeedDefaults(t)
    \/ \E u \in Links : RemoveBookmark(t, u) \/ ToggleBookmark(t, u)
    \/ \E u, v \in Links : AddAll(t, <<u, v>>)

BookmarkSpec == BookmarkInit /\ [][BookmarkNext]_bookmarkVars

-----------------------------------------------------------------------------
(* Properties.                                                             *)

Inserting(u) == {t \in Users : act[t] = [do |-> "insert", url |-> u]}

\* Nothing in the database keeps a URL from being stored twice.  Looking
\* before each insertion does it for one thread, also inside one import; among
\* several a URL is stored no more often than there are threads.
DuplicatesBounded ==
  \A u \in Links : rows[u] + Cardinality(Inserting(u)) <= Cardinality(Users)
=============================================================================
