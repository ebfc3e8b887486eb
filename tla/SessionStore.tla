---------------------------- MODULE SessionStore ----------------------------
(***************************************************************************)
(* The saved tab session of the pywebview shell (app/session_store.py).    *)
(*                                                                         *)
(* A save sanitises a snapshot of the tabs, writes it to session.json.tmp  *)
(* and replaces session.json with it.  Every writer uses the same name for *)
(* its temporary file.  The file semantics are those of Windows: a file    *)
(* can be opened for writing twice, and a file that is open cannot be      *)
(* replaced or removed.  Titles and groups are left out: no decision reads *)
(* them.                                                                   *)
(***************************************************************************)
EXTENDS Lists

CONSTANTS
  Savers,        \* threads that save
  MaxTabs,       \* MAX_TABS, the tabs a session keeps (20)
  Unsavable,     \* URLs a session does not keep: neither http(s) nor the start page
  NoSession,     \* no session file, or no session in it
  Garbled        \* bytes that are no session

VARIABLES
  sessionFile,   \* session.json
  tmpFile,       \* session.json.tmp: what it holds, NoSession when it is empty
  tmpThere,      \* whether session.json.tmp exists
  tmpOpen        \* the savers that hold it open

sessionVars == <<sessionFile, tmpFile, tmpThere, tmpOpen>>

SessionInit(file) ==
  /\ sessionFile = file
  /\ tmpFile = NoSession
  /\ tmpThere = FALSE
  /\ tmpOpen = {}

Clamp(n, lo, hi) == IF n < lo THEN lo ELSE IF n > hi THEN hi ELSE n

\* _sanitize_tab over a list of tabs, and the index brought into range: it is
\* not moved along with the tabs that were dropped before it.
Sanitized(snap) ==
  LET clean == Only(snap.tabs, {i \in DOMAIN snap.tabs : snap.tabs[i].url \notin Unsavable})
  IN  IF clean = <<>> THEN NoSession
      ELSE [tabs |-> clean, current |-> Clamp(snap.current, 1, Len(clean))]

\* Mistake: every tab of the file is kept.
AllTabs(tabs) == tabs

FirstTabs(tabs) == SubSeq(tabs, 1, IF Len(tabs) < MaxTabs THEN Len(tabs) ELSE MaxTabs)

\* load: what a file gives back.
Loaded(file) ==
  IF file \in {NoSession, Garbled} THEN NoSession
  ELSE Sanitized([file EXCEPT !.tabs = FirstTabs(@)])

\* Mistake: the session file itself is opened.
SaveOpenInPlace(c) ==
  /\ sessionFile' = Garbled
  /\ tmpFile' = NoSession
  /\ tmpThere' = TRUE
  /\ tmpOpen' = tmpOpen \cup {c}

\* save opens the temporary file, which empties it for whoever has it open.
SaveOpen(c) ==
  /\ tmpFile' = NoSession
  /\ tmpThere' = TRUE
  /\ tmpOpen' = tmpOpen \cup {c}
  /\ UNCHANGED sessionFile

\* The payload goes out when the file is closed, from its first byte on: over
\* what another writer left there since, whose longer tail survives unless both
\* wrote the same.
SaveWrite(c, snap) ==
  /\ \/ tmpFile' = Sanitized(snap)
     \/ /\ tmpFile \notin {NoSession, Sanitized(snap)}
        /\ tmpFile' = Garbled
  /\ tmpOpen' = tmpOpen \ {c}
  /\ UNCHANGED <<sessionFile, tmpThere>>

\* os.replace, which fails when another writer took the file away or has it
\* open; the removal that follows a failure fails for the same reason.
SaveReplace(c) ==
  IF tmpThere /\ tmpOpen = {}
  THEN /\ sessionFile' = tmpFile
       /\ tmpFile' = NoSession
       /\ tmpThere' = FALSE
       /\ UNCHANGED tmpOpen
  ELSE UNCHANGED sessionVars
=============================================================================
