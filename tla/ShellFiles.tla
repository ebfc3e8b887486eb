------------------------------ MODULE ShellFiles ------------------------------
(***************************************************************************)
(* Two files of the pywebview shell that are read and written while it     *)
(* runs: config.json (app/config.py, with the setters of app/bridge) and   *)
(* the cached threat list threat_feed.txt (app/threat_feed.py, with        *)
(* main_webview._start_threat_feed_refresh).                               *)
(*                                                                         *)
(* The configuration is one object in memory that setters change and then  *)
(* write as a whole, straight into the file.  The list is fetched by one   *)
(* background thread per process, written beside the cache and put in its  *)
(* place, while navigations read the cache.                                *)
(***************************************************************************)
EXTENDS Naturals, FiniteSets

CONSTANTS
  Setters,       \* threads that run set_search_engine or set_wallpaper
  Readers,       \* threads that read the cached list
  Engines, Wallpapers,   \* the values the setters let pass
  Defaults,      \* the configuration without a file
  Lists,         \* threat lists the feed may serve
  NoList,        \* the empty list
  MaxStarts      \* bound: starts of the process

Configs == [engine : Engines, wallpaper : Wallpapers]
Broken == [broken |-> TRUE]     \* an empty or half-written file

ASSUME FilesAssumption ==
  /\ Defaults \in Configs
  /\ NoList \notin Lists /\ Broken \notin Lists \cup {NoList}
  /\ MaxStarts \in Nat

VARIABLES
  config,        \* api.config
  configFile,    \* config.json
  setter,        \* setter[t]: what thread t has still to do
  copy,          \* copy[t]: asdict(config) as thread t serialises it
  cache,         \* threat_feed.txt
  blocked,       \* _blocked_hosts, the snapshot of the list in memory
  refresh,       \* where the refresh thread stands
  fetched,       \* the list it fetched
  reader,        \* reader[r]: "none", "open"
  read,          \* read[r]: what thread r got from the file so far
  starts,        \* history: starts of the process
  overlapped,    \* history: two configuration writes overlapped
  cutShort       \* history: the process ended inside one

configVars == <<config, configFile, setter, copy, overlapped, cutShort>>
feedVars == <<cache, blocked, refresh, fetched, reader, read>>
filesVars == <<configVars, feedVars, starts>>

FilesTypeOK ==
  /\ config \in Configs /\ configFile \in Configs \cup {Broken}
  /\ setter \in [Setters -> {"none", "open", "dump", "close"}]
  /\ copy \in [Setters -> Configs]
  /\ {cache, blocked} \subseteq Lists \cup {NoList, Broken}
  /\ refresh \in {"none", "fetch", "replace", "done"}
  /\ fetched \in Lists \cup {NoList}
  /\ reader \in [Readers -> {"none", "open"}]
  /\ read \in [Readers -> Lists \cup {NoList, Broken}]
  /\ starts \in 0..MaxStarts

FilesInit ==
  /\ config = Defaults /\ configFile = Defaults
  /\ setter = [t \in Setters |-> "none"] /\ copy = [t \in Setters |-> Defaults]
  /\ cache \in Lists \cup {NoList} /\ blocked = cache
  /\ refresh \in {"none", "fetch"} /\ fetched = NoList
  /\ reader = [r \in Readers |-> "none"] /\ read = [r \in Readers |-> NoList]
  /\ starts = 0 /\ overlapped = FALSE /\ cutShort = FALSE

-----------------------------------------------------------------------------
(* config.json.                                                            *)

Writing(t) == setter[t] \in {"dump", "close"}

\* Mistake: the copy to write is taken at once, and not again when it is written.
SetFieldAndCopy(t, c) ==
  /\ setter[t] = "none"
  /\ config' = c
  /\ copy' = [copy EXCEPT ![t] = c]
  /\ setter' = [setter EXCEPT ![t] = "close"]
  /\ UNCHANGED <<configFile, overlapped, cutShort, feedVars, starts>>

\* A setter changes one field of the object all threads share, then saves it.
SetField(t, c) ==
  /\ setter[t] = "none"
  /\ config' = c
  /\ setter' = [setter EXCEPT ![t] = "open"]
  /\ UNCHANGED <<configFile, copy, overlapped, cutShort, feedVars, starts>>

\* A value that is not on the list changes nothing.
SetSearchEngine(t) == \E key \in Engines : SetField(t, [config EXCEPT !.engine = key])
SetWallpaper(t) == \E name \in Wallpapers : SetField(t, [config EXCEPT !.wallpaper = name])

\* save opens the file, which empties it.
OpenConfig(t) ==
  /\ setter[t] = "open"
  /\ configFile' = Broken
  /\ setter' = [setter EXCEPT ![t] = "dump"]
  /\ overlapped' = (overlapped \/ \E s \in Setters \ {t} : Writing(s))
  /\ UNCHANGED <<config, copy, cutShort, feedVars, starts>>

\* asdict: the fields as they are by then, another thread's included.
DumpConfig(t) ==
  /\ setter[t] = "dump"
  /\ copy' = [copy EXCEPT ![t] = config]
  /\ setter' = [setter EXCEPT ![t] = "close"]
  /\ UNCHANGED <<config, configFile, overlapped, cutShort, feedVars, starts>>

\* The buffer goes out at the end, over what another thread wrote there.
CloseConfig(t) ==
  /\ setter[t] = "close"
  /\ configFile' \in {copy[t]} \cup (IF configFile \in {Broken, copy[t]} THEN {} ELSE {Broken})
  /\ setter' = [setter EXCEPT ![t] = "none"]
  /\ UNCHANGED <<config, copy, overlapped, cutShort, feedVars, starts>>

\* load: a file that cannot be read gives the defaults.
LoadedConfig == IF configFile = Broken THEN Defaults ELSE configFile

-----------------------------------------------------------------------------
(* threat_feed.txt.                                                        *)

\* The refresh thread: a fetch, over https to its last redirect and within
\* the size limit, gives a list; anything else leaves all as it was.
FetchFeed ==
  /\ refresh = "fetch"
  /\ \/ /\ fetched' \in Lists
        /\ refresh' = "replace"
     \/ refresh' = "done" /\ UNCHANGED fetched
  /\ UNCHANGED <<cache, blocked, reader, read, configVars, starts>>

\* Mistake: the list is written into the cache itself.
ReplaceInPlace ==
  /\ refresh = "replace"
  /\ IF cache = Broken
     THEN cache' = fetched /\ blocked' = fetched /\ refresh' = "done"
     ELSE cache' = Broken /\ UNCHANGED <<blocked, refresh>>
  /\ UNCHANGED <<fetched, reader, read, configVars, starts>>

\* os.replace puts the whole list in place, unless a reader has the file open;
\* then the thread reports a failure and the old list stays.
ReplaceCache ==
  /\ refresh = "replace"
  /\ IF \A r \in Readers : reader[r] = "none"
     THEN cache' = fetched /\ blocked' = fetched
     ELSE UNCHANGED <<cache, blocked>>
  /\ refresh' = "done"
  /\ UNCHANGED <<fetched, reader, read, configVars, starts>>

\* load_cached, by a navigation: the file is opened and read.
OpenCache(r) ==
  /\ reader[r] = "none"
  /\ reader' = [reader EXCEPT ![r] = "open"]
  /\ read' = [read EXCEPT ![r] = cache]
  /\ UNCHANGED <<cache, blocked, refresh, fetched, configVars, starts>>

\* The rest of it; a list that is not the one begun with is a broken one.
ReadCache(r) ==
  /\ reader[r] = "open"
  /\ reader' = [reader EXCEPT ![r] = "none"]
  /\ read' = [read EXCEPT ![r] = IF read[r] = cache THEN cache ELSE Broken]
  /\ UNCHANGED <<cache, blocked, refresh, fetched, configVars, starts>>

\* The process ends and another starts: the configuration and the snapshot are
\* loaded, and a refresh is begun when a feed is configured.
RestartFiles ==
  /\ starts < MaxStarts
  /\ starts' = starts + 1
  /\ config' = LoadedConfig
  /\ cutShort' = (cutShort \/ \E t \in Setters : Writing(t))
  /\ setter' = [t \in Setters |-> "none"]
  /\ reader' = [r \in Readers |-> "none"]
  /\ blocked' = cache
  /\ refresh' \in {"none", "fetch"}
  /\ UNCHANGED <<configFile, copy, overlapped, cache, fetched, read>>

FilesNext ==
  \/ \E t \in Setters :
       \/ SetSearchEngine(t) \/ SetWallpaper(t)
       \/ OpenConfig(t) \/ DumpConfig(t) \/ CloseConfig(t)
  \/ FetchFeed \/ ReplaceCache
  \/ \E r \in Readers : OpenCache(r) \/ ReadCache(r)
  \/ RestartFiles

FilesSpec == FilesInit /\ [][FilesNext]_filesVars

-----------------------------------------------------------------------------
(* Properties.                                                             *)

\* What is in config.json once no setter is at work is what is in memory,
\* whatever setters came between each other, unless two of them wrote at once
\* or the process ended inside one; and no reader ever gets part of a threat
\* list, or parts of two, whatever refreshes and ends of the process come
\* between.
FilesKept ==
  /\ (\A t \in Setters : setter[t] = "none") /\ ~overlapped /\ ~cutShort
       => configFile = config
  /\ Broken \notin {blocked} \cup {read[r] : r \in Readers}
=============================================================================
