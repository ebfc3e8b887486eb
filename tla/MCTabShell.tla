----------------------------- MODULE MCTabShell -----------------------------
(***************************************************************************)
(* Instances of TabShell: two bridge threads, one handler of loaded        *)
(* events, the start page, a web page, which the agent may open, and a     *)
(* page of another kind, which links lead to and nothing opens or saves.   *)
(***************************************************************************)
EXTENDS TabShell

CONSTANTS home, a, b, c1, c2, l1

SessionOf(ts, i) == [tabs |-> ts, current |-> i]
Pinned(url) == [url |-> url, pinned |-> TRUE]

\* A session one tab short of the cap, and a file with tabs for more than it.
TwoFiles == {SessionOf(<<Tab(a)>>, 1),
             SessionOf(<<Pinned(home), Pinned(a), Tab(a), Tab(a)>>, 2)}
NoFile == {NoSession}

Interchangeable == Permutations(Callers)
=============================================================================
