------------------------------- MODULE Lists -------------------------------
(***************************************************************************)
(* What the tab lists and the ledgers do with their elements.  The filter  *)
(* is SelectSeq with the recursion as a function: what it computes is      *)
(* proved in ListProofs.                                                   *)
(***************************************************************************)
EXTENDS Naturals, SequencesExt

\* The elements of a list at some of its positions, in their order.
Only(s, some) ==
  LET kept[n \in 0..Len(s)] ==
        IF n = 0 THEN <<>>
        ELSE IF n \in some THEN Append(kept[n - 1], s[n]) ELSE kept[n - 1]
  IN  kept[Len(s)]

\* insert(to, pop(from)).
Moved(s, from, to) == InsertAt(RemoveAt(s, from), to, s[from])
=============================================================================
