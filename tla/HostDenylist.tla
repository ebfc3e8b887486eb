---------------------------- MODULE HostDenylist ----------------------------
(***************************************************************************)
(* The threat denylist inside the Rust policy core                         *)
(* (core/rust-policy-core/src/ffi/broker/denylist.rs).  A list that is too *)
(* big for one call arrives in batches; each call carries a mode.  The     *)
(* snapshot is behind one mutex, so each call is one step.                 *)
(*                                                                         *)
(* Entries the core would refuse for their shape never get here: the host  *)
(* filters with the same rules before it applies a list.                   *)
(***************************************************************************)
CONSTANTS
  Hosts,      \* the entries of denylists
  NoStaging   \* no batch session is open

ASSUME HostDenylistAssumption == \A list \in SUBSET Hosts : list # NoStaging

VARIABLES
  active,     \* the list that decisions are made with
  staging     \* the list of the open batch session

Modes == {"append", "replace", "begin", "commit"}

\* Mistake: a batch session empties the active list first.
ApplyEmptyingFirst(batch, mode) ==
  CASE mode = "begin"   -> active' = {} /\ staging' = batch
    [] mode = "append" /\ staging # NoStaging ->
         staging' = staging \cup batch /\ UNCHANGED active
    [] mode = "append" /\ staging = NoStaging ->
         active' = active \cup batch /\ UNCHANGED staging
    [] mode = "replace" -> active' = batch /\ staging' = NoStaging
    [] mode = "commit"  -> /\ active' = IF staging = NoStaging THEN active ELSE staging
                           /\ staging' = NoStaging

\* Without a session "append" goes to the active list, as it did before
\* sessions existed; "replace" drops an open session.
Apply(batch, mode) ==
  CASE mode = "begin"   -> staging' = batch /\ UNCHANGED active
    [] mode = "append" /\ staging # NoStaging ->
         staging' = staging \cup batch /\ UNCHANGED active
    [] mode = "append" /\ staging = NoStaging ->
         active' = active \cup batch /\ UNCHANGED staging
    [] mode = "replace" -> active' = batch /\ staging' = NoStaging
    [] mode = "commit"  -> /\ active' = IF staging = NoStaging THEN active ELSE staging
                           /\ staging' = NoStaging

\* Older cores read the mode as a flag: any mode but 0 clears the list first
\* (clear_only); the oldest ignore it and replace the list with every batch.
ApplyLegacy(batch, clears) ==
  /\ active' = IF clears THEN batch ELSE active \cup batch
  /\ UNCHANGED staging
=============================================================================
