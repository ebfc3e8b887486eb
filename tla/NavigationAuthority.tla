------------------------ MODULE NavigationAuthority ------------------------
(***************************************************************************)
(* What the policy core promises about a navigation authorization, with    *)
(* no sessions, locks, ledgers or threads: an authorization, named by its  *)
(* nonce, travels once along a fixed life cycle                            *)
(*                                                                         *)
(*      none --> awaiting --> issued --> consumed                          *)
(*        \________________/    |                                          *)
(*                   |          |                                          *)
(*      awaiting, issued --> void   (rejected, revoked, expired, burned)   *)
(*                                                                         *)
(* and is granted to the host at most once, only after it was consumed.    *)
(* An authorization for a high-risk target never skips "awaiting".         *)
(* FfiBroker implements this specification (ImplementsAuthority there).    *)
(***************************************************************************)
CONSTANT Nonces  \* the one-shot names of authorizations

VARIABLES
  status,        \* where each authorization is in its life cycle
  confirmable,   \* the authorizations that are for high-risk targets
  granted        \* the authorizations a consumer was told Allow for

vars == <<status, confirmable, granted>>

Status == {"none", "awaiting", "issued", "consumed", "void"}

TypeOK ==
  /\ status \in [Nonces -> Status]
  /\ confirmable \subseteq Nonces
  /\ granted \subseteq Nonces

Init ==
  /\ status = [n \in Nonces |-> "none"]
  /\ confirmable = {}
  /\ granted = {}

\* The authorizations that may be withdrawn: a withdrawn one stays withdrawn.
Withdrawable(n) == status[n] \in {"awaiting", "issued"}

\* Withdraw every member of V, move n (not in V) to s, and leave the others alone.
MoveAndWithdraw(n, s, V) ==
  /\ V \subseteq {m \in Nonces \ {n} : Withdrawable(m)}
  /\ status' = [m \in Nonces |-> IF m = n THEN s
                                 ELSE IF m \in V THEN "void" ELSE status[m]]

\* A target is classified when its authorization is built, before anyone
\* outside the core has heard of it.
Classify(n) ==
  /\ status[n] = "none"
  /\ \/ confirmable' = confirmable \cup {n}
     \/ confirmable' = confirmable \ {n}
  /\ UNCHANGED <<status, granted>>

AskForConfirmation(n) ==
  /\ status[n] = "none"
  /\ n \in confirmable
  /\ \E V \in SUBSET Nonces : MoveAndWithdraw(n, "awaiting", V)
  /\ UNCHANGED <<confirmable, granted>>

Issue(n) ==
  /\ \/ status[n] = "none" /\ n \notin confirmable
     \/ status[n] = "awaiting"
  /\ \E V \in SUBSET Nonces : MoveAndWithdraw(n, "issued", V)
  /\ UNCHANGED <<confirmable, granted>>

Consume(n) ==
  /\ status[n] = "issued"
  /\ status' = [status EXCEPT ![n] = "consumed"]
  /\ UNCHANGED <<confirmable, granted>>

\* Granting may evict expired authorizations from the ledger it records in.
Grant(n) ==
  /\ status[n] = "consumed"
  /\ n \notin granted
  /\ granted' = granted \cup {n}
  /\ \E V \in SUBSET Nonces : MoveAndWithdraw(n, "consumed", V)
  /\ UNCHANGED confirmable

Withdraw ==
  /\ \E V \in SUBSET {m \in Nonces : Withdrawable(m)} :
        status' = [m \in Nonces |-> IF m \in V THEN "void" ELSE status[m]]
  /\ UNCHANGED <<confirmable, granted>>

Next ==
  \/ Withdraw
  \/ \E n \in Nonces :
       \/ Classify(n)
       \/ AskForConfirmation(n)
       \/ Issue(n)
       \/ Consume(n)
       \/ Grant(n)

Spec == Init /\ [][Next]_vars
=============================================================================
