---------------------------- MODULE FfiBrokerInv ----------------------------
(***************************************************************************)
(* The inductive invariant behind the safety properties of FfiBroker.  It  *)
(* says, for each place an authorization can be in - the hand of the       *)
(* evaluation that builds it, the pending ledger, the hand of an approval, *)
(* the issued ledger, the hand of a consumption, the replay ledger - what  *)
(* has and has not happened to it there.  The properties themselves are    *)
(* not inductive: they do not know that the thread about to record a grant *)
(* is the only one that burned this nonce, nor that an issued high-risk    *)
(* authorization went through the user's approval.                         *)
(***************************************************************************)
EXTENDS FfiBroker

Known(n) == action[n] # NoAction

\* A high-risk authorization beyond the pending ledger was approved.
Cleared(n) == Known(n) /\ (HighRisk(n) => n \in approved)

\* The user has not decided about n, and n is in no ledger.
Undecided(n) ==
  /\ n \notin approved
  /\ n \notin rejected
  /\ issued_actions[n] = "absent"
  /\ n \notin consumed_nonces
  /\ granted[n] = 0

\* A thread inside a section that works on a nonce holds one.
HoldsNonce ==
  \A t \in Threads :
    /\ pc[t] \in Evaluating \cup Approving \cup Consuming => held[t] \in Nonces
    /\ pc[t] \in {"idle"} \cup Purging => held[t] = NoNonce
    /\ pc[t] \in Purging => purging[t] \in Sessions

\* An evaluation has its nonce to itself.
EvaluationIsPrivate ==
  \A t \in Threads : pc[t] \in Evaluating =>
    /\ Known(held[t]) /\ Undecided(held[t])
    /\ held[t] \notin pending_navigation_approvals
    /\ \A u \in Threads \ {t} : held[u] # held[t]
    /\ pc[t] = "evaluate_issue" => ~HighRisk(held[t])
    /\ pc[t] = "evaluate_register" => HighRisk(held[t])

PendingIsUndecided ==
  \A n \in pending_navigation_approvals : Known(n) /\ HighRisk(n) /\ Undecided(n)

\* The nonce an approval took out of the pending ledger is nowhere else.
ApprovalIsExclusive ==
  \A t \in Threads : pc[t] \in Approving =>
    /\ Known(held[t]) /\ HighRisk(held[t]) /\ Undecided(held[t])
    /\ held[t] \notin pending_navigation_approvals
    /\ \A u \in Threads \ {t} : held[u] = held[t] => pc[u] \notin Approving

IssuedIsCleared ==
  \A n \in Nonces :
    /\ issued_actions[n] # "absent" => Cleared(n) /\ n \notin rejected
    /\ issued_actions[n] = "consumed" => n \in consumed_nonces

ConsumptionIsCleared ==
  \A t \in Threads :
    /\ pc[t] \in Consuming => Known(held[t])
    /\ pc[t] \in {"consume_validate", "consume_record"} =>
         Cleared(held[t]) /\ held[t] \notin rejected

\* Whoever is about to record a consumption burned the nonce, and alone.
RecorderIsUnique ==
  \A t \in Threads : pc[t] = "consume_record" =>
    /\ held[t] \in consumed_nonces
    /\ granted[held[t]] = 0
    /\ \A u \in Threads \ {t} : held[u] = held[t] => pc[u] # "consume_record"

ReplayLedgerIsCleared ==
  \A n \in Nonces :
    /\ n \in consumed_nonces => Cleared(n) /\ n \notin rejected
    /\ granted[n] > 0 => n \in consumed_nonces
    /\ granted[n] <= 1

Decided ==
  /\ \A n \in approved \cup rejected : Known(n)
  /\ approved \cap rejected = {}

IInv ==
  /\ TypeOK
  /\ HoldsNonce
  /\ EvaluationIsPrivate
  /\ PendingIsUndecided
  /\ ApprovalIsExclusive
  /\ IssuedIsCleared
  /\ ConsumptionIsCleared
  /\ RecorderIsUnique
  /\ ReplayLedgerIsCleared
  /\ Decided
=============================================================================
