--------------------------- MODULE MCAgentBroker ---------------------------
(***************************************************************************)
(* Two brokers that hosts put in front of a policy core and that share no  *)
(* state: each behaviour exercises the agents' broker or the Android one,  *)
(* chosen in its first state, and leaves the other as it started.          *)
(***************************************************************************)
EXTENDS AgentBroker, AndroidBroker, TLC

VARIABLE focus

BrokersInit ==
  /\ focus \in {"agent", "android"}
  /\ Init /\ AndroidInit
  /\ (focus = "agent" => native)

BrokersNext ==
  \/ focus = "agent" /\ Next /\ UNCHANGED <<focus, androidVars>>
  \/ focus = "android" /\ AndroidNext /\ UNCHANGED <<focus, vars>>

BrokersSpec == BrokersInit /\ [][BrokersNext]_<<focus, vars, androidVars>>

\* The members of these sets are never compared but for equality.
Symmetry == Permutations(Threads) \cup Permutations(ActionNonces)
              \cup Permutations(AgentSessions) \cup Permutations(AgentTabs)
=============================================================================
