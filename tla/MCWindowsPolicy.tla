-------------------------- MODULE MCWindowsPolicy --------------------------
(***************************************************************************)
(* What stands between the windows of the desktop host and their policy    *)
(* core: the publication of threat lists over the shared bridge, the       *)
(* broker of a window, and the emergency switch.  Each behaviour exercises *)
(* one of the parts, chosen in its first state.                            *)
(***************************************************************************)
EXTENDS DenylistPush, WindowsBroker

CONSTANTS
  bad1, bad2, bad3,
  Parts   \* the parts to exercise

(* An empty list, a list of one batch and one of two batches.  No part of  *)
(* a list and no mix of two is a list.                                     *)
SomeLists == {<<{}>>, <<{bad1}>>, <<{bad2}, {bad3}>>}

VARIABLE focus

PolicyInit ==
  /\ focus \in Parts
  /\ Init /\ (focus # "push" => core_kind = "staging")
  /\ WindowsInit /\ (focus # "broker" => native)

\* The broker sees of the switch that it is engaged: one call, no reactions.
EngageOnce ==
  /\ \/ (\A t \in SwitchThreads : switch_call[t] = Idle) /\ \E t \in SwitchThreads : Engage(t)
     \/ \E t \in SwitchThreads : RaiseFlag(t)
  /\ UNCHANGED brokerOnly

InPush(A) == focus = "push" /\ A /\ UNCHANGED <<focus, windowsVars>>

Push   == InPush(Next)
Broker == focus = "broker" /\ (BrokerNext \/ EngageOnce) /\ UNCHANGED <<focus, vars>>
Switch == focus = "switch" /\ SwitchNext /\ UNCHANGED <<focus, vars, brokerOnly>>

PolicyNext == Push \/ Broker \/ Switch

policyVars == <<focus, vars, windowsVars>>

(* The fairness of DenylistPush, in its own behaviours.                    *)
PolicyFairness == \A t \in Threads : WF_policyVars(InPush(Step(t)))

PolicySpec == PolicyInit /\ [][PolicyNext]_policyVars /\ PolicyFairness
=============================================================================
