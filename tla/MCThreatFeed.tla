---------------------------- MODULE MCThreatFeed ----------------------------
(* Instances of ThreatFeed for TLC. *)
EXTENDS ThreatFeed

CONSTANTS feed1, feed2, ui1, ui2
=============================================================================
