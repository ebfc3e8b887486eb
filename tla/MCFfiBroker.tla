---------------------------- MODULE MCFfiBroker ----------------------------
(* Instances of FfiBroker for TLC. *)
EXTENDS FfiBrokerInv, TLC

CONSTANTS s1, s2, tab1, tab2, n1, n2, n3, t1, t2, site, router

Interchangeable == Permutations(Threads) \cup Permutations(Nonces)
TwoDenylists == {{}, {site}}
=============================================================================
