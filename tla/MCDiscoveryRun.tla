--------------------------- MODULE MCDiscoveryRun ---------------------------
(* DiscoveryRun on small instances.                                        *)
EXTENDS DiscoveryRun, TLC

Symmetric == Permutations(Workers) \cup Permutations(Candidates)
=============================================================================
