------------------------- MODULE MCDiscoveryAttempts -------------------------
(* DiscoveryAttempts on small instances.                                   *)
EXTENDS DiscoveryAttempts, TLC

Symmetric ==
    Permutations(Workers) \cup Permutations(Companies) \cup Permutations(ScoutOps)
==============================================================================
