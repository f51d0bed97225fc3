--------------------------- MODULE MCFinancialRun ---------------------------
(* FinancialRun on small instances.                                        *)
EXTENDS FinancialRun, TLC

Symmetric == Permutations(Requests)
=============================================================================
