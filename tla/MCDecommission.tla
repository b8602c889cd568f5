--------------------------- MODULE MCDecommission ---------------------------
(* Up to three commands at a time over the workflow a previous version left,  *)
(* if any, and over the next one. The callers are interchangeable.            *)
EXTENDS Decommission, TLC

CallerSymmetry == Permutations(Callers)
=============================================================================
