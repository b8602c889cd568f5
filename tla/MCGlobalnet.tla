---------------------------- MODULE MCGlobalnet ----------------------------
EXTENDS Globalnet, SequencesExt

\* The API server lists by name.
MCListOf ==
  LET byName == SetToSeq(Clusters)
  IN  [S \in SUBSET Clusters |-> SelectSeq(byName, LAMBDA x : x \in S)]

Interchangeable == Permutations(Callers)

=============================================================================
