--------------------------- MODULE MCBatchExecute ---------------------------
(* Execute on three items, given a concurrency that is defaulted, one that    *)
(* bounds it, and one that is more than the items.                            *)
EXTENDS BatchExecute

MCAsked == {-1, 0, 2, 21}
=============================================================================
