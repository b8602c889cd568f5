---------------------------- MODULE MCManualPool ----------------------------
(* ManualPool on two callers, a pool of one or two clusters and at most two  *)
(* replenish goroutines.  Callers, the pool's clusters and goroutines are    *)
(* interchangeable: the runs of safety properties may use that.              *)
EXTENDS ManualPool, TLC

Symmetry ==
  Permutations(Callers) \cup Permutations(Initial) \cup Permutations(Spare)

\* All but spec.installed, which only ListManualPool reads: no guard and no other
\* variable depends on it, so states that differ in it alone have the same future.
Observed == <<config, exists, pooled, claimed, hib, installed, fresh, job, holds, called>>
=============================================================================
