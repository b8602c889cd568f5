----------------------------- MODULE PoolLease ------------------------------
(***************************************************************************)
(* What a cluster pool promises its callers: a cluster is free or leased,  *)
(* a caller takes a free one, nobody else has it until that caller returns *)
(* it, and the pool's owner may withdraw any cluster.                      *)
(***************************************************************************)
CONSTANTS Callers, Clusters

VARIABLES free,     \* clusters on offer
          leased    \* the clusters each caller has

Unleased(c) == \A p \in Callers : c \notin leased[p]

Init == free = {} /\ leased = [p \in Callers |-> {}]

Offer(c) == Unleased(c) /\ free' = free \cup {c} /\ UNCHANGED leased

Take(p, c) ==
  /\ c \in free
  /\ free' = free \ {c}
  /\ leased' = [leased EXCEPT ![p] = @ \cup {c}]

Return(p, c) ==
  /\ c \in leased[p]
  /\ leased' = [leased EXCEPT ![p] = @ \ {c}]
  /\ free' = free \cup {c}

\* The caller died before it learnt what it had taken: nobody can return it.
Abandon(p, c) ==
  /\ c \in leased[p]
  /\ leased' = [leased EXCEPT ![p] = @ \ {c}]
  /\ UNCHANGED free

Withdraw(c) ==
  /\ free' = free \ {c}
  /\ leased' = [p \in Callers |-> leased[p] \ {c}]

Next ==
  \E c \in Clusters :
    \/ Offer(c) \/ Withdraw(c)
    \/ \E p \in Callers : Take(p, c) \/ Return(p, c) \/ Abandon(p, c)

Spec == Init /\ [][Next]_<<free, leased>>
=============================================================================
