-------------------------- MODULE RequestLifecycle --------------------------
(***************************************************************************)
(* What a GPU request promises: Pending -> Admitted -> Running ->          *)
(* Completed, or Admitted -> Completed, or Cancelled from anything that is *)
(* not over; its cluster is chosen once, at admission, and never changes.  *)
(***************************************************************************)
CONSTANTS Ids, Clusters, NoCluster

VARIABLES state, cluster

Move(id, from, to) == state[id] \in from /\ state' = [state EXCEPT ![id] = to]

Submit(id)   == Move(id, {"Absent"}, "Pending") /\ UNCHANGED cluster
Admit(id, c) == Move(id, {"Pending"}, "Admitted") /\ cluster' = [cluster EXCEPT ![id] = c]
Start(id)    == Move(id, {"Admitted"}, "Running") /\ UNCHANGED cluster
Complete(id) == Move(id, {"Admitted", "Running"}, "Completed") /\ UNCHANGED cluster
Cancel(id)   == Move(id, {"Pending", "Admitted", "Running"}, "Cancelled") /\ UNCHANGED cluster

Init ==
  /\ state = [id \in Ids |-> "Absent"]
  /\ cluster = [id \in Ids |-> NoCluster]

Next ==
  \E id \in Ids :
    \/ Submit(id) \/ Start(id) \/ Complete(id) \/ Cancel(id)
    \/ \E c \in Clusters : Admit(id, c)

Spec == Init /\ [][Next]_<<state, cluster>>
=============================================================================
