----------------------------- MODULE Globalnet -----------------------------
(***************************************************************************)
(* Globalnet in internal/submariner: Enable gives the clusters of a set    *)
(* the global CIDRs 242.<i>.0.0/16, i their index in the list of the set,  *)
(* one cluster after another, while clusters join and leave the set and    *)
(* other callers enable and disable it. Every call may fail at any time.   *)
(***************************************************************************)
EXTENDS Integers, Sequences

CONSTANTS Clusters, Callers,
          ListOf  \* the list the API server answers with, for each set of clusters

ASSUME ListAssumption ==
  /\ ListOf \in [SUBSET Clusters -> Seq(Clusters)]
  /\ \A S \in SUBSET Clusters :
       /\ \A x \in S : \E i \in DOMAIN ListOf[S] : ListOf[S][i] = x
       /\ \A i, j \in DOMAIN ListOf[S] : ListOf[S][i] = ListOf[S][j] => i = j

VARIABLES
  members,  \* the clusters with the label of the set
  config,   \* the CIDR in the SubmarinerConfig of each cluster
  pc,       \* where each caller is in its Enable or Disable
  plan,     \* what the caller has listed, and its option --globalnet
  at,       \* its index in that list
  fresh,    \* the callers whose Get has read what is still there
  clean     \* history: the callers that have listed what is still the set, whose
            \* Gets have not failed and whom no other one has crossed with another plan

vars == <<members, config, pc, plan, at, fresh, clean>>

\* A configuration that is missing, and one without a global CIDR.
Missing == -2
NoCIDR  == -1

Enabling  == {"prepare", "get", "update", "check", "create", "label"}
Disabling == {"remove", "cleanup"}
Plans     == [list : Seq(Clusters), globalnet : BOOLEAN]

TypeOK ==
  /\ members \subseteq Clusters
  /\ config \in [Clusters -> {Missing, NoCIDR} \cup Nat]
  /\ pc \in [Callers -> Enabling \cup Disabling \cup {"idle", "done"}]
  /\ plan \in [Callers -> Plans]
  /\ at \in [Callers -> Nat \ {0}]
  /\ fresh \subseteq Callers /\ clean \subseteq Callers
  /\ \A c \in Callers : pc[c] \in Enabling \cup {"remove"} => at[c] <= Len(plan[c].list)

Init ==
  /\ members \in SUBSET Clusters
  /\ config = [x \in Clusters |-> Missing]
  /\ pc = [c \in Callers |-> "idle"]
  /\ plan = [c \in Callers |-> [list |-> <<>>, globalnet |-> FALSE]]
  /\ at = [c \in Callers |-> 1]
  /\ fresh = {} /\ clean = {}

-----------------------------------------------------------------------------

Active(c)  == pc[c] \in Enabling \cup Disabling
cluster(c) == plan[c].list[at[c]]
Go(c, to)  == pc' = [pc EXCEPT ![c] = to]

defaultGlobalCIDR(index) == index - 1
CIDR(p, index) == IF p.globalnet THEN defaultGlobalCIDR(index) ELSE NoCIDR
Desired(c)     == CIDR(plan[c], at[c])

Fail(c) == Go(c, "idle") /\ UNCHANGED <<members, config, plan, at, fresh, clean>>

\* The caller c begins on what it lists.
Begin(c, p, to) ==
  /\ Go(c, to)
  /\ plan' = [plan EXCEPT ![c] = p]
  /\ at' = [at EXCEPT ![c] = 1]
  /\ clean' = IF to \in Disabling THEN {}
              ELSE {d \in clean \ {c} : plan[d] = p}
                     \cup {d \in {c} : \A e \in Callers \ {c} :
                             Active(e) => pc[e] \in Enabling /\ plan[e] = p}
  /\ UNCHANGED <<members, config, fresh>>

\* A write that changes a configuration gives it a new resourceVersion.
Write(c, cidr) ==
  /\ config' = [config EXCEPT ![cluster(c)] = cidr]
  /\ fresh' = {d \in fresh \ {c} :
                 pc[d] = "update" /\ (cluster(d) # cluster(c) \/ config[cluster(c)] = cidr)}
  /\ Go(c, "label")
  /\ UNCHANGED <<members, plan, at, clean>>

-----------------------------------------------------------------------------
\* A cluster joins or leaves the set: its label is patched.

Relabel(S) == members' = S /\ clean' = {} /\ UNCHANGED <<config, pc, plan, at, fresh>>
Join(x)  == x \notin members /\ Relabel(members \cup {x})
Leave(x) == x \in members /\ Relabel(members \ {x})

-----------------------------------------------------------------------------
\* Enable.

Enable(c, globalnet) ==
  /\ ~ Active(c)
  /\ members # {}
  /\ Begin(c, [list |-> ListOf[members], globalnet |-> globalnet], "prepare")

\* The broker, the credentials and the add-on, on which no CIDR depends.
Prepare(c) ==
  /\ pc[c] = "prepare"
  /\ Go(c, "get")
  /\ UNCHANGED <<members, config, plan, at, fresh, clean>>

\* Mutant: a configuration that is there is left as it is.
GetConfigOnce(c) ==
  /\ pc[c] = "get"
  /\ Go(c, "check")
  /\ UNCHANGED <<members, config, plan, at, fresh, clean>>

GetConfig(c) ==
  /\ pc[c] = "get"
  /\ IF config[cluster(c)] = Missing
       THEN Go(c, "check") /\ UNCHANGED fresh
       ELSE Go(c, "update") /\ fresh' = fresh \cup {c}
  /\ UNCHANGED <<members, config, plan, at, clean>>

\* Any error of the Get is taken for a configuration that is missing.
Misread(c) ==
  /\ pc[c] = "get"
  /\ Go(c, "check")
  /\ clean' = clean \ {c}
  /\ UNCHANGED <<members, config, plan, at, fresh>>

UpdateConfig(c) ==
  /\ pc[c] = "update"
  /\ IF config[cluster(c)] # Missing /\ c \in fresh THEN Write(c, Desired(c)) ELSE Fail(c)

\* CreateIfNotExists: a Get, and a Create when it has found nothing.
CheckConfig(c) ==
  /\ pc[c] = "check"
  /\ Go(c, IF config[cluster(c)] = Missing THEN "create" ELSE "label")
  /\ UNCHANGED <<members, config, plan, at, fresh, clean>>

CreateConfig(c) ==
  /\ pc[c] = "create"
  /\ IF config[cluster(c)] = Missing THEN Write(c, Desired(c)) ELSE Fail(c)

\* Mutant: the loop runs past the end of the list.
LabelTooMany(c) ==
  /\ pc[c] = "label"
  /\ at' = [at EXCEPT ![c] = @ + 1]
  /\ Go(c, IF at[c] <= Len(plan[c].list) THEN "prepare" ELSE "done")
  /\ UNCHANGED <<members, config, plan, fresh, clean>>

\* The label of the cluster, with which its turn ends.
Label(c) ==
  /\ pc[c] = "label"
  /\ IF at[c] < Len(plan[c].list)
       THEN at' = [at EXCEPT ![c] = @ + 1] /\ Go(c, "prepare")
       ELSE UNCHANGED at /\ Go(c, "done")
  /\ UNCHANGED <<members, config, plan, fresh, clean>>

-----------------------------------------------------------------------------
\* Disable drops the errors of its calls until it waits for the add-ons.

Disable(c) ==
  /\ ~ Active(c)
  /\ Begin(c, [list |-> ListOf[members], globalnet |-> FALSE],
           IF ListOf[members] = <<>> THEN "cleanup" ELSE "remove")

Unconfigure(c) ==
  /\ pc[c] = "remove"
  /\ \/ config' = [config EXCEPT ![cluster(c)] = Missing]
     \/ UNCHANGED config
  /\ IF at[c] < Len(plan[c].list)
       THEN at' = [at EXCEPT ![c] = @ + 1] /\ UNCHANGED pc
       ELSE UNCHANGED at /\ Go(c, "cleanup")
  /\ UNCHANGED <<members, plan, fresh, clean>>

Cleanup(c) ==
  /\ pc[c] = "cleanup"
  /\ Go(c, "idle")
  /\ UNCHANGED <<members, config, plan, at, fresh, clean>>

\* A call fails the operation, or its process is killed.
Abort(c) == Active(c) /\ Fail(c)

-----------------------------------------------------------------------------

Next ==
  \/ \E x \in Clusters : Join(x) \/ Leave(x)
  \/ \E c \in Callers :
       \/ \E globalnet \in BOOLEAN : Enable(c, globalnet)
       \/ Prepare(c) \/ GetConfig(c) \/ Misread(c) \/ UpdateConfig(c) \/ CheckConfig(c)
       \/ CreateConfig(c) \/ Label(c)
       \/ Disable(c) \/ Unconfigure(c) \/ Cleanup(c) \/ Abort(c)

Spec == Init /\ [][Next]_vars

-----------------------------------------------------------------------------

\* Safety: when an Enable with Globalnet has succeeded, every cluster of the set has
\* a global CIDR and no two have the same, whatever earlier and failed attempts have
\* left; unless a Get of it has failed, the set has changed or someone has begun to
\* change the configurations otherwise since it listed the set.
DistinctCIDRs ==
  \A c \in clean : pc[c] = "done" /\ plan[c].globalnet =>
    /\ \A x \in members : config[x] >= 0
    /\ \A x, y \in members : config[x] = config[y] => x = y

=============================================================================
