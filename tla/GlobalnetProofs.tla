-------------------------- MODULE GlobalnetProofs --------------------------
(***************************************************************************)
(* An Enable that nothing has crossed leaves distinct global CIDRs: for    *)
(* any number of clusters and callers.                                     *)
(***************************************************************************)
EXTENDS Globalnet, TLAPS

Right(c, j) == config[plan[c].list[j]] = CIDR(plan[c], j)
Past(c, j)  == j < at[c] \/ pc[c] = "done" \/ (j = at[c] /\ pc[c] = "label")

Alone(c) == \A d \in Callers \ {c} : Active(d) => pc[d] \in Enabling /\ plan[d] = plan[c]

\* What a caller in clean has done so far: it works on the list of the set, nobody
\* works against it, and the clusters it has passed have their CIDRs.
Good(c) ==
  /\ plan[c].list = ListOf[members]
  /\ Alone(c)
  /\ \A j \in DOMAIN plan[c].list : Past(c, j) => Right(c, j)
  /\ pc[c] = "check" => config[cluster(c)] = Missing \/ Right(c, at[c])

Counts(c) == c \in clean /\ pc[c] \in Enabling \cup {"done"}
IInv == TypeOK /\ \A c \in Callers : Counts(c) => Good(c)

-----------------------------------------------------------------------------
\* The types.

LEMMA ListTyped ==
  ASSUME NEW S \in SUBSET Clusters
  PROVE  /\ ListOf[S] \in Seq(Clusters)
         /\ Len(ListOf[S]) \in Nat
         /\ S # {} => 1 <= Len(ListOf[S])
         /\ ListOf[S] # <<>> => 1 <= Len(ListOf[S])
<1>1. ListOf[S] \in Seq(Clusters)
  BY ListAssumption
<1>2. S # {} => \E i \in DOMAIN ListOf[S] : TRUE
  BY ListAssumption
<1>3. \A s \in Seq(Clusters) : /\ Len(s) \in Nat /\ DOMAIN s = 1 .. Len(s)
                               /\ s # <<>> => 1 <= Len(s)
  OBVIOUS
<1> QED BY <1>1, <1>2, <1>3

LEMMA ClusterTyped ==
  ASSUME TypeOK, NEW c \in Callers, pc[c] \in Enabling \cup {"remove"}
  PROVE  /\ at[c] \in DOMAIN plan[c].list
         /\ cluster(c) \in Clusters
         /\ plan[c].list \in Seq(Clusters) /\ Len(plan[c].list) \in Nat
         /\ Desired(c) \in {NoCIDR} \cup Nat
<1>1. plan[c] \in Plans /\ at[c] \in Nat \ {0} /\ at[c] <= Len(plan[c].list)
  BY DEF TypeOK
<1>2. plan[c].list \in Seq(Clusters)
  BY <1>1 DEF Plans
<1>3. at[c] \in DOMAIN plan[c].list /\ Len(plan[c].list) \in Nat
  BY <1>1, <1>2
<1> QED BY <1>1, <1>2, <1>3 DEF cluster, Desired, CIDR, defaultGlobalCIDR

\* A caller that moves on leaves every other where it is.
LEMMA MovedTyped ==
  ASSUME TypeOK, NEW c \in Callers, NEW to \in Enabling \cup Disabling \cup {"idle", "done"},
         Go(c, to), UNCHANGED <<members, plan>>,
         config' \in [Clusters -> {Missing, NoCIDR} \cup Nat],
         fresh' \subseteq Callers, clean' \subseteq Callers,
         NEW n \in Nat \ {0}, at' = [at EXCEPT ![c] = n],
         to \in Enabling \cup {"remove"} => n <= Len(plan[c].list)
  PROVE  TypeOK'
<1>1. at' \in [Callers -> Nat \ {0}] /\ pc' \in [Callers -> Enabling \cup Disabling \cup {"idle", "done"}]
  BY DEF TypeOK, Go
<1>2. ASSUME NEW d \in Callers, pc'[d] \in Enabling \cup {"remove"}
      PROVE  at'[d] <= Len(plan'[d].list)
  BY <1>2 DEF TypeOK, Go
<1> QED BY <1>1, <1>2 DEF TypeOK

LEMMA StayedTyped ==
  ASSUME TypeOK, NEW c \in Callers, NEW to \in Enabling \cup Disabling \cup {"idle", "done"},
         Go(c, to), UNCHANGED <<members, plan, at>>,
         config' \in [Clusters -> {Missing, NoCIDR} \cup Nat],
         fresh' \subseteq Callers, clean' \subseteq Callers,
         to \in Enabling \cup {"remove"} => pc[c] \in Enabling \cup {"remove"}
  PROVE  TypeOK'
<1>1. at' = [at EXCEPT ![c] = at[c]] /\ at[c] \in Nat \ {0}
  BY DEF TypeOK
<1>2. to \in Enabling \cup {"remove"} => at[c] <= Len(plan[c].list)
  BY DEF TypeOK
<1> QED BY <1>1, <1>2, MovedTyped

LEMMA BegunTyped ==
  ASSUME TypeOK, NEW c \in Callers, NEW globalnet \in BOOLEAN,
         NEW to \in {"prepare", "remove", "cleanup"},
         to # "cleanup" => 1 <= Len(ListOf[members]),
         Begin(c, [list |-> ListOf[members], globalnet |-> globalnet], to)
  PROVE  TypeOK'
<1>1. [list |-> ListOf[members], globalnet |-> globalnet] \in Plans
  BY ListTyped DEF TypeOK, Plans
<1>2. /\ plan' \in [Callers -> Plans] /\ at' \in [Callers -> Nat \ {0}]
      /\ pc' \in [Callers -> Enabling \cup Disabling \cup {"idle", "done"}]
  BY <1>1 DEF Begin, Go, TypeOK, Enabling, Disabling
<1>3. ASSUME NEW d \in Callers, pc'[d] \in Enabling \cup {"remove"}
      PROVE  at'[d] <= Len(plan'[d].list)
  <2>1. CASE d = c
    BY <1>3, <2>1 DEF Begin, Go, TypeOK, Enabling
  <2>2. CASE d # c
    BY <1>3, <2>2 DEF Begin, Go, TypeOK
  <2> QED BY <2>1, <2>2
<1>4. clean' \subseteq Callers
  BY DEF Begin, TypeOK
<1> QED BY <1>2, <1>3, <1>4 DEF Begin, TypeOK

LEMMA TypeInductive ==
  ASSUME TypeOK, [Next]_vars
  PROVE  TypeOK'
<1>1. ASSUME NEW x \in Clusters, Join(x) \/ Leave(x)
      PROVE  TypeOK'
  BY <1>1 DEF Join, Leave, Relabel, TypeOK
<1>2. ASSUME NEW c \in Callers, NEW globalnet \in BOOLEAN, Enable(c, globalnet)
      PROVE  TypeOK'
  <2>1. 1 <= Len(ListOf[members])
    BY <1>2, ListTyped DEF Enable, TypeOK
  <2> QED BY <1>2, <2>1, BegunTyped DEF Enable
<1>3. ASSUME NEW c \in Callers, Disable(c)
      PROVE  TypeOK'
  <2>1. ListOf[members] # <<>> => 1 <= Len(ListOf[members])
    BY ListTyped DEF TypeOK
  <2>2. CASE ListOf[members] = <<>>
    BY <1>3, <2>2, BegunTyped DEF Disable
  <2>3. CASE ListOf[members] # <<>>
    BY <1>3, <2>1, <2>3, BegunTyped DEF Disable
  <2> QED BY <2>2, <2>3
<1>4. ASSUME NEW c \in Callers, Prepare(c) \/ GetConfig(c) \/ Misread(c) \/ CheckConfig(c)
                                  \/ Cleanup(c) \/ Abort(c)
      PROVE  TypeOK'
  BY <1>4, StayedTyped
     DEF Prepare, GetConfig, Misread, CheckConfig, Cleanup, Abort, Fail, TypeOK, Enabling, Disabling
<1>5. ASSUME NEW c \in Callers, UpdateConfig(c) \/ CreateConfig(c)
      PROVE  TypeOK'
  <2>1. pc[c] \in Enabling
    BY <1>5 DEF UpdateConfig, CreateConfig, Enabling
  <2>2. CASE Write(c, Desired(c))
    <3>1. config' \in [Clusters -> {Missing, NoCIDR} \cup Nat]
      BY <2>1, <2>2, ClusterTyped DEF Write, TypeOK
    <3>2. fresh' \subseteq Callers /\ clean' \subseteq Callers
      BY <2>2 DEF Write, TypeOK
    <3> QED BY <2>1, <2>2, <3>1, <3>2, StayedTyped DEF Write, Enabling
  <2>3. CASE Fail(c)
    BY <2>3, StayedTyped DEF Fail, TypeOK, Enabling
  <2> QED BY <1>5, <2>2, <2>3 DEF UpdateConfig, CreateConfig
<1>6. ASSUME NEW c \in Callers, Label(c)
      PROVE  TypeOK'
  <2>1. at[c] \in Nat \ {0} /\ at[c] + 1 \in Nat \ {0} /\ Len(plan[c].list) \in Nat
    BY <1>6, ClusterTyped DEF Label, TypeOK, Enabling
  <2>2. CASE at[c] < Len(plan[c].list)
    <3>1. at[c] + 1 <= Len(plan[c].list)
      BY <2>1, <2>2
    <3> QED BY <1>6, <2>1, <2>2, <3>1, MovedTyped DEF Label, TypeOK, Enabling
  <2>3. CASE ~ (at[c] < Len(plan[c].list))
    BY <1>6, <2>3, StayedTyped DEF Label, TypeOK, Enabling
  <2> QED BY <2>2, <2>3
<1>7. ASSUME NEW c \in Callers, Unconfigure(c)
      PROVE  TypeOK'
  <2>1. at[c] \in Nat \ {0} /\ at[c] + 1 \in Nat \ {0} /\ Len(plan[c].list) \in Nat
    BY <1>7, ClusterTyped DEF Unconfigure, TypeOK
  <2>2. config' \in [Clusters -> {Missing, NoCIDR} \cup Nat]
    BY <1>7, ClusterTyped DEF Unconfigure, TypeOK
  <2>3. CASE at[c] < Len(plan[c].list)
    <3>1. at[c] + 1 <= Len(plan[c].list)
      BY <2>1, <2>3
    <3>2. Go(c, "remove")
      BY <1>7, <2>3 DEF Unconfigure, Go, TypeOK
    <3> QED BY <1>7, <2>1, <2>2, <2>3, <3>1, <3>2, MovedTyped DEF Unconfigure, TypeOK, Disabling
  <2>4. CASE ~ (at[c] < Len(plan[c].list))
    BY <1>7, <2>2, <2>4, StayedTyped DEF Unconfigure, TypeOK, Disabling, Enabling
  <2> QED BY <2>3, <2>4
<1>8. CASE UNCHANGED vars
  BY <1>8 DEF vars, TypeOK
<1> QED BY <1>1, <1>2, <1>3, <1>4, <1>5, <1>6, <1>7, <1>8 DEF Next

-----------------------------------------------------------------------------
\* What a caller in clean has done stays.

\* The caller c has written nothing, or what it wants.
Writes(c) ==
  \/ config' = config
  \/ pc[c] \in Enabling /\ config' = [config EXCEPT ![cluster(c)] = Desired(c)]

LEMMA StaysRight ==
  ASSUME IInv, NEW c \in Callers, Writes(c), UNCHANGED plan,
         NEW d \in Callers, plan[d] = plan[c], plan[d].list = ListOf[members],
         NEW j \in DOMAIN plan[d].list
  PROVE  /\ Right(d, j) => Right(d, j)'
         /\ config[plan[d].list[j]] = Missing =>
              config'[plan[d].list[j]] = Missing \/ Right(d, j)'
         /\ config' # config /\ j = at[c] => Right(d, j)'
<1>1. CASE config' = config
  BY <1>1 DEF Right
<1>2. CASE pc[c] \in Enabling /\ config' = [config EXCEPT ![cluster(c)] = Desired(c)]
  <2>1. at[c] \in DOMAIN plan[d].list /\ cluster(c) \in Clusters /\ cluster(c) = plan[d].list[at[c]]
    BY <1>2, ClusterTyped DEF IInv, cluster
  <2>2. plan[d].list[j] = cluster(c) => j = at[c]
    <3>1. members \in SUBSET Clusters
      BY DEF IInv, TypeOK
    <3>2. \A i, k \in DOMAIN plan[d].list : plan[d].list[i] = plan[d].list[k] => i = k
      BY <3>1, ListAssumption
    <3> QED BY <2>1, <3>2
  <2>3. config \in [Clusters -> {Missing, NoCIDR} \cup Nat] /\ plan[d].list[j] \in Clusters
    BY ListTyped DEF IInv, TypeOK
  <2>4. config'[plan[d].list[j]] =
          IF plan[d].list[j] = cluster(c) THEN Desired(c) ELSE config[plan[d].list[j]]
    BY <1>2, <2>1, <2>3
  <2>5. CIDR(plan[d], j)' = CIDR(plan[d], j) /\ Desired(c) = CIDR(plan[d], at[c])
    BY DEF CIDR, Desired, defaultGlobalCIDR
  <2> QED BY <2>1, <2>2, <2>4, <2>5 DEF Right
<1> QED BY <1>1, <1>2 DEF Writes

\* Of the others: c goes on with what it does, or ends it.
LEMMA OthersGood ==
  ASSUME IInv, NEW c \in Callers, Writes(c), UNCHANGED <<members, plan>>, clean' \subseteq clean,
         NEW to, Go(c, to), NEW n \in Nat, at' = [at EXCEPT ![c] = n],
         \/ to \in {"idle", "done"}
         \/ to \in Enabling /\ pc[c] \in Enabling
         \/ to \in Disabling /\ pc[c] \in Disabling,
         NEW d \in Callers, d # c, Counts(d)'
  PROVE  Good(d)'
<1>1. pc'[d] = pc[d] /\ at'[d] = at[d] /\ plan'[d] = plan[d]
  BY DEF IInv, TypeOK, Go
<1>2. Counts(d) /\ Good(d)
  BY <1>1 DEF Counts, IInv
<1>3. ASSUME config' # config
      PROVE  plan[d] = plan[c]
  BY <1>2, <1>3 DEF Writes, Good, Alone, Active
<1>4. Alone(d)'
  <2>1. ASSUME NEW e \in Callers \ {d}, Active(e)'
        PROVE  pc'[e] \in Enabling /\ plan'[e] = plan[d]
    <3>1. CASE e = c
      <4>1. pc'[c] = to
        BY DEF IInv, TypeOK, Go
      <4>2. Active(c)
        BY <2>1, <3>1, <4>1 DEF Active, Enabling, Disabling
      <4> QED BY <1>2, <2>1, <3>1, <4>1, <4>2 DEF Good, Alone, Active, Enabling, Disabling
    <3>2. CASE e # c
      <4>1. pc'[e] = pc[e]
        BY <3>2 DEF IInv, TypeOK, Go
      <4> QED BY <1>2, <2>1, <4>1 DEF Good, Alone, Active
    <3> QED BY <3>1, <3>2
  <2> QED BY <1>1, <2>1 DEF Alone
<1>5. ASSUME NEW j \in DOMAIN plan[d].list
      PROVE  /\ Right(d, j) => Right(d, j)'
             /\ config[plan[d].list[j]] = Missing =>
                  config'[plan[d].list[j]] = Missing \/ Right(d, j)'
  <2>1. CASE config' = config
    BY <2>1 DEF Right
  <2>2. CASE config' # config
    BY <1>2, <1>3, <2>2, StaysRight DEF Good
  <2> QED BY <2>1, <2>2
<1>6. \A j \in DOMAIN plan'[d].list : Past(d, j)' => Right(d, j)'
  BY <1>1, <1>2, <1>5 DEF Good, Past
<1>7. pc'[d] = "check" => config'[cluster(d)'] = Missing \/ Right(d, at[d])'
  <2>1. pc[d] = "check" => at[d] \in DOMAIN plan[d].list
    BY ClusterTyped DEF IInv, Enabling
  <2> QED BY <1>1, <1>2, <1>5, <2>1 DEF Good, cluster
<1> QED BY <1>1, <1>2, <1>4, <1>6, <1>7 DEF Good

\* Of the caller that moves, but for the clusters it has passed.
LEMMA OwnGood ==
  ASSUME IInv, NEW c \in Callers, Writes(c), UNCHANGED <<members, plan>>, clean' \subseteq clean,
         NEW to, Go(c, to), pc[c] \in Enabling, Counts(c)',
         NEW n \in Nat, at' = [at EXCEPT ![c] = n],
         \A j \in DOMAIN plan[c].list :
           Past(c, j)' => Past(c, j) \/ Right(c, j) \/ (j = at[c] /\ config' # config),
         to = "check" => n = at[c] /\ config[cluster(c)] = Missing
  PROVE  Good(c)'
<1>1. Counts(c) /\ Good(c) /\ plan' = plan /\ members' = members
  BY DEF Counts, IInv
<1>2. Alone(c)'
  BY <1>1 DEF Good, Alone, Active, Go, IInv, TypeOK
<1>3. \A j \in DOMAIN plan'[c].list : Past(c, j)' => Right(c, j)'
  BY <1>1, StaysRight DEF Good
<1>4. pc'[c] = "check" => config'[cluster(c)'] = Missing \/ Right(c, at[c])'
  <2>0. \A j \in DOMAIN plan[c].list :
          config[plan[c].list[j]] = Missing =>
            config'[plan[c].list[j]] = Missing \/ Right(c, j)'
    BY <1>1, StaysRight DEF Good
  <2>1. at[c] \in DOMAIN plan[c].list
    BY ClusterTyped DEF IInv
  <2>2. pc'[c] = "check" => to = "check"
    BY DEF IInv, TypeOK, Go
  <2>3. to = "check" => at'[c] = at[c] /\ cluster(c)' = cluster(c)
    BY <1>1 DEF IInv, TypeOK, cluster
  <2> QED BY <1>1, <2>0, <2>1, <2>2, <2>3 DEF cluster, Right
<1> QED BY <1>1, <1>2, <1>3, <1>4 DEF Good

-----------------------------------------------------------------------------
\* One lemma for each kind of step.

\* A caller begins: it agrees with all that are at work, or is not in clean.
LEMMA BeginGood ==
  ASSUME IInv, NEW c \in Callers, ~ Active(c), NEW globalnet \in BOOLEAN,
         NEW to \in {"prepare"} \cup Disabling,
         Begin(c, [list |-> ListOf[members], globalnet |-> globalnet], to),
         NEW d \in Callers, Counts(d)'
  PROVE  Good(d)'
<1> DEFINE p == [list |-> ListOf[members], globalnet |-> globalnet]
<1>1. /\ to = "prepare"
      /\ \A e \in Callers : /\ pc'[e] = IF e = c THEN to ELSE pc[e]
                            /\ plan'[e] = IF e = c THEN p ELSE plan[e]
                            /\ at'[e] = IF e = c THEN 1 ELSE at[e]
      /\ UNCHANGED <<members, config>>
  BY DEF Begin, Go, Counts, IInv, TypeOK, Disabling
<1>2. CASE d = c
  <2>1. \A e \in Callers \ {c} : Active(e) => pc[e] \in Enabling /\ plan[e] = p
    BY <1>1, <1>2 DEF Begin, Counts, Disabling
  <2>2. Alone(d)'
    BY <1>1, <1>2, <2>1 DEF Alone, Active
  <2>3. \A j \in DOMAIN plan'[d].list : ~ Past(d, j)'
    <3>1. p.list \in Seq(Clusters)
      BY ListTyped DEF IInv, TypeOK
    <3>2. \A j \in DOMAIN p.list : j \in Nat /\ j >= 1
      BY <3>1
    <3> QED BY <1>1, <1>2, <3>2 DEF Past
  <2> QED BY <1>1, <1>2, <2>2, <2>3 DEF Good
<1>3. CASE d # c
  <2>1. d \in clean /\ plan[d] = p /\ Good(d)
    BY <1>1, <1>3 DEF Begin, Counts, IInv, Disabling
  <2>2. Alone(d)'
    BY <1>1, <1>3, <2>1 DEF Good, Alone, Active, Enabling
  <2> QED BY <1>1, <1>3, <2>1, <2>2 DEF Good, Past, Right, cluster
<1> QED BY <1>2, <1>3

LEMMA UnchangedGood ==
  ASSUME IInv, UNCHANGED <<members, config, pc, plan, at>>, clean' \subseteq clean,
         NEW d \in Callers, Counts(d)'
  PROVE  Good(d)'
  BY DEF IInv, Counts, Good, Alone, Active, Past, Right, cluster

LEMMA FailGood ==
  ASSUME IInv, NEW c \in Callers, Fail(c), NEW d \in Callers, Counts(d)'
  PROVE  Good(d)'
<1>1. d # c
  BY DEF Fail, Go, Counts, Enabling, IInv, TypeOK
<1>2. at[c] \in Nat /\ at' = [at EXCEPT ![c] = at[c]]
  BY DEF Fail, IInv, TypeOK
<1> QED BY <1>1, <1>2, OthersGood DEF Fail, Writes

\* The steps of Enable that write nothing and stay at their cluster.
LEMMA QuietGood ==
  ASSUME IInv, NEW c \in Callers, Prepare(c) \/ GetConfig(c) \/ Misread(c) \/ CheckConfig(c),
         NEW d \in Callers, Counts(d)'
  PROVE  Good(d)'
<1>1. /\ UNCHANGED <<members, config, plan, at>> /\ clean' \subseteq clean
      /\ pc[c] \in Enabling /\ pc[c] # "done"
  BY DEF Prepare, GetConfig, Misread, CheckConfig, Enabling
<1>2. PICK to \in Enabling : Go(c, to)
  BY DEF Prepare, GetConfig, Misread, CheckConfig, Enabling
<1>3. at[c] \in Nat /\ at' = [at EXCEPT ![c] = at[c]]
  BY <1>1 DEF IInv, TypeOK
<1>4. CASE d # c
  BY <1>1, <1>2, <1>3, <1>4, OthersGood DEF Writes
<1>5. CASE d = c
  <2>1. pc'[c] = to
    BY <1>2 DEF Go, IInv, TypeOK
  <2>2. ~ Misread(c)
    BY <1>5 DEF Misread, Counts
  <2>3. to = "check" => config[cluster(c)] = Missing
    BY <2>1, <2>2 DEF Prepare, GetConfig, CheckConfig, Go, IInv, TypeOK
  <2>4. to = "label" => pc[c] = "check" /\ config[cluster(c)] # Missing
    BY <2>1, <2>2 DEF Prepare, GetConfig, CheckConfig, Go, IInv, TypeOK
  <2>5. to = "label" => Right(c, at[c])
    BY <1>1, <1>5, <2>4 DEF Counts, IInv, Good
  <2>6. \A j \in DOMAIN plan[c].list :
          Past(c, j)' => Past(c, j) \/ Right(c, j) \/ (j = at[c] /\ config' # config)
    BY <1>1, <2>1, <2>5 DEF Past, Enabling
  <2>7. Writes(c)
    BY <1>1 DEF Writes
  <2>8. to = "check" => at[c] = at[c] /\ config[cluster(c)] = Missing
    BY <2>3
  <2>9. Counts(c)'
    BY <1>5
  <2>10. Good(c)'
    BY <1>1, <1>2, <1>3, <2>6, <2>7, <2>8, <2>9, OwnGood
  <2> QED BY <1>5, <2>10
<1> QED BY <1>4, <1>5

LEMMA WriteGood ==
  ASSUME IInv, NEW c \in Callers, pc[c] \in {"update", "create"}, Write(c, Desired(c)),
         NEW d \in Callers, Counts(d)'
  PROVE  Good(d)'
<1>1. /\ UNCHANGED <<members, plan, at>> /\ clean' = clean
      /\ pc[c] \in Enabling /\ Go(c, "label") /\ Writes(c)
      /\ config' = [config EXCEPT ![cluster(c)] = Desired(c)]
  BY DEF Write, Enabling, Writes
<1>2. at[c] \in Nat /\ at' = [at EXCEPT ![c] = at[c]]
  BY <1>1 DEF IInv, TypeOK
<1>3. CASE d # c
  BY <1>1, <1>2, <1>3, OthersGood DEF Enabling
<1>4. CASE d = c
  <2>1. pc'[c] = "label"
    BY <1>1 DEF Go, IInv, TypeOK
  <2>2. config' = config => Right(c, at[c])
    BY <1>1, ClusterTyped DEF Right, Desired, cluster, IInv, TypeOK
  <2>3. \A j \in DOMAIN plan[c].list :
          Past(c, j)' => Past(c, j) \/ Right(c, j) \/ (j = at[c] /\ config' # config)
    BY <1>1, <2>1, <2>2 DEF Past, Right
  <2>4. Counts(c)'
    BY <1>4
  <2>5. PICK to \in {"label"} : Go(c, to) /\ to # "check"
    BY <1>1
  <2>6. clean' \subseteq clean
    BY <1>1
  <2>7. Good(c)'
    BY <1>1, <1>2, <2>3, <2>4, <2>5, <2>6, OwnGood
  <2> QED BY <1>4, <2>7
<1> QED BY <1>3, <1>4

LEMMA LabelGood ==
  ASSUME IInv, NEW c \in Callers, Label(c), NEW d \in Callers, Counts(d)'
  PROVE  Good(d)'
<1>1. /\ UNCHANGED <<members, config, plan>> /\ clean' = clean
      /\ pc[c] = "label" /\ pc[c] \in Enabling /\ Writes(c)
  BY DEF Label, Enabling, Writes
<1>2. at[c] \in Nat /\ Len(plan[c].list) \in Nat /\ plan[c].list \in Seq(Clusters)
  BY <1>1, ClusterTyped DEF IInv, TypeOK
<1>3. \E n \in Nat, to \in {"prepare", "done"} :
        /\ Go(c, to) /\ at' = [at EXCEPT ![c] = n]
        /\ to = "prepare" => n = at[c] + 1
        /\ to = "done" => n = at[c] /\ Len(plan[c].list) <= at[c]
  <2>1. CASE at[c] < Len(plan[c].list)
    <3>1. at[c] + 1 \in Nat
      BY <1>2
    <3> QED BY <2>1, <3>1 DEF Label
  <2>2. CASE ~ (at[c] < Len(plan[c].list))
    <3>1. Len(plan[c].list) <= at[c]
      BY <1>2, <2>2
    <3>2. at' = [at EXCEPT ![c] = at[c]] /\ Go(c, "done")
      BY <2>2 DEF Label, IInv, TypeOK
    <3> QED BY <1>2, <3>1, <3>2
  <2> QED BY <2>1, <2>2
<1>4. PICK n \in Nat, to \in {"prepare", "done"} :
        /\ Go(c, to) /\ at' = [at EXCEPT ![c] = n]
        /\ to = "prepare" => n = at[c] + 1
        /\ to = "done" => n = at[c] /\ Len(plan[c].list) <= at[c]
  BY <1>3
<1>5. CASE d # c
  BY <1>1, <1>4, <1>5, OthersGood DEF Enabling
<1>6. CASE d = c
  <2>1. pc'[c] = to /\ at'[c] = n
    BY <1>4 DEF Go, IInv, TypeOK
  <2>2. \A j \in DOMAIN plan[c].list : j \in Nat /\ j <= Len(plan[c].list)
    BY <1>2
  <2>3. \A j \in DOMAIN plan[c].list : Past(c, j)' => j < at[c] \/ j = at[c]
    <3>1. CASE to = "prepare"
      BY <1>2, <1>4, <2>1, <2>2, <3>1 DEF Past
    <3>2. CASE to = "done"
      BY <1>2, <1>4, <2>2, <3>2
    <3> QED BY <3>1, <3>2
  <2>4. \A j \in DOMAIN plan[c].list :
          Past(c, j)' => Past(c, j) \/ Right(c, j) \/ (j = at[c] /\ config' # config)
    BY <1>1, <2>3 DEF Past
  <2>5. Counts(c)'
    BY <1>6
  <2>6. to # "check"
    OBVIOUS
  <2>7. Good(c)'
    BY <1>1, <1>4, <2>4, <2>5, <2>6, OwnGood
  <2> QED BY <1>6, <2>7
<1> QED BY <1>5, <1>6

\* Disable is never crossed by a caller in clean.
LEMMA DisablingGood ==
  ASSUME IInv, NEW c \in Callers, Unconfigure(c) \/ Cleanup(c), NEW d \in Callers, Counts(d)'
  PROVE  Good(d)'
<1>1. UNCHANGED <<members, plan, clean>> /\ pc[c] \in Disabling /\ pc[c] \notin Enabling /\ Active(c)
  BY DEF Unconfigure, Cleanup, Disabling, Enabling, Active
<1>2. CASE d # c
  <2>1. Counts(d)
    BY <1>1, <1>2 DEF Counts, Unconfigure, Cleanup, Go, IInv, TypeOK
  <2> QED BY <1>1, <1>2, <2>1 DEF IInv, Good, Alone
<1>3. CASE d = c
  BY <1>1, <1>3 DEF Counts, Unconfigure, Cleanup, Go, IInv, TypeOK, Enabling, Disabling
<1> QED BY <1>2, <1>3

-----------------------------------------------------------------------------

LEMMA Inductive ==
  ASSUME IInv, [Next]_vars
  PROVE  IInv'
<1>1. TypeOK'
  BY TypeInductive DEF IInv
<1>2. ASSUME NEW d \in Callers, Counts(d)'
      PROVE  Good(d)'
  <2>1. ASSUME NEW x \in Clusters, Join(x) \/ Leave(x)
        PROVE  Good(d)'
    BY <1>2, <2>1 DEF Join, Leave, Relabel, Counts
  <2>2. ASSUME NEW c \in Callers, NEW globalnet \in BOOLEAN, Enable(c, globalnet)
        PROVE  Good(d)'
    BY <1>2, <2>2, BeginGood DEF Enable
  <2>3. ASSUME NEW c \in Callers, Disable(c)
        PROVE  Good(d)'
    <3>1. CASE ListOf[members] = <<>>
      BY <1>2, <2>3, <3>1, BeginGood DEF Disable, Disabling
    <3>2. CASE ListOf[members] # <<>>
      BY <1>2, <2>3, <3>2, BeginGood DEF Disable, Disabling
    <3> QED BY <3>1, <3>2
  <2>4. ASSUME NEW c \in Callers,
               Prepare(c) \/ GetConfig(c) \/ Misread(c) \/ CheckConfig(c)
        PROVE  Good(d)'
    BY <1>2, <2>4, QuietGood
  <2>5. ASSUME NEW c \in Callers, UpdateConfig(c) \/ CreateConfig(c)
        PROVE  Good(d)'
    BY <1>2, <2>5, WriteGood, FailGood DEF UpdateConfig, CreateConfig
  <2>6. ASSUME NEW c \in Callers, Label(c)
        PROVE  Good(d)'
    BY <1>2, <2>6, LabelGood
  <2>7. ASSUME NEW c \in Callers, Unconfigure(c) \/ Cleanup(c)
        PROVE  Good(d)'
    BY <1>2, <2>7, DisablingGood
  <2>8. ASSUME NEW c \in Callers, Abort(c)
        PROVE  Good(d)'
    BY <1>2, <2>8, FailGood DEF Abort
  <2>9. CASE UNCHANGED vars
    BY <1>2, <2>9, UnchangedGood DEF vars
  <2> QED BY <2>1, <2>2, <2>3, <2>4, <2>5, <2>6, <2>7, <2>8, <2>9 DEF Next
<1> QED BY <1>1, <1>2 DEF IInv

LEMMA Starting ==
  ASSUME Init
  PROVE  IInv
<1>1. <<>> \in Seq(Clusters)
  OBVIOUS
<1> QED BY <1>1 DEF Init, IInv, TypeOK, Plans, Counts, Enabling, Disabling

\* What the invariant says of an Enable that has succeeded.
LEMMA Distinct ==
  ASSUME IInv
  PROVE  DistinctCIDRs
<1> SUFFICES ASSUME NEW c \in clean, pc[c] = "done", plan[c].globalnet
             PROVE  /\ \A x \in members : config[x] >= 0
                    /\ \A x, y \in members : config[x] = config[y] => x = y
  BY DEF DistinctCIDRs
<1>1. Good(c) /\ members \in SUBSET Clusters
  BY DEF IInv, TypeOK, Counts
<1> DEFINE list == ListOf[members]
<1>2. list \in Seq(Clusters) /\ \A j \in DOMAIN list : j \in Nat /\ j >= 1
  <2>1. list \in Seq(Clusters)
    BY <1>1, ListTyped
  <2> HIDE DEF list
  <2> QED BY <2>1
<1>3. \A j \in DOMAIN list : config[list[j]] = j - 1
  BY <1>1 DEF Good, Past, Right, CIDR, defaultGlobalCIDR
<1>4. \A x \in members : \E j \in DOMAIN list : list[j] = x
  BY <1>1, ListAssumption
<1>5. ASSUME NEW x \in members
      PROVE  config[x] >= 0
  BY <1>2, <1>3, <1>4
<1>6. ASSUME NEW x \in members, NEW y \in members, config[x] = config[y]
      PROVE  x = y
  <2>1. PICK i \in DOMAIN list : list[i] = x
    BY <1>4
  <2>2. PICK j \in DOMAIN list : list[j] = y
    BY <1>4
  <2>3. i = j
    BY <1>2, <1>3, <1>6, <2>1, <2>2
  <2> QED BY <2>1, <2>2, <2>3
<1> QED BY <1>5, <1>6

LEMMA Invariance == Spec => []IInv
<1>1. Init => IInv
  BY Starting
<1>2. IInv /\ [Next]_vars => IInv'
  BY Inductive
<1> QED BY <1>1, <1>2, PTL DEF Spec

\* Every index is within the list of the caller and every configuration is missing,
\* without a CIDR or with one (Globalnet's TypeOK).
THEOREM GlobalnetTypeCorrect == Spec => []TypeOK
<1>1. IInv => TypeOK
  BY DEF IInv
<1> QED BY <1>1, Invariance, PTL

\* For any number of clusters and of callers, an Enable that nothing has crossed
\* leaves the clusters of the set with distinct global CIDRs (DistinctCIDRs).
THEOREM CIDRsAreDistinct == Spec => []DistinctCIDRs
<1>1. IInv => DistinctCIDRs
  BY Distinct
<1> QED BY <1>1, Invariance, PTL

=============================================================================
