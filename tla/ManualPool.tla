----------------------------- MODULE ManualPool -----------------------------
(***************************************************************************)
(* The manual cluster pool of internal/pool/manual.go.  All shared state   *)
(* lives in the hub: the ClusterDeployments with their pool labels and     *)
(* spec.powerState, and the pool's ConfigMap.  Callers run the five        *)
(* operations of the pool concurrently; a won claim starts a goroutine     *)
(* that provisions a replacement.  One step is one call that changes hub   *)
(* state, or one read a later step relies on.                              *)
(*                                                                         *)
(* lifecycle.Hibernate and lifecycle.Resume read the power state and patch *)
(* it only when it differs: the pair takes effect atomically at the patch, *)
(* or at the read when nothing is patched, so each is a single step.       *)
(***************************************************************************)
EXTENDS Naturals, FiniteSets

CONSTANTS Callers,     \* processes that call the pool operations
          Initial,     \* the names <pool>-1 .. <pool>-<size> of CreateManualPool
          Spare,       \* the names <pool>-<suffix>: one per replenish goroutine,
                       \* and the bound on how many of them a behaviour has
          Faults,      \* the kinds of failure: "error", "lost", "crash"
          Retried,     \* of "create" and "wait", those that may be called again
          NoCluster

Clusters == Initial \cup Spare
Procs    == Callers \cup Spare

ASSUME ManualPoolAssumption ==
  /\ Initial # {} /\ Initial \cap Spare = {}
  /\ Callers \cap Spare = {}
  /\ NoCluster \notin Clusters
  /\ Faults \subseteq {"error", "lost", "crash"}
  /\ Retried \subseteq {"create", "wait"}

VARIABLES
  config,      \* the pool's ConfigMap exists
  exists,      \* clusters that have a ClusterDeployment
  pooled,      \* those with the label acmlab.redhat.com/pool
  claimed,     \* those with pool-claimed = "true"
  hib,         \* those with spec.powerState = Hibernating
  installed,   \* those whose status says installed, or when: what a wait waits for
  specInstalled, \* those with spec.installed: what ListManualPool counts
  fresh,       \* callers whose last Get still has the current resourceVersion
  job,         \* what each caller or goroutine is doing
  holds,       \* clusters each caller was given and has not given back
  called       \* of "create" and "wait", those called so far

hubVars == <<config, exists, pooled, claimed, hib, installed, specInstalled>>
vars    == <<config, exists, pooled, claimed, hib, installed, specInstalled, fresh, job,
             holds, called>>

Ops    == {"none", "claim", "release", "create", "wait", "delete", "replenish"}
Places == {"idle", "done", "scan", "patch", "resume", "hibernate", "unclaim",
           "provision", "label", "await", "destroy", "load"}
Jobs   == [op : Ops, at : Places, cur : Clusters \cup {NoCluster}, todo : SUBSET Clusters]

Job(o, l, c, todo) == [op |-> o, at |-> l, cur |-> c, todo |-> todo]
Idle               == Job("none", "idle", NoCluster, {})
At(p, l)           == job[p].at = l

\* The operation of p returns; a goroutine that has ended does not start again.
Finished(p) == IF p \in Spare THEN Job("none", "done", NoCluster, {}) ELSE Idle
End(p)      == job' = [job EXCEPT ![p] = Finished(p)]

\* listPoolClusters: the label selector over the ClusterDeployments.
Listed == exists \cap pooled

\* Mutant: a patch of a deleted object succeeds.
AlwaysPatchable(c) == c \in Clusters

\* A patch of an object that is gone is an error.
Patchable(c) == c \in exists

\* Any write to c gives it a new resourceVersion.
Written(c) == fresh' = {p \in fresh : job[p].cur # c}

Init ==
  /\ config = FALSE
  /\ exists = {} /\ pooled = {} /\ claimed = {} /\ hib = {}
  /\ installed = {} /\ specInstalled = {}
  /\ fresh = {}
  /\ job = [p \in Procs |-> Idle]
  /\ holds = [p \in Callers |-> {}]
  /\ called = {}

-----------------------------------------------------------------------------
(* ListManualPool: one List, counted by label and power state *)

ListManualPool ==
  LET unclaimed == Listed \ claimed IN
  [size    |-> Cardinality(Listed),
   claimed |-> Cardinality(Listed \cap claimed),
   standby |-> Cardinality(unclaimed \cap specInstalled \cap hib),
   ready   |-> Cardinality(unclaimed \cap specInstalled)]

-----------------------------------------------------------------------------
(* ClaimManualPool *)

StartClaim(p) ==
  /\ At(p, "idle")
  /\ job' = [job EXCEPT ![p] = Job("claim", "scan", NoCluster, Listed)]
  /\ UNCHANGED <<hubVars, fresh, holds, called>>

\* Mutant: a running cluster may be claimed too.
ClaimableRunning(c) == c \in exists /\ c \notin claimed

Claimable(c) == c \in exists /\ c \notin claimed /\ c \in hib

\* The Get fails, or the cluster is claimed or not hibernating: try the next.
ClaimSkip(p, c) ==
  /\ At(p, "scan") /\ c \in job[p].todo
  /\ ~Claimable(c) \/ "error" \in Faults
  /\ job' = [job EXCEPT ![p].todo = @ \ {c}]
  /\ UNCHANGED <<hubVars, fresh, holds, called>>

ClaimRead(p, c) ==
  /\ At(p, "scan") /\ c \in job[p].todo
  /\ Claimable(c)
  /\ job' = [job EXCEPT ![p].at = "patch", ![p].cur = c, ![p].todo = @ \ {c}]
  /\ fresh' = fresh \cup {p}
  /\ UNCHANGED <<hubVars, holds, called>>

\* Mutant: the patch has no resourceVersion precondition.
CanClaimStale(p) == job[p].cur \in exists

\* The patch carries the resourceVersion of the Get as a precondition.
CanClaim(p) == p \in fresh /\ job[p].cur \in exists

TryAtomicClaim(p) ==
  LET c == job[p].cur IN
  /\ At(p, "patch")
  /\ CanClaim(p)
  /\ claimed' = claimed \cup {c}
  /\ Written(c)
  /\ holds' = [holds EXCEPT ![p] = @ \cup {c}]
  /\ job' = [job EXCEPT ![p].at = "resume"]
  /\ UNCHANGED <<config, exists, pooled, hib, installed, specInstalled, called>>

\* Mutant: after a conflict the same patch is sent again.
ClaimRetryPatch(p) ==
  /\ At(p, "patch")
  /\ ~CanClaim(p)
  /\ job' = [job EXCEPT ![p].at = "patch"]
  /\ UNCHANGED <<hubVars, fresh, holds, called>>

\* A conflict and any other error of the patch: the claim goes on with the next.
ClaimConflict(p) ==
  /\ At(p, "patch")
  /\ ~CanClaim(p) \/ "error" \in Faults
  /\ fresh' = fresh \ {p}
  /\ job' = [job EXCEPT ![p].at = "scan", ![p].cur = NoCluster]
  /\ UNCHANGED <<hubVars, holds, called>>

\* go m.replenishPool: a goroutine, when a name is left, provisions a cluster.
ReturnClaim(p) ==
  LET free == {g \in Spare : job[g] = Idle} IN
  IF free = {} THEN End(p)
  ELSE \E g \in free :
         job' = [job EXCEPT ![p] = Idle, ![g] = Job("replenish", "load", g, {})]

\* The claim stands, and the replacement is started, whether Resume fails or not.
Resume(p) ==
  LET c == job[p].cur IN
  /\ At(p, "resume")
  /\ \/ c \in exists /\ hib' = hib \ {c} /\ Written(c)
     \/ (c \notin exists \/ "error" \in Faults) /\ UNCHANGED <<hib, fresh>>
  /\ ReturnClaim(p)
  /\ UNCHANGED <<config, exists, pooled, claimed, installed, specInstalled, holds, called>>

\* No cluster is left to try: the claim returns an error.
ClaimNone(p) ==
  /\ At(p, "scan") /\ job[p].todo = {}
  /\ End(p)
  /\ UNCHANGED <<hubVars, fresh, holds, called>>

-----------------------------------------------------------------------------
(* lifecycle.Hibernate, from a release, from WaitManualPoolReady and from a
   replenish goroutine: each goes on in its own way. *)

\* The next cluster of WaitManualPoolReady's snapshot, or its end.
WaitNext(p, rest) ==
  IF rest = {} THEN End(p)
  ELSE \E c \in rest : job' = [job EXCEPT ![p] = Job("wait", "await", c, rest \ {c})]

Hibernate(p) ==
  LET c == job[p].cur IN
  /\ At(p, "hibernate")
  /\ Patchable(c)
  /\ hib' = hib \cup {c}
  /\ IF c \in hib THEN UNCHANGED fresh ELSE Written(c)
  /\ \/ job[p].op = "release"   /\ job' = [job EXCEPT ![p].at = "unclaim"]
     \/ job[p].op = "wait"      /\ WaitNext(p, job[p].todo)
     \/ job[p].op = "replenish" /\ End(p)
  /\ UNCHANGED <<config, exists, pooled, claimed, installed, specInstalled, holds, called>>

-----------------------------------------------------------------------------
(* ReleaseManualClaim: the caller names a cluster it holds. *)

StartRelease(p, c) ==
  /\ At(p, "idle") /\ c \in holds[p]
  /\ job' = [job EXCEPT ![p] = Job("release", "hibernate", c, {})]
  /\ UNCHANGED <<hubVars, fresh, holds, called>>

\* setClaimLabel "false": a patch with no precondition.
Unclaim(p) ==
  LET c == job[p].cur IN
  /\ At(p, "unclaim")
  /\ Patchable(c)
  /\ claimed' = claimed \ {c}
  /\ Written(c)
  /\ holds' = [holds EXCEPT ![p] = @ \ {c}]
  /\ End(p)
  /\ UNCHANGED <<config, exists, pooled, hib, installed, specInstalled, called>>

-----------------------------------------------------------------------------
(* CreateManualPool and the provisioning half of replenishPool *)

MayCall(o) == o \notin called \/ o \in Retried

StartCreate(p) ==
  /\ At(p, "idle") /\ MayCall("create")
  /\ config' = TRUE
  /\ called' = called \cup {"create"}
  /\ job' = [job EXCEPT ![p] = Job("create", "provision", NoCluster, Initial)]
  /\ UNCHANGED <<exists, pooled, claimed, hib, installed, specInstalled, fresh, holds>>

Load(g) ==
  /\ At(g, "load")
  /\ IF config THEN job' = [job EXCEPT ![g].at = "provision"] ELSE End(g)
  /\ UNCHANGED <<hubVars, fresh, holds, called>>

\* Mutant: a replacement is not labelled.
ProvisionUnlabelled(p) ==
  /\ At(p, "provision")
  /\ \E c \in IF p \in Spare THEN {p} ELSE job[p].todo :
       /\ exists' = exists \cup {c}
       /\ job' = [job EXCEPT ![p].at = IF p \in Spare THEN "await" ELSE "label",
                            ![p].cur = c, ![p].todo = @ \ {c}]
  /\ UNCHANGED <<config, pooled, claimed, hib, installed, specInstalled, fresh, holds, called>>

\* provisioning.Create: a ClusterDeployment that exists is left as it is.
Provision(p) ==
  /\ At(p, "provision")
  /\ \E c \in IF p \in Spare THEN {p} ELSE job[p].todo :
       /\ exists' = exists \cup {c}
       /\ job' = [job EXCEPT ![p].at = "label", ![p].cur = c, ![p].todo = @ \ {c}]
  /\ UNCHANGED <<config, pooled, claimed, hib, installed, specInstalled, fresh, holds, called>>

\* labelPoolCluster: sets both labels, whatever they were, then patches the
\* ManagedCluster: when that fails the operation returns its error.
Label(p) ==
  LET c == job[p].cur IN
  /\ At(p, "label")
  /\ Patchable(c)
  /\ pooled' = pooled \cup {c}
  /\ claimed' = claimed \ {c}
  /\ Written(c)
  /\ \/ "error" \in Faults /\ End(p)
     \/ IF p \in Spare THEN job' = [job EXCEPT ![p].at = "await"]
        ELSE IF job[p].todo = {} THEN End(p)
        ELSE job' = [job EXCEPT ![p].at = "provision", ![p].cur = NoCluster]
  /\ UNCHANGED <<config, exists, hib, installed, specInstalled, holds, called>>

-----------------------------------------------------------------------------
(* WaitManualPoolReady *)

StartWait(p) ==
  /\ At(p, "idle") /\ MayCall("wait")
  /\ Listed # {}
  /\ called' = called \cup {"wait"}
  /\ WaitNext(p, Listed)
  /\ UNCHANGED <<hubVars, fresh, holds>>

\* Mutant: the cluster is hibernated before its install has finished.
AwaitNothing(p) ==
  /\ At(p, "await")
  /\ job[p].cur \in exists
  /\ job' = [job EXCEPT ![p].at = "hibernate"]
  /\ UNCHANGED <<hubVars, fresh, holds, called>>

\* Mutant: a replacement is not hibernated once it is installed.
AwaitOnly(p) ==
  /\ At(p, "await")
  /\ job[p].cur \in exists \cap installed
  /\ IF p \in Spare THEN End(p) ELSE job' = [job EXCEPT ![p].at = "hibernate"]
  /\ UNCHANGED <<hubVars, fresh, holds, called>>

\* WaitForProvision returns once status.installed or status.installedTimestamp says
\* that the cluster is installed.
Await(p) ==
  /\ At(p, "await")
  /\ job[p].cur \in exists \cap installed
  /\ job' = [job EXCEPT ![p].at = "hibernate"]
  /\ UNCHANGED <<hubVars, fresh, holds, called>>

-----------------------------------------------------------------------------
(* DeleteManualPool *)

StartDelete(p) ==
  /\ At(p, "idle")
  /\ job' = [job EXCEPT ![p] = Job("delete", "destroy", NoCluster, Listed)]
  /\ UNCHANGED <<hubVars, fresh, holds, called>>

\* provisioning.Destroy, claimed or not; its errors are logged and passed over.
Destroy(p, c) ==
  /\ At(p, "destroy") /\ c \in job[p].todo
  /\ job' = [job EXCEPT ![p].todo = @ \ {c}]
  /\ \/ /\ exists' = exists \ {c}
        /\ pooled' = pooled \ {c}
        /\ claimed' = claimed \ {c}
        /\ hib' = hib \ {c}
        /\ installed' = installed \ {c}
        /\ specInstalled' = specInstalled \ {c}
        /\ Written(c)
        /\ holds' = [q \in Callers |-> holds[q] \ {c}]
     \/ /\ "error" \in Faults
        /\ UNCHANGED <<exists, pooled, claimed, hib, installed, specInstalled, fresh, holds>>
  /\ UNCHANGED <<config, called>>

DropConfig(p) ==
  /\ At(p, "destroy") /\ job[p].todo = {}
  /\ config' = FALSE
  /\ End(p)
  /\ UNCHANGED <<exists, pooled, claimed, hib, installed, specInstalled, fresh, holds, called>>

-----------------------------------------------------------------------------
(* Failures.  Where a handler returns on the error of a call, so does Fail. *)

ReturnsOnError == {"hibernate", "unclaim", "provision", "label", "await", "load", "destroy"}

Gone(p) == At(p, "hibernate") \/ At(p, "unclaim") \/ At(p, "label") \/ At(p, "await")

Fail(p) ==
  /\ job[p].at \in ReturnsOnError
  /\ At(p, "destroy") => job[p].todo = {}
  /\ \/ "error" \in Faults
     \/ Gone(p) /\ job[p].cur \notin exists
  /\ End(p)
  /\ UNCHANGED <<hubVars, fresh, holds, called>>

\* The patch is applied and its reply is lost: the caller takes it as failed.
LoseClaimReply(p) ==
  LET c == job[p].cur IN
  /\ "lost" \in Faults
  /\ At(p, "patch") /\ CanClaim(p)
  /\ claimed' = claimed \cup {c}
  /\ Written(c)
  /\ job' = [job EXCEPT ![p].at = "scan", ![p].cur = NoCluster]
  /\ UNCHANGED <<config, exists, pooled, hib, installed, specInstalled, holds, called>>

LoseReleaseReply(p) ==
  LET c == job[p].cur IN
  /\ "lost" \in Faults
  /\ At(p, "unclaim") /\ Patchable(c)
  /\ claimed' = claimed \ {c}
  /\ Written(c)
  /\ End(p)
  /\ UNCHANGED <<config, exists, pooled, hib, installed, specInstalled, holds, called>>

\* The process stops: a claim it had won but not returned is nobody's.
Crash(p) ==
  /\ "crash" \in Faults
  /\ job[p].op # "none"
  /\ End(p)
  /\ holds' = IF At(p, "resume") THEN [holds EXCEPT ![p] = @ \ {job[p].cur}] ELSE holds
  /\ fresh' = fresh \ {p}
  /\ UNCHANGED <<hubVars, called>>

-----------------------------------------------------------------------------
(* Hive, outside this code: it finishes installs and writes status.  That a
   cluster is installed it says in the status and in the spec, by two writes of
   which this code fixes no order. *)

Install(c) ==
  /\ c \in exists \ installed
  /\ installed' = installed \cup {c}
  /\ Written(c)
  /\ UNCHANGED <<config, exists, pooled, claimed, hib, specInstalled, job, holds, called>>

SpecInstall(c) ==
  /\ c \in exists \ specInstalled
  /\ specInstalled' = specInstalled \cup {c}
  /\ Written(c)
  /\ UNCHANGED <<config, exists, pooled, claimed, hib, installed, job, holds, called>>

StatusWrite(c) ==
  /\ c \in exists
  /\ Written(c)
  /\ UNCHANGED <<hubVars, job, holds, called>>

-----------------------------------------------------------------------------
ClaimStep(p) ==
  \/ \E c \in Clusters : ClaimSkip(p, c) \/ ClaimRead(p, c)
  \/ TryAtomicClaim(p) \/ ClaimConflict(p) \/ Resume(p) \/ ClaimNone(p)

DeleteStep(p) == (\E c \in Clusters : Destroy(p, c)) \/ DropConfig(p)

SharedStep(p) == Hibernate(p) \/ Provision(p) \/ Label(p) \/ Await(p)

Start(p) ==
  \/ StartClaim(p) \/ StartCreate(p) \/ StartWait(p) \/ StartDelete(p)
  \/ \E c \in Clusters : StartRelease(p, c)

Progress(p) ==
  \/ p \in Callers /\ (ClaimStep(p) \/ DeleteStep(p) \/ Unclaim(p))
  \/ p \in Spare /\ Load(p)
  \/ SharedStep(p)

Fault(p) ==
  \/ Fail(p)
  \/ Crash(p)
  \/ p \in Callers /\ (LoseClaimReply(p) \/ LoseReleaseReply(p))

Hive == \E c \in Clusters : Install(c) \/ SpecInstall(c) \/ StatusWrite(c)

Next ==
  \/ \E p \in Callers : Start(p)
  \/ \E p \in Procs : Progress(p) \/ Fault(p)
  \/ Hive

Spec == Init /\ [][Next]_vars

\* Goroutines and callers run on, and Hive finishes every install and says so in
\* the status.
FairSpec ==
  /\ Spec
  /\ \A p \in Procs : WF_vars(Progress(p) \/ Fail(p))
  /\ \A c \in Clusters : WF_vars(Install(c))

-----------------------------------------------------------------------------
(* Properties *)

TypeOK ==
  /\ config \in BOOLEAN
  /\ exists \subseteq Clusters
  /\ pooled \subseteq exists /\ claimed \subseteq exists
  /\ hib \subseteq exists /\ installed \subseteq exists /\ specInstalled \subseteq exists
  /\ fresh \subseteq Callers
  /\ job \in [Procs -> Jobs]
  /\ holds \in [Callers -> SUBSET Clusters]
  /\ called \subseteq {"create", "wait"}

\* No cluster is given to two callers: the claims, releases, retries and
\* replenishments of ClaimManualPool's clients never hand one out twice.
ExclusiveClaim == \A p, q \in Callers : p # q => holds[p] \cap holds[q] = {}

\* A cluster CreateManualPool or a goroutine has not labelled yet.
ToLabel(c) ==
  \/ c \in Initial /\ "create" \notin called
  \/ c \in Spare /\ job[c].at \in {"idle", "load", "provision"}
  \/ \E p \in Procs : At(p, "label") /\ job[p].cur = c
  \/ \E p \in Procs : job[p].op = "create" /\ c \in job[p].todo

\* No listed, claimed or released cluster is still to be labelled: labelling,
\* which resets pool-claimed, never reaches a cluster that was handed out.
LabelledOnce ==
  \A c \in Clusters : ToLabel(c) =>
    /\ c \notin pooled /\ c \notin claimed
    /\ \A p \in Callers : job[p].op # "create" => c # job[p].cur /\ c \notin job[p].todo

\* One CreateManualPool at a time, over the initial names; a goroutine works on
\* its own name.
OwnNames ==
  /\ \A p \in Callers : job[p].op = "create" =>
       "create" \in called /\ job[p].at \in {"provision", "label"} /\ job[p].todo \subseteq Initial
  /\ \A p \in Callers : At(p, "label") =>
       job[p].op = "create" /\ job[p].cur \in Initial \ job[p].todo
  /\ \A p \in Callers : At(p, "provision") => job[p].op = "create"
  /\ \A p, q \in Callers : job[p].op = "create" /\ job[q].op = "create" => p = q
  /\ \A g \in Spare :
       \/ job[g] = Idle
       \/ job[g].op = "none" /\ At(g, "done") /\ job[g].todo = {}
       \/ job[g].op = "replenish" /\ job[g].cur = g /\ job[g].todo = {} /\ ~At(g, "idle")

\* A caller holds what the hub shows as claimed; a read the claim patch would
\* still accept is of an unclaimed cluster; a release is of a cluster its caller
\* holds.
HoldOK(p) ==
  /\ holds[p] \subseteq claimed
  /\ At(p, "patch") /\ p \in fresh => job[p].cur \notin claimed
  /\ At(p, "unclaim") => job[p].op = "release"
  /\ job[p].op = "release" =>
       job[p].at \in {"hibernate", "unclaim"} /\ job[p].cur \in holds[p] \cup (Clusters \ exists)

HeldIsClaimed == \A p \in Callers : HoldOK(p)

\* The inductive invariant behind ExclusiveClaim.
ClaimInv == TypeOK /\ OwnNames /\ LabelledOnce /\ HeldIsClaimed /\ ExclusiveClaim

\* ListManualPool's Standby (spec.installed, hibernating, unclaimed) counts exactly
\* the clusters a claim would accept (hibernating, unclaimed), but for those whose
\* install Hive has put into the status, which the waits read, and not yet into the
\* spec: no cluster sleeps before a wait has seen it installed.
StandbyIsClaimable ==
  ListManualPool.standby =
    Cardinality({c \in Listed : Claimable(c) /\ c \notin installed \ specInstalled})

\* The claim patch only ever lands on a cluster that is, at that moment, a
\* hibernating and unclaimed member of the pool whose status says installed,
\* whatever happened since the Get it was decided on.
ClaimTakesStandby == [][claimed' \ claimed \subseteq pooled \cap hib \cap installed]_vars

\* Operations can be called more than once without side effects (ADR-006): a wait
\* that is repeated hibernates no cluster that somebody holds; only its holder's
\* release does.
NoForeignHibernate ==
  [][\A p \in Callers : \A c \in holds[p] \cap (hib' \ hib) :
       job[p].op = "release" /\ job[p].cur = c]_vars

\* p has made c and has still to label it.
Labels(p, c) == At(p, "label") /\ job[p].cur = c

\* A ClusterDeployment without the pool label that nobody is about to label: no
\* list, claim or delete of the pool finds it.
Stray(c) == c \in exists \ pooled /\ ~ \E p \in Procs : Labels(p, c)

\* A cluster goes astray in one way only: the operation that made it ends, by an
\* error or a crash, between its create and its label.  No delete, relabelling,
\* claim or other operation that runs at the same time loses one.
NoStrayCluster ==
  [][\A c \in Clusters : Stray(c)' /\ ~ Stray(c) =>
       \E p \in Procs : Labels(p, c) /\ ~ Labels(p, c)' /\ Faults \cap {"error", "crash"} # {}]_vars

\* A goroutine that starts to replenish leaves a hibernating cluster, unless
\* the pool is deleted meanwhile.
ReplacementReady == \A g \in Spare : At(g, "load") ~> (g \in hib \/ ~config)

\* Every operation returns: no claim spins on contended clusters.
OperationsReturn == \A p \in Callers : job[p].op # "none" ~> job[p].op = "none"

\* The pool behaves as a pool of leases: free are the clusters a claim would
\* accept, leased are those it has handed out.
Lease     == INSTANCE PoolLease WITH free <- {c \in Listed : Claimable(c)}, leased <- holds
LeaseSpec == Lease!Spec
=============================================================================
