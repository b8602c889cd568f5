-------------------------- MODULE PoolLeaseProofs --------------------------
(* What ManualPool offers and takes back, for any callers, clusters and      *)
(* number of replenish goroutines: a claim takes a standby cluster, standby  *)
(* is what a claim accepts, the pool implements PoolLease, and the one way   *)
(* in which it loses a cluster.                                              *)
EXTENDS ManualPoolProofs

USE DEF Clusters, Procs

-----------------------------------------------------------------------------
(* A cluster that sleeps is one whose status says installed: it is put to sleep
   after a wait saw that, or by a release of one that was claimed asleep.  This
   holds whichever calls fail and replies are lost, if CreateManualPool is not
   called again.  spec.installed, which Hive writes when it likes, has no part in
   it; ListManualPool counts by it. *)

\* What p has read of the cluster it is about to patch, and of those that it has
\* still to try.
ReadOK(p) ==
  /\ At(p, "patch") \/ At(p, "hibernate") => job[p].cur \in installed \cup (Clusters \ exists)
  /\ At(p, "patch") /\ p \in fresh => job[p].cur \in (pooled \cap hib) \ claimed
  /\ At(p, "scan") \/ At(p, "patch") => job[p].todo \cap exists \subseteq pooled

StandbyOK ==
  /\ hib \subseteq installed
  /\ \A p \in Callers : holds[p] \subseteq pooled \cap installed
  /\ \A p \in Procs : ReadOK(p)

\* The inductive invariant.
StandbyInv == TypeOK /\ OwnNames /\ LabelledOnce /\ StandbyOK

\* What is claimed, slept or scanned is not to be labelled any more.
LEMMA PastLabelling ==
  ASSUME TypeOK, OwnNames, LabelledOnce, NEW q \in Procs, job[q].at \in {"patch", "hibernate", "scan"},
         NEW c \in Clusters, c = job[q].cur \/ c \in job[q].todo
  PROVE  ~ ToLabel(c)
<1>1. CASE q \in Callers
  BY <1>1 DEF OwnNames, LabelledOnce
<1>2. CASE q \in Spare
  <2>1. c = q
    BY <1>2, OwnName
  <2>2. \A p \in Callers : (At(p, "label") => job[p].cur # q) /\ (job[p].op = "create" => q \notin job[p].todo)
    BY <1>2, ManualPoolAssumption DEF OwnNames, At
  <2>3. ASSUME NEW g \in Spare
        PROVE  (At(g, "label") => job[g].cur = g) /\ job[g].op # "create"
    <3>1. At(g, "label") => job[g].cur = g
      BY OwnName DEF At
    <3>2. job[g].op # "create"
      BY DEF OwnNames, Idle, Job
    <3> QED BY <3>1, <3>2
  <2>4. q \notin Initial /\ ~ At(q, "label") /\ ~ At(q, "idle")
    BY <1>2, ManualPoolAssumption DEF At
  <2>5. ASSUME NEW p \in Procs
        PROVE  ~ (At(p, "label") /\ job[p].cur = q) /\ ~ (job[p].op = "create" /\ q \in job[p].todo)
    <3>1. CASE p \in Callers
      BY <2>2, <3>1
    <3>2. CASE p \in Spare
      BY <2>3, <2>4, <3>2
    <3> QED BY <3>1, <3>2
  <2>6. job[q].at \notin {"idle", "load", "provision"}
    OBVIOUS
  <2> QED BY <1>2, <2>1, <2>4, <2>5, <2>6 DEF ToLabel
<1> QED BY <1>1, <1>2

\* The step of p takes nothing from what the others have read.
Steady(p) ==
  /\ OthersKeep(p)
  /\ \A c \in exists' \ exists : ToLabel(c)
  /\ pooled \cap exists' \subseteq pooled' /\ installed \cap exists' \subseteq installed'
  /\ \A q \in (fresh' \cap Callers) \ {p} :
       /\ q \in fresh
       /\ job[q].cur \in (pooled \cap hib) \ claimed => job[q].cur \in (pooled' \cap hib') \ claimed'

LEMMA OthersRead ==
  ASSUME StandbyInv, TypeOK', NEW p \in Procs, Steady(p), NEW q \in Procs, q # p
  PROVE  ReadOK(q)'
<1> USE ManualPoolAssumption DEF StandbyInv, StandbyOK, TypeOK
<1>1. CASE job'[q] = job[q]
  <2>1. \A c \in Clusters : job[q].at \in {"patch", "hibernate", "scan"}
            /\ (c = job[q].cur \/ c \in job[q].todo) /\ c \in exists' => c \in exists
    BY PastLabelling DEF Steady
  <2>2. job[q] \in Jobs /\ job[q].cur \in Clusters \cup {NoCluster} /\ job[q].todo \subseteq Clusters
    BY DEF Jobs
  <2>3. ReadOK(q)
    OBVIOUS
  <2>4. At(q, "patch") \/ At(q, "hibernate") => job[q].cur \in installed' \cup (Clusters \ exists')
    BY <2>1, <2>2, <2>3 DEF Steady, ReadOK, At
  <2>5. At(q, "patch") /\ q \in fresh' => job[q].cur \in (pooled' \cap hib') \ claimed'
    BY <2>3 DEF Steady, ReadOK
  <2>6. At(q, "scan") \/ At(q, "patch") => job[q].todo \cap exists' \subseteq pooled'
    BY <2>1, <2>2, <2>3 DEF Steady, ReadOK, At
  <2> QED BY <1>1, <2>4, <2>5, <2>6 DEF ReadOK, At
<1>2. CASE Started(q)
  BY <1>2, StartedFields DEF ReadOK, At
<1> QED BY <1>1, <1>2 DEF Steady, OthersKeep

LEMMA StandbyMoves ==
  ASSUME StandbyInv, TypeOK', NEW p \in Procs, Steady(p), ReadOK(p)', hib' \subseteq installed',
         \A q \in Callers : holds'[q] \subseteq pooled' \cap installed'
  PROVE  StandbyOK'
  BY OthersRead DEF StandbyOK

LEMMA CallerStandby ==
  ASSUME StandbyInv, TypeOK', NEW p \in Callers,
         \/ Start(p) \/ ClaimStep(p) \/ DeleteStep(p) \/ Unclaim(p)
         \/ LoseClaimReply(p) \/ LoseReleaseReply(p)
  PROVE  StandbyOK'
<1> USE ManualPoolAssumption DEF TypeOK, StandbyInv
<1>r. ReadOK(p) /\ hib \subseteq installed /\ \A q \in Callers : holds[q] \subseteq pooled \cap installed
  BY DEF StandbyOK
<1>1. CASE Start(p)
  <2>1. UNCHANGED <<exists, pooled, claimed, hib, installed, fresh, holds>>
    BY <1>1 DEF Start, StartClaim, StartCreate, StartWait, StartDelete, StartRelease, hubVars
  <2>2. /\ OthersKeep(p)
        /\ \/ job'[p].at \in {"provision", "await", "destroy"}
           \/ job'[p].at = "scan" /\ job'[p].todo = Listed
           \/ job'[p].at = "hibernate" /\ job'[p].cur \in holds[p]
    BY <1>1, StartShapes DEF Start, StartRelease, Becomes
  <2>3. Steady(p)
    BY <2>1, <2>2 DEF Steady
  <2>4. ReadOK(p)'
    BY <1>r, <2>1, <2>2 DEF ReadOK, At, Listed
  <2> QED BY <1>r, <2>1, <2>3, <2>4, StandbyMoves
<1>2. ASSUME NEW c \in Clusters, ClaimSkip(p, c) PROVE StandbyOK'
  <2>1. UNCHANGED <<exists, pooled, claimed, hib, installed, fresh, holds>> /\ At(p, "scan")
    BY <1>2 DEF ClaimSkip, hubVars
  <2>2. Becomes(p, job[p].op, job[p].at, job[p].cur, job[p].todo \ {c})
    BY <1>2, CallerShapes
  <2>3. Steady(p)
    BY <2>1, <2>2 DEF Steady, Becomes
  <2>4. ReadOK(p)'
    BY <1>r, <2>1, <2>2 DEF ReadOK, Becomes, At
  <2> QED BY <1>r, <2>1, <2>3, <2>4, StandbyMoves
<1>3. ASSUME NEW c \in Clusters, ClaimRead(p, c) PROVE StandbyOK'
  <2>1. /\ UNCHANGED <<exists, pooled, claimed, hib, installed, holds>> /\ fresh' = fresh \cup {p}
        /\ At(p, "scan") /\ c \in job[p].todo /\ c \in exists \cap hib /\ c \notin claimed
    BY <1>3 DEF ClaimRead, Claimable, hubVars
  <2>2. Becomes(p, job[p].op, "patch", c, job[p].todo \ {c})
    BY <1>3, CallerShapes
  <2>3. Steady(p)
    BY <2>1, <2>2 DEF Steady, Becomes
  <2>4. ReadOK(p)'
    BY <1>r, <2>1, <2>2 DEF ReadOK, Becomes, At
  <2> QED BY <1>r, <2>1, <2>3, <2>4, StandbyMoves
<1>4. CASE TryAtomicClaim(p) \/ LoseClaimReply(p)
  <2> DEFINE c == job[p].cur
  <2>1. /\ UNCHANGED <<exists, pooled, hib, installed>> /\ claimed' = claimed \cup {c}
        /\ fresh' = {q \in fresh : job[q].cur # c} /\ At(p, "patch")
        /\ \A q \in Callers : holds'[q] \subseteq holds[q] \cup {c}
    BY <1>4 DEF TryAtomicClaim, LoseClaimReply, Written
  <2>2. c \in pooled \cap hib
    BY <1>4, <1>r DEF TryAtomicClaim, LoseClaimReply, CanClaim, ReadOK
  <2>3. /\ OthersKeep(p) /\ job'[p].at \in {"resume", "scan"} /\ job'[p].todo = job[p].todo
    BY <1>4, CallerShapes DEF Becomes
  <2>4. Steady(p)
    BY <2>1, <2>3 DEF Steady
  <2>5. ReadOK(p)'
    BY <1>r, <2>1, <2>3 DEF ReadOK, At
  <2> QED BY <1>r, <2>1, <2>2, <2>4, <2>5, StandbyMoves
<1>5. CASE ClaimConflict(p)
  <2>1. /\ UNCHANGED <<exists, pooled, claimed, hib, installed, holds>> /\ fresh' = fresh \ {p}
        /\ At(p, "patch")
    BY <1>5 DEF ClaimConflict, hubVars
  <2>2. Becomes(p, job[p].op, "scan", NoCluster, job[p].todo)
    BY <1>5, CallerShapes
  <2>3. Steady(p)
    BY <2>1, <2>2 DEF Steady, Becomes
  <2>4. ReadOK(p)'
    BY <1>r, <2>1, <2>2 DEF ReadOK, Becomes, At
  <2> QED BY <1>r, <2>1, <2>3, <2>4, StandbyMoves
<1>6. CASE Resume(p) \/ ClaimNone(p) \/ DropConfig(p) \/ Unclaim(p) \/ LoseReleaseReply(p)
  <2> DEFINE c == job[p].cur
  <2>1. /\ UNCHANGED <<exists, pooled, installed>>
        /\ \A q \in Callers : holds'[q] \subseteq holds[q]
        /\ \/ UNCHANGED <<claimed, hib, fresh>>
           \/ /\ fresh' = {q \in fresh : job[q].cur # c}
              /\ claimed' \subseteq claimed /\ hib' \in {hib, hib \ {c}}
    BY <1>6 DEF Resume, ClaimNone, DropConfig, Unclaim, LoseReleaseReply, Written, hubVars
  <2>2. Ends(p)
    BY <1>6, CallerShapes
  <2>3. Steady(p)
    BY <2>1, <2>2 DEF Steady, Ends, Becomes
  <2>4. ReadOK(p)'
    BY <2>2 DEF ReadOK, Ends, Becomes, At
  <2> QED BY <1>r, <2>1, <2>3, <2>4, StandbyMoves
<1>7. ASSUME NEW c \in Clusters, Destroy(p, c) PROVE StandbyOK'
  <2>1. /\ At(p, "destroy") /\ OthersKeep(p) /\ job'[p].at = "destroy"
    BY <1>7, CallerShapes DEF Destroy, Becomes, At
  <2>2. /\ exists' \in {exists, exists \ {c}} /\ hib' \subseteq installed'
        /\ \A q \in Callers : holds'[q] \subseteq pooled' \cap installed'
        /\ pooled \cap exists' \subseteq pooled' /\ installed \cap exists' \subseteq installed'
    BY <1>7, <1>r DEF Destroy
  <2>3. \/ UNCHANGED <<pooled, claimed, hib, fresh>>
        \/ /\ fresh' = {q \in fresh : job[q].cur # c}
           /\ pooled' = pooled \ {c} /\ hib' = hib \ {c} /\ claimed' = claimed \ {c}
    BY <1>7 DEF Destroy, Written
  <2>4. Steady(p)
    BY <2>1, <2>2, <2>3 DEF Steady
  <2>5. ReadOK(p)'
    BY <2>1 DEF ReadOK, At
  <2> QED BY <2>2, <2>4, <2>5, StandbyMoves
<1> QED
  BY <1>1, <1>2, <1>3, <1>4, <1>5, <1>6, <1>7 DEF ClaimStep, DeleteStep

LEMMA SharedStandby ==
  ASSUME StandbyInv, TypeOK', NEW p \in Procs,
         (p \in Spare /\ Load(p)) \/ SharedStep(p) \/ Fail(p) \/ Crash(p)
  PROVE  StandbyOK'
<1> USE ManualPoolAssumption DEF TypeOK, StandbyInv
<1>r. ReadOK(p) /\ hib \subseteq installed /\ \A q \in Callers : holds[q] \subseteq pooled \cap installed
  BY DEF StandbyOK
<1>1. CASE Hibernate(p)
  <2>1. /\ UNCHANGED <<exists, pooled, claimed, installed, holds>> /\ fresh' \subseteq fresh
        /\ hib' = hib \cup {job[p].cur} /\ At(p, "hibernate") /\ job[p].cur \in exists
    BY <1>1 DEF Hibernate, Written, Patchable
  <2>2. OthersKeep(p) /\ job'[p].at \in {"unclaim", "await", "idle", "done"}
    BY <1>1, SharedShapes DEF Ends, Becomes
  <2>3. hib' \subseteq installed'
    BY <1>r, <2>1 DEF ReadOK
  <2>4. Steady(p)
    BY <2>1, <2>2 DEF Steady
  <2>5. ReadOK(p)'
    BY <2>2 DEF ReadOK, At
  <2> QED BY <1>r, <2>1, <2>3, <2>4, <2>5, StandbyMoves
<1>2. CASE Provision(p)
  <2>1. PICK c \in IF p \in Spare THEN {p} ELSE job[p].todo :
          exists' = exists \cup {c} /\ Becomes(p, job[p].op, "label", c, job[p].todo \ {c})
    BY <1>2, SharedShapes
  <2>2. UNCHANGED <<pooled, claimed, hib, installed, fresh, holds>> /\ At(p, "provision") /\ ToLabel(c)
    BY <1>2, <2>1 DEF Provision, OwnNames, ToLabel, At
  <2>3. Steady(p)
    BY <2>1, <2>2 DEF Steady, Becomes
  <2>4. ReadOK(p)'
    BY <2>1 DEF ReadOK, Becomes, At
  <2> QED BY <1>r, <2>2, <2>3, <2>4, StandbyMoves
<1>3. CASE Label(p)
  <2>1. /\ UNCHANGED <<exists, hib, installed, holds>> /\ fresh' \subseteq fresh
        /\ pooled' = pooled \cup {job[p].cur} /\ claimed' \subseteq claimed
    BY <1>3 DEF Label, Written
  <2>2. OthersKeep(p) /\ job'[p].at \in {"await", "provision", "idle", "done"}
    BY <1>3, SharedShapes DEF Ends, Becomes
  <2>3. Steady(p)
    BY <2>1, <2>2 DEF Steady
  <2>4. ReadOK(p)'
    BY <2>2 DEF ReadOK, At
  <2> QED BY <1>r, <2>1, <2>3, <2>4, StandbyMoves
<1>4. CASE Await(p)
  <2>1. /\ UNCHANGED <<exists, pooled, claimed, hib, installed, fresh, holds>>
        /\ job[p].cur \in installed
    BY <1>4 DEF Await, hubVars
  <2>2. Becomes(p, job[p].op, "hibernate", job[p].cur, job[p].todo)
    BY <1>4, SharedShapes
  <2>3. Steady(p)
    BY <2>1, <2>2 DEF Steady, Becomes
  <2>4. ReadOK(p)'
    BY <2>1, <2>2 DEF ReadOK, Becomes, At
  <2> QED BY <1>r, <2>1, <2>3, <2>4, StandbyMoves
<1>5. CASE Load(p) \/ Fail(p) \/ Crash(p)
  <2>1. /\ UNCHANGED <<exists, pooled, claimed, hib, installed>> /\ fresh' \subseteq fresh
        /\ \A q \in Callers : holds'[q] \subseteq holds[q]
    BY <1>5 DEF Load, Fail, Crash, hubVars
  <2>2. OthersKeep(p) /\ job'[p].at \in {"provision", "idle", "done"}
    BY <1>5, SharedShapes DEF Ends, Becomes
  <2>3. Steady(p)
    BY <2>1, <2>2 DEF Steady
  <2>4. ReadOK(p)'
    BY <2>2 DEF ReadOK, At
  <2> QED BY <1>r, <2>1, <2>3, <2>4, StandbyMoves
<1> QED
  BY <1>1, <1>2, <1>3, <1>4, <1>5 DEF SharedStep

LEMMA HiveStandby ==
  ASSUME StandbyInv, Hive
  PROVE  StandbyOK'
<1>1. /\ UNCHANGED <<exists, pooled, claimed, hib, job, holds>>
      /\ installed \subseteq installed' /\ fresh' \subseteq fresh
  BY DEF Hive, Install, SpecInstall, StatusWrite, Written, hubVars
<1> QED BY <1>1 DEF StandbyInv, StandbyOK, ReadOK, At

LEMMA StandbyInitially == Init => StandbyInv
<1>1. Idle.at = "idle"
  BY DEF Idle, Job
<1>2. Init => TypeOK /\ OwnNames /\ LabelledOnce
  BY ClaimInitially DEF ClaimInv
<1>3. Init => StandbyOK
  BY <1>1 DEF Init, StandbyOK, ReadOK, At
<1> QED BY <1>2, <1>3 DEF StandbyInv

LEMMA StandbyStep ==
  ASSUME StandbyInv, [Next]_vars, "create" \notin Retried
  PROVE  StandbyInv'
<1>1. CASE UNCHANGED vars
  BY <1>1 DEF vars, StandbyInv, TypeOK, OwnNames, LabelledOnce, StandbyOK, ReadOK, ToLabel, At
<1>2. CASE Next
  <2>1. TypeOK'
    BY TypeStep DEF StandbyInv
  <2>2. HandedOut
    BY DEF StandbyInv, StandbyOK, TypeOK, LabelledOnce, HandedOut
  <2>3. OwnNames' /\ LabelledOnce'
    BY <1>2, <2>2, NamesStep DEF StandbyInv
  <2>4. StandbyOK'
    BY <1>2, <2>1, CallerStandby, SharedStandby, HiveStandby DEF Next, Progress, Fault
  <2> QED BY <2>1, <2>3, <2>4 DEF StandbyInv
<1> QED BY <1>1, <1>2

\* Whatever is hibernating has the status of an installed cluster, though no call
\* that puts one to sleep but the waits looks at it, and what a caller is about to
\* claim was, when it read it, such a cluster of the pool: the inductive invariant
\* behind the two theorems that follow.
THEOREM StandbyInvariant ==
  ASSUME "create" \notin Retried
  PROVE  Spec => []StandbyInv
  BY StandbyInitially, StandbyStep, PTL DEF Spec

\* ListManualPool, which reads spec.installed, counts as standby exactly the clusters
\* a claim would accept, but for those that only the status says are installed,
\* whatever fails and whoever is interrupted (ManualPool's StandbyIsClaimable).
THEOREM StandbyCounted ==
  ASSUME "create" \notin Retried
  PROVE  Spec => []StandbyIsClaimable
<1>1. StandbyInv => StandbyIsClaimable
  <2> SUFFICES ASSUME StandbyInv PROVE StandbyIsClaimable
    OBVIOUS
  <2>1. hib \subseteq installed
    BY DEF StandbyInv, StandbyOK
  <2>2. ((Listed \ claimed) \cap specInstalled) \cap hib
          = {c \in Listed : Claimable(c) /\ c \notin installed \ specInstalled}
    BY <2>1 DEF Listed, Claimable
  <2> QED BY <2>2 DEF StandbyIsClaimable, ListManualPool
<1> QED BY <1>1, StandbyInvariant, PTL

\* The claim patch lands on a standby cluster of the pool or not at all, however
\* much time has passed since the Get (ManualPool's ClaimTakesStandby).
THEOREM ClaimsTakeStandby ==
  ASSUME "create" \notin Retried
  PROVE  Spec => ClaimTakesStandby
<1>1. StandbyInv /\ [Next]_vars => [claimed' \ claimed \subseteq pooled \cap hib \cap installed]_vars
  <2> SUFFICES ASSUME StandbyInv, Next
               PROVE  claimed' \ claimed \subseteq pooled \cap hib \cap installed
    OBVIOUS
  <2>1. CASE claimed' \subseteq claimed
    BY <2>1
  <2>2. ASSUME NEW p \in Callers, TryAtomicClaim(p) \/ LoseClaimReply(p)
        PROVE  claimed' \ claimed \subseteq pooled \cap hib \cap installed
    <3>1. At(p, "patch") /\ p \in fresh /\ claimed' = claimed \cup {job[p].cur}
      BY <2>2 DEF TryAtomicClaim, LoseClaimReply, CanClaim
    <3>2. job[p].cur \in pooled \cap hib \cap installed
      BY <3>1 DEF StandbyInv, StandbyOK, ReadOK
    <3> QED BY <3>1, <3>2
  <2>3. ASSUME NEW p \in Callers, Start(p) PROVE claimed' \subseteq claimed
    BY <2>3 DEF Start, StartClaim, StartCreate, StartWait, StartDelete, StartRelease, hubVars
  <2>4. ASSUME NEW p \in Procs, SharedStep(p) \/ Load(p) \/ Fail(p) \/ Crash(p)
        PROVE  claimed' \subseteq claimed
    BY <2>4 DEF SharedStep, Hibernate, Provision, Label, Await, Load, Fail, Crash, hubVars
  <2>5. ASSUME NEW p \in Callers,
               \/ \E c \in Clusters : ClaimSkip(p, c) \/ ClaimRead(p, c)
               \/ ClaimConflict(p) \/ Resume(p) \/ ClaimNone(p)
               \/ DeleteStep(p) \/ Unclaim(p) \/ LoseReleaseReply(p)
        PROVE  claimed' \subseteq claimed
    BY <2>5 DEF ClaimSkip, ClaimRead, ClaimConflict, Resume, ClaimNone, DeleteStep, Destroy,
                DropConfig, Unclaim, LoseReleaseReply, hubVars
  <2>6. CASE Hive
    BY <2>6 DEF Hive, Install, SpecInstall, StatusWrite, hubVars
  <2> QED
    BY <2>1, <2>2, <2>3, <2>4, <2>5, <2>6 DEF Next, Progress, Fault, ClaimStep
<1> QED BY <1>1, StandbyInvariant, PTL DEF Spec, ClaimTakesStandby

-----------------------------------------------------------------------------
(* The pool is a pool of leases. *)

\* What a claim is about to wake is held, unless it was deleted meanwhile.
ResumeOK == \A p \in Callers : At(p, "resume") => job[p].cur \in holds[p] \cup (Clusters \ exists)

\* What a new ClusterDeployment is made for, no claim has.
LEMMA ResumeKept ==
  ASSUME ClaimInv, ResumeOK, NEW p \in Procs, OthersKeep(p),
         \A q \in Callers \ {p} : holds[q] \subseteq holds'[q] \cup (Clusters \ exists'),
         \A c \in exists' \ exists : ToLabel(c),
         p \in Callers => ~ At(p, "resume")'
  PROVE  ResumeOK'
<1> USE ManualPoolAssumption DEF ClaimInv, TypeOK
<1> SUFFICES ASSUME NEW q \in Callers, At(q, "resume")'
             PROVE  job'[q].cur \in holds'[q] \cup (Clusters \ exists')
  BY DEF ResumeOK
<1>1. q # p /\ job'[q] = job[q] /\ At(q, "resume")
  BY DEF OthersKeep, At
<1>2. job[q].op # "create"
  BY <1>1 DEF OwnNames, At
<1>3. \A c \in Clusters : ToLabel(c) => c # job[q].cur
  BY <1>2 DEF LabelledOnce
<1>4. job[q].cur \in holds[q] \cup (Clusters \ exists)
  BY <1>1 DEF ResumeOK
<1> QED BY <1>1, <1>3, <1>4

LEMMA ResumeStep ==
  ASSUME ClaimInv, ClaimInv', ResumeOK, "lost" \notin Faults, [Next]_vars
  PROVE  ResumeOK'
<1> USE ManualPoolAssumption DEF ClaimInv, TypeOK
<1>1. ASSUME NEW p \in Callers, Start(p) PROVE ResumeOK'
  <2>1. UNCHANGED <<exists, holds>>
    BY <1>1 DEF Start, StartClaim, StartCreate, StartWait, StartDelete, StartRelease, hubVars
  <2>2. OthersKeep(p) /\ ~ At(p, "resume")'
    BY <1>1, StartShapes DEF Start, Becomes, At
  <2> QED BY <2>1, <2>2, ResumeKept
<1>2. ASSUME NEW p \in Callers, TryAtomicClaim(p) PROVE ResumeOK'
  <2>1. exists' = exists /\ holds' = [holds EXCEPT ![p] = @ \cup {job[p].cur}]
    BY <1>2 DEF TryAtomicClaim
  <2>2. OthersKeep(p) /\ job'[p].cur = job[p].cur
    BY <1>2, CallerShapes DEF Becomes
  <2>3. \A q \in Callers \ {p} : job'[q] = job[q] /\ holds'[q] = holds[q]
    BY <2>1, <2>2 DEF OthersKeep
  <2> QED BY <2>1, <2>2, <2>3 DEF ResumeOK, At
<1>3. ASSUME NEW p \in Callers, NEW c \in Clusters, ClaimSkip(p, c) \/ ClaimRead(p, c) \/ Destroy(p, c)
      PROVE  ResumeOK'
  <2>1. /\ exists' \subseteq exists
        /\ \A q \in Callers : holds[q] \subseteq holds'[q] \cup (Clusters \ exists')
    BY <1>3 DEF ClaimSkip, ClaimRead, Destroy, hubVars
  <2>2. At(p, "scan") \/ At(p, "destroy")
    BY <1>3 DEF ClaimSkip, ClaimRead, Destroy
  <2>3. OthersKeep(p) /\ ~ At(p, "resume")'
    BY <1>3, <2>2, CallerShapes DEF Becomes, At
  <2> QED BY <2>1, <2>3, ResumeKept
<1>4. ASSUME NEW p \in Callers, ClaimConflict(p) \/ Resume(p) \/ ClaimNone(p) \/ DropConfig(p) \/ Unclaim(p)
      PROVE  ResumeOK'
  <2>1. exists' = exists /\ \A q \in Callers \ {p} : holds'[q] = holds[q]
    BY <1>4 DEF ClaimConflict, Resume, ClaimNone, DropConfig, Unclaim, hubVars
  <2>2. OthersKeep(p) /\ ~ At(p, "resume")'
    BY <1>4, CallerShapes DEF Ends, Becomes, At
  <2> QED BY <2>1, <2>2, ResumeKept
<1>5. ASSUME NEW p \in Procs, (p \in Spare /\ Load(p)) \/ SharedStep(p) \/ Fail(p) \/ Crash(p)
      PROVE  ResumeOK'
  <2>1. \A q \in Callers \ {p} : holds'[q] = holds[q]
    BY <1>5 DEF SharedStep, Hibernate, Provision, Label, Await, Load, Fail, Crash
  <2>2. \A c \in exists' \ exists : ToLabel(c)
    <3>1. CASE Provision(p)
      <4>1. \A c : exists' = exists \cup {c} => \A x \in exists' \ exists : x = c
        OBVIOUS
      <4>2. At(p, "provision")
        BY <3>1 DEF Provision
      <4>3. p \in Callers => job[p].op = "create"
        BY <4>2 DEF OwnNames
      <4>4. PICK c \in IF p \in Spare THEN {p} ELSE job[p].todo : exists' = exists \cup {c}
        BY <3>1 DEF Provision
      <4>5. ToLabel(c)
        BY <4>2, <4>3, <4>4 DEF ToLabel, At
      <4> QED BY <4>1, <4>4, <4>5
    <3>2. CASE ~ Provision(p)
      BY <1>5, <3>2 DEF SharedStep, Hibernate, Label, Await, Load, Fail, Crash, hubVars
    <3> QED BY <3>1, <3>2
  <2>3. OthersKeep(p) /\ ~ At(p, "resume")'
    BY <1>5, SharedShapes DEF SharedStep, Ends, Becomes, At
  <2> QED BY <2>1, <2>2, <2>3, ResumeKept
<1>6. CASE Hive \/ UNCHANGED vars
  BY <1>6 DEF Hive, Install, SpecInstall, StatusWrite, hubVars, vars, ResumeOK, At
<1>7. \A p \in Callers : ~ (LoseClaimReply(p) \/ LoseReleaseReply(p))
  BY DEF LoseClaimReply, LoseReleaseReply
<1> QED
  BY <1>1, <1>2, <1>3, <1>4, <1>5, <1>6, <1>7 DEF Next, Progress, Fault, ClaimStep, DeleteStep

THEOREM ResumeInvariant ==
  ASSUME "lost" \notin Faults, "create" \notin Retried
  PROVE  Spec => []ResumeOK
<1>1. Init => ResumeOK
  BY DEF Init, ResumeOK, At, Idle, Job
<1>2. Spec => []ClaimInv
  BY ClaimInvariant
<1>3. ClaimInv /\ ClaimInv' /\ ResumeOK /\ [Next]_vars => ResumeOK'
  BY ResumeStep
<1> QED BY <1>1, <1>2, <1>3, PTL DEF Spec

\* What PoolLease's free stands for.
Free == {c \in Listed : Claimable(c)}

LEMMA FreeIs ==
  ASSUME TypeOK
  PROVE  /\ Free = (pooled \cap hib) \ claimed
         /\ (TypeOK' => Free' = (pooled' \cap hib') \ claimed')
  BY DEF TypeOK, Free, Listed, Claimable

\* A cluster that shows as unclaimed is nobody's.
LEMMA UnclaimedIsUnleased ==
  ASSUME ClaimInv, NEW c, c \notin claimed
  PROVE  Lease!Unleased(c)
  BY DEF ClaimInv, HeldIsClaimed, HoldOK, Lease!Unleased

\* Every step of the pool is a step of the leases, or none.
LEMMA LeaseStep ==
  ASSUME ClaimInv, ClaimInv', StandbyInv, ResumeOK, "lost" \notin Faults, Next
  PROVE  [Lease!Next]_<<Free, holds>>
<1> USE ManualPoolAssumption
<1>t. TypeOK /\ TypeOK'
  BY DEF ClaimInv
<1>f. Free = (pooled \cap hib) \ claimed /\ Free' = (pooled' \cap hib') \ claimed'
  BY <1>t, FreeIs
<1>j. \A p \in Procs : job[p] \in Jobs /\ job[p].cur \in Clusters \cup {NoCluster}
  BY <1>t DEF TypeOK, Jobs
<1>e. hib \subseteq exists /\ pooled \subseteq exists /\ NoCluster \notin exists
  BY <1>t DEF TypeOK
<1>n. ASSUME NEW c \in Clusters,
             \/ Lease!Offer(c) \/ Lease!Withdraw(c)
             \/ \E p \in Callers : Lease!Take(p, c) \/ Lease!Return(p, c) \/ Lease!Abandon(p, c)
      PROVE  Lease!Next
  BY <1>n DEF Lease!Next
\* What a step offers is unclaimed.
<1>o. ASSUME NEW c \in Clusters, c \notin claimed, holds' = holds, Free' = Free \/ Free' = Free \cup {c}
      PROVE  [Lease!Next]_<<Free, holds>>
  <2>1. Lease!Unleased(c)
    BY <1>o, UnclaimedIsUnleased
  <2>2. Free' = Free \cup {c} => Lease!Offer(c)
    BY <1>o, <2>1 DEF Lease!Offer, Free
  <2> QED BY <1>n, <1>o, <2>2
<1>1. ASSUME NEW p \in Callers, TryAtomicClaim(p) PROVE Lease!Next
  <2> DEFINE c == job[p].cur
  <2>1. /\ At(p, "patch") /\ p \in fresh /\ c \in exists
        /\ claimed' = claimed \cup {c} /\ UNCHANGED <<pooled, hib>>
        /\ holds' = [holds EXCEPT ![p] = @ \cup {c}]
    BY <1>1 DEF TryAtomicClaim, CanClaim
  <2>2. c \in (pooled \cap hib) \ claimed
    BY <2>1 DEF StandbyInv, StandbyOK, ReadOK
  <2>3. Lease!Take(p, c)
    <3>1. c \in Free /\ Free' = Free \ {c}
      BY <1>f, <2>1, <2>2
    <3> QED BY <2>1, <3>1 DEF Lease!Take, Free
  <2>4. c \in Clusters
    BY <2>1, <1>t DEF TypeOK
  <2> QED BY <1>n, <2>3, <2>4
<1>2. ASSUME NEW p \in Callers, Resume(p) PROVE UNCHANGED <<Free, holds>>
  <2>1. /\ UNCHANGED <<pooled, claimed, holds>>
        /\ hib' = hib \/ (job[p].cur \in exists /\ hib' = hib \ {job[p].cur})
        /\ At(p, "resume")
    BY <1>2 DEF Resume
  <2>2. job[p].cur \in exists => job[p].cur \in claimed
    BY <2>1 DEF ResumeOK, ClaimInv, HeldIsClaimed, HoldOK
  <2>3. Free' = Free
    BY <1>f, <2>1, <2>2
  <2> QED BY <2>1, <2>3
<1>3. ASSUME NEW p \in Procs, Hibernate(p) PROVE [Lease!Next]_<<Free, holds>>
  <2> DEFINE c == job[p].cur
  <2>1. c \in exists /\ hib' = hib \cup {c} /\ UNCHANGED <<pooled, claimed, holds>>
    BY <1>3 DEF Hibernate, Patchable
  <2>2. c \in Clusters
    BY <2>1, <1>t DEF TypeOK
  <2>3. CASE c \in claimed
    BY <1>f, <2>1, <2>3
  <2>4. CASE c \notin claimed
    <3>1. Free' = Free \/ Free' = Free \cup {c}
      BY <1>f, <2>1, <2>4
    <3> QED BY <1>o, <2>1, <2>2, <2>4, <3>1
  <2> QED BY <2>3, <2>4
<1>4. ASSUME NEW p \in Callers, Unclaim(p) PROVE [Lease!Next]_<<Free, holds>>
  <2> DEFINE c == job[p].cur
  <2>1. /\ At(p, "unclaim") /\ c \in exists /\ claimed' = claimed \ {c}
        /\ UNCHANGED <<pooled, hib>> /\ holds' = [holds EXCEPT ![p] = @ \ {c}]
    BY <1>4 DEF Unclaim, Patchable
  <2>2. c \in holds[p]
    BY <2>1 DEF ClaimInv, HeldIsClaimed, HoldOK
  <2>3. c \in Clusters
    BY <2>1, <1>t DEF TypeOK
  <2>4. CASE c \in pooled \cap hib
    <3>1. Free' = Free \cup {c}
      BY <1>f, <2>1, <2>4
    <3>2. Lease!Return(p, c)
      BY <2>1, <2>2, <3>1 DEF Lease!Return, Free
    <3> QED BY <1>n, <2>3, <3>2
  <2>5. CASE c \notin pooled \cap hib
    <3>1. Free' = Free
      BY <1>f, <2>1, <2>5
    <3>2. Lease!Abandon(p, c)
      BY <2>1, <2>2, <3>1 DEF Lease!Abandon, Free
    <3> QED BY <1>n, <2>3, <3>2
  <2> QED BY <2>4, <2>5
<1>5. ASSUME NEW p \in Procs, Label(p) PROVE [Lease!Next]_<<Free, holds>>
  <2> DEFINE c == job[p].cur
  <2>1. /\ At(p, "label") /\ c \in exists /\ pooled' = pooled \cup {c} /\ claimed' = claimed \ {c}
        /\ UNCHANGED <<hib, holds>>
    BY <1>5 DEF Label, Patchable
  <2>2. c \in Clusters
    BY <2>1, <1>t DEF TypeOK
  <2>3. c \notin claimed
    BY <2>1, <2>2 DEF ClaimInv, LabelledOnce, ToLabel
  <2>4. Free' = Free \/ Free' = Free \cup {c}
    BY <1>f, <2>1, <2>3
  <2> QED BY <1>o, <2>1, <2>2, <2>3, <2>4
<1>6. ASSUME NEW p \in Callers, NEW c \in Clusters, Destroy(p, c) PROVE [Lease!Next]_<<Free, holds>>
  <2>1. CASE /\ pooled' = pooled \ {c} /\ claimed' = claimed \ {c} /\ hib' = hib \ {c}
             /\ holds' = [q \in Callers |-> holds[q] \ {c}]
    <3>1. Free' = Free \ {c}
      BY <1>f, <2>1
    <3>2. Lease!Withdraw(c)
      BY <2>1, <3>1 DEF Lease!Withdraw, Free
    <3> QED BY <1>n, <3>2
  <2>2. CASE UNCHANGED <<pooled, claimed, hib, holds>>
    BY <1>f, <2>2
  <2> QED BY <1>6, <2>1, <2>2 DEF Destroy
<1>7. ASSUME NEW p \in Procs, Crash(p) PROVE [Lease!Next]_<<Free, holds>>
  <2> DEFINE c == job[p].cur
  <2>1. /\ UNCHANGED <<pooled, claimed, hib>>
        /\ holds' = IF At(p, "resume") THEN [holds EXCEPT ![p] = @ \ {c}] ELSE holds
    BY <1>7 DEF Crash, hubVars
  <2>2. Free' = Free
    BY <1>f, <2>1
  <2>3. CASE At(p, "resume") /\ p \in Callers /\ c \in holds[p]
    <3>1. Lease!Abandon(p, c)
      BY <2>1, <2>2, <2>3 DEF Lease!Abandon, Free
    <3>2. c \in Clusters
      BY <2>3, <1>t DEF TypeOK
    <3> QED BY <1>n, <2>3, <3>1, <3>2
  <2>4. CASE ~ (At(p, "resume") /\ p \in Callers /\ c \in holds[p])
    <3>1. holds \in [Callers -> SUBSET Clusters]
      BY <1>t DEF TypeOK
    <3>2. holds' = holds
      BY <2>1, <2>4, <3>1
    <3> QED BY <2>2, <3>2
  <2> QED BY <2>3, <2>4
\* The other steps leave the labels, the power states and the claims alone.
<1>8. ASSUME UNCHANGED <<pooled, claimed, hib, holds>> PROVE [Lease!Next]_<<Free, holds>>
  BY <1>f, <1>8
<1>9. ASSUME NEW p \in Procs, Provision(p) \/ Await(p) \/ Fail(p) \/ Load(p)
      PROVE  UNCHANGED <<pooled, claimed, hib, holds>>
  BY <1>9 DEF Provision, Await, Fail, Load, hubVars
<1>10. ASSUME NEW p \in Callers,
              \/ Start(p) \/ ClaimConflict(p) \/ ClaimNone(p) \/ DropConfig(p)
              \/ \E c \in Clusters : ClaimSkip(p, c) \/ ClaimRead(p, c)
       PROVE  UNCHANGED <<pooled, claimed, hib, holds>>
  BY <1>10 DEF Start, StartClaim, StartCreate, StartWait, StartDelete, StartRelease,
               ClaimConflict, ClaimNone, DropConfig, ClaimSkip, ClaimRead, hubVars
<1>11. Hive => UNCHANGED <<pooled, claimed, hib, holds>>
  BY DEF Hive, Install, SpecInstall, StatusWrite, hubVars
<1>12. \A p \in Callers : ~ (LoseClaimReply(p) \/ LoseReleaseReply(p))
  BY DEF LoseClaimReply, LoseReleaseReply
<1>13. ASSUME NEW p \in Callers, Start(p) \/ ClaimStep(p) \/ DeleteStep(p) \/ Unclaim(p)
       PROVE  [Lease!Next]_<<Free, holds>>
  BY <1>1, <1>2, <1>4, <1>6, <1>8, <1>10, <1>13 DEF ClaimStep, DeleteStep
<1>14. ASSUME NEW p \in Procs, Load(p) \/ SharedStep(p) \/ Fail(p) \/ Crash(p)
       PROVE  [Lease!Next]_<<Free, holds>>
  BY <1>3, <1>5, <1>7, <1>8, <1>9, <1>14 DEF SharedStep
<1> QED BY <1>8, <1>11, <1>12, <1>13, <1>14 DEF Next, Progress, Fault

\* The pool is a pool of leases, while replies arrive and CreateManualPool is
\* not called again: every claim takes a cluster on offer, nobody else has it
\* until its caller returns it, and only a cluster without a holder is offered
\* (ManualPool's LeaseSpec).
THEOREM ImplementsLease ==
  ASSUME "lost" \notin Faults, "create" \notin Retried
  PROVE  Spec => LeaseSpec
<1>1. Init => Lease!Init
  BY DEF Init, Lease!Init, Listed
<1>2. UNCHANGED vars => UNCHANGED <<Free, holds>>
  BY DEF vars, Free, Listed, Claimable
<1>3. ClaimInv /\ ClaimInv' /\ StandbyInv /\ ResumeOK /\ [Next]_vars => [Lease!Next]_<<Free, holds>>
  BY <1>2, LeaseStep
<1> QED
  BY <1>1, <1>3, ClaimInvariant, StandbyInvariant, ResumeInvariant, PTL
  DEF Spec, LeaseSpec, Lease!Spec, Free

-----------------------------------------------------------------------------
(* How a cluster of the pool is left without its label. *)

\* What NoStrayCluster says of a step.
AstrayByEnding ==
  \A c \in Clusters : Stray(c)' /\ ~ Stray(c) =>
    \E p \in Procs : Labels(p, c) /\ ~ Labels(p, c)' /\ Faults \cap {"error", "crash"} # {}

\* The step of p creates at most the ClusterDeployment that it labels next, and
\* leaves one that it was to label only by a failure.
LEMMA StraysLabelled ==
  ASSUME TypeOK, NEW p \in Procs, OthersKeep(p),
         \A c \in exists' \ pooled' : c \in exists \ pooled \/ Labels(p, c)',
         At(p, "label") /\ job[p].cur \in exists' \ pooled' => Faults \cap {"error", "crash"} # {}
  PROVE  AstrayByEnding
<1> SUFFICES ASSUME NEW c \in Clusters, Stray(c)', ~ Stray(c)
             PROVE  \E q \in Procs : Labels(q, c) /\ ~ Labels(q, c)' /\ Faults \cap {"error", "crash"} # {}
  BY DEF AstrayByEnding
<1>1. c \in exists' \ pooled' /\ \A q \in Procs : ~ Labels(q, c)'
  BY DEF Stray
<1>2. c \in exists \ pooled
  BY <1>1
<1>3. PICK q \in Procs : Labels(q, c)
  BY <1>2 DEF Stray
<1>4. CASE q = p
  BY <1>1, <1>3, <1>4 DEF Labels
<1>5. CASE q # p
  <2>1. job'[q] = job[q]
    BY <1>3, <1>5, StartedFields DEF OthersKeep, Labels, At
  <2> QED BY <1>1, <1>3, <2>1 DEF Labels, At
<1> QED BY <1>4, <1>5

LEMMA StrayStep ==
  ASSUME TypeOK, TypeOK', Next
  PROVE  AstrayByEnding
<1> USE ManualPoolAssumption
<1>1. ASSUME NEW p \in Callers,
             \/ Start(p) \/ ClaimStep(p) \/ DeleteStep(p) \/ Unclaim(p)
             \/ LoseClaimReply(p) \/ LoseReleaseReply(p)
      PROVE  AstrayByEnding
  <2>1. exists' \ pooled' \subseteq exists \ pooled
    <3>1. CASE Start(p)
      BY <3>1 DEF Start, StartClaim, StartCreate, StartWait, StartDelete, StartRelease, hubVars
    <3>2. CASE ClaimStep(p) \/ Unclaim(p)
      BY <3>2 DEF ClaimStep, ClaimSkip, ClaimRead, TryAtomicClaim, ClaimConflict, Resume, ClaimNone,
                  Unclaim, hubVars
    <3>3. CASE DeleteStep(p) \/ LoseClaimReply(p) \/ LoseReleaseReply(p)
      BY <3>3 DEF DeleteStep, Destroy, DropConfig, LoseClaimReply, LoseReleaseReply, hubVars
    <3> QED BY <1>1, <3>1, <3>2, <3>3
  <2>2. OthersKeep(p)
    BY <1>1, StartShapes, CallerShapes DEF Start, ClaimStep, DeleteStep, Ends, Becomes
  <2>3. ~ At(p, "label")
    BY <1>1 DEF Start, StartClaim, StartCreate, StartWait, StartDelete, StartRelease,
                ClaimStep, ClaimSkip, ClaimRead, TryAtomicClaim, ClaimConflict, Resume, ClaimNone,
                DeleteStep, Destroy, DropConfig, Unclaim, LoseClaimReply, LoseReleaseReply, At
  <2> QED BY <2>1, <2>2, <2>3, StraysLabelled
<1>2. ASSUME NEW p \in Procs, Provision(p) PROVE AstrayByEnding
  <2>1. PICK c : exists' = exists \cup {c} /\ Becomes(p, job[p].op, "label", c, job[p].todo \ {c})
    BY <1>2, SharedShapes
  <2>2. pooled' = pooled /\ ~ At(p, "label")
    BY <1>2 DEF Provision, At
  <2>3. Labels(p, c)' /\ OthersKeep(p)
    BY <2>1 DEF Becomes, Labels, At
  <2> QED BY <2>1, <2>2, <2>3, StraysLabelled
<1>3. ASSUME NEW p \in Procs, Label(p) PROVE AstrayByEnding
  <2>1. exists' = exists /\ pooled' = pooled \cup {job[p].cur}
    BY <1>3 DEF Label
  <2>2. OthersKeep(p)
    BY <1>3, SharedShapes DEF Ends, Becomes
  <2> QED BY <2>1, <2>2, StraysLabelled
<1>4. ASSUME NEW p \in Procs, Hibernate(p) \/ Await(p) \/ (p \in Spare /\ Load(p)) PROVE AstrayByEnding
  <2>1. UNCHANGED <<exists, pooled>> /\ ~ At(p, "label")
    BY <1>4 DEF Hibernate, Await, Load, hubVars, At
  <2>2. OthersKeep(p)
    BY <1>4, SharedShapes DEF Ends, Becomes
  <2> QED BY <2>1, <2>2, StraysLabelled
\* Without errors, a labelling fails only where the ClusterDeployment is gone.
<1>5. ASSUME NEW p \in Procs, Fail(p) \/ Crash(p) PROVE AstrayByEnding
  <2>1. /\ UNCHANGED <<exists, pooled>>
        /\ "error" \in Faults \/ "crash" \in Faults \/ (At(p, "label") => job[p].cur \notin exists)
    BY <1>5 DEF Fail, Crash, hubVars
  <2>2. OthersKeep(p)
    BY <1>5, SharedShapes DEF Ends, Becomes
  <2> QED BY <2>1, <2>2, StraysLabelled
<1>6. CASE Hive
  BY <1>6 DEF Hive, Install, SpecInstall, StatusWrite, hubVars, AstrayByEnding, Stray, Labels, At
<1> QED BY <1>1, <1>2, <1>3, <1>4, <1>5, <1>6 DEF Next, Progress, Fault, SharedStep

\* Under every fault, retry and interleaving, a ClusterDeployment is left without the
\* pool label only by the step in which the operation that made it fails or is killed
\* before it has labelled it: no step of another operation takes one out of the pool
\* (ManualPool's NoStrayCluster).
THEOREM StraysByEndingOnly == Spec => NoStrayCluster
<1>1. TypeOK /\ TypeOK' /\ [Next]_vars => [AstrayByEnding]_vars
  BY StrayStep
<1>2. Spec => []TypeOK
  BY TypeCorrect
<1> QED BY <1>1, <1>2, PTL DEF Spec, NoStrayCluster, AstrayByEnding
=============================================================================
