-------------------------- MODULE ManualPoolProofs --------------------------
(* Type correctness and exclusive claims of ManualPool, for any callers,    *)
(* clusters and number of replenish goroutines.                             *)
EXTENDS ManualPool, TLAPS

USE DEF Clusters, Procs

\* A step keeps the state within its types; a label or power state is
\* never kept for a ClusterDeployment that is gone.
LEMMA TypeStep == TypeOK /\ [Next]_vars => TypeOK'
<1>i. Idle \in Jobs /\ \A p : Finished(p) \in Jobs
  BY DEF Jobs, Idle, Job, Finished, Ops, Places
<1>1. TypeOK /\ [Next]_vars => TypeOK'
  <2> SUFFICES ASSUME TypeOK, [Next]_vars PROVE TypeOK'
    OBVIOUS
  <2> USE ManualPoolAssumption DEF TypeOK
  <2>j. \A o \in Ops, l \in Places, c \in Clusters \cup {NoCluster}, S \in SUBSET Clusters :
          Job(o, l, c, S) \in Jobs
    BY DEF Jobs, Job
  <2>e. ASSUME NEW p \in Procs, End(p) PROVE job' \in [Procs -> Jobs]
    <3>1. Finished(p) \in Jobs
      BY <1>i
    <3> QED BY <2>e, <3>1 DEF End
  <2>w. ASSUME NEW c, Written(c) PROVE fresh' \subseteq Callers
    BY <2>w DEF Written
  <2>n. ASSUME NEW p \in Procs, NEW rest \in SUBSET Clusters, WaitNext(p, rest)
        PROVE  job' \in [Procs -> Jobs]
    <3>1. CASE rest = {}
      BY <2>n, <3>1, <2>e DEF WaitNext
    <3>2. CASE rest # {}
      <4>1. PICK c \in rest : job' = [job EXCEPT ![p] = Job("wait", "await", c, rest \ {c})]
        BY <2>n, <3>2 DEF WaitNext
      <4>2. Job("wait", "await", c, rest \ {c}) \in Jobs
        BY <2>j DEF Ops, Places
      <4> QED BY <4>1, <4>2
    <3> QED BY <3>1, <3>2
  <2>1. CASE UNCHANGED vars
    BY <2>1 DEF vars
  <2>2. ASSUME NEW p \in Callers, Start(p) PROVE TypeOK'
    <3>1. CASE StartClaim(p)
      BY <3>1, <2>j DEF StartClaim, Listed, hubVars, Ops, Places
    <3>2. CASE StartCreate(p)
      BY <3>2, <2>j DEF StartCreate, Ops, Places
    <3>3. CASE StartWait(p)
      <4>1. Listed \in SUBSET Clusters
        BY DEF Listed
      <4> QED BY <3>3, <4>1, <2>n DEF StartWait, hubVars
    <3>4. CASE StartDelete(p)
      BY <3>4, <2>j DEF StartDelete, Listed, hubVars, Ops, Places
    <3>5. ASSUME NEW c \in Clusters, StartRelease(p, c) PROVE TypeOK'
      BY <3>5, <2>j DEF StartRelease, hubVars, Ops, Places
    <3> QED BY <2>2, <3>1, <3>2, <3>3, <3>4, <3>5 DEF Start
  <2>3. ASSUME NEW p \in Callers, ClaimStep(p) PROVE TypeOK'
    <3>1. ASSUME NEW c \in Clusters, ClaimSkip(p, c) PROVE TypeOK'
      BY <3>1 DEF ClaimSkip, hubVars, Jobs
    <3>2. ASSUME NEW c \in Clusters, ClaimRead(p, c) PROVE TypeOK'
      BY <3>2 DEF ClaimRead, hubVars, Jobs, Places
    <3>3. CASE TryAtomicClaim(p)
      BY <3>3, <2>w DEF TryAtomicClaim, CanClaim, Jobs, Places
    <3>4. CASE ClaimConflict(p)
      <4>1. job' = [job EXCEPT ![p].at = "scan", ![p].cur = NoCluster]
        BY <3>4 DEF ClaimConflict
      <4>2. [job[p] EXCEPT !.at = "scan", !.cur = NoCluster] \in Jobs
        <5>1. job[p] \in Jobs
          OBVIOUS
        <5> HIDE DEF TypeOK
        <5> QED BY <5>1 DEF Jobs, Places
      <4>3. job' \in [Procs -> Jobs]
        BY <4>1, <4>2
      <4> QED BY <3>4, <4>3 DEF ClaimConflict, hubVars
    <3>5. CASE Resume(p)
      <4>1. job' \in [Procs -> Jobs]
        BY <3>5, <2>e, <1>i, <2>j DEF Resume, ReturnClaim, Ops, Places
      <4>2. fresh' \subseteq Callers /\ hib' \subseteq exists
        BY <3>5, <2>w DEF Resume
      <4> QED BY <3>5, <4>1, <4>2 DEF Resume
    <3>6. CASE ClaimNone(p)
      BY <3>6, <2>e DEF ClaimNone, hubVars
    <3> QED BY <2>3, <3>1, <3>2, <3>3, <3>4, <3>5, <3>6 DEF ClaimStep
  <2>4. ASSUME NEW p \in Callers, DeleteStep(p) PROVE TypeOK'
    <3>1. ASSUME NEW c \in Clusters, Destroy(p, c) PROVE TypeOK'
      BY <3>1, <2>w DEF Destroy, Jobs
    <3>2. CASE DropConfig(p)
      BY <3>2, <2>e DEF DropConfig
    <3> QED BY <2>4, <3>1, <3>2 DEF DeleteStep
  <2>5. ASSUME NEW p \in Callers, Unclaim(p) PROVE TypeOK'
    BY <2>5, <2>e, <2>w DEF Unclaim, Patchable
  <2>6. ASSUME NEW p \in Spare, Load(p) PROVE TypeOK'
    BY <2>6, <2>e DEF Load, hubVars, Jobs, Places
  <2>7. ASSUME NEW p \in Procs, SharedStep(p) PROVE TypeOK'
    <3>1. CASE Hibernate(p)
      <4>1. job[p].todo \in SUBSET Clusters
        BY DEF Jobs
      <4>2. job' \in [Procs -> Jobs]
        <5>1. CASE job' = [job EXCEPT ![p].at = "unclaim"]
          BY <5>1 DEF Jobs, Places
        <5>2. CASE WaitNext(p, job[p].todo) \/ End(p)
          BY <4>1, <5>2, <2>e, <2>n
        <5> QED BY <3>1, <5>1, <5>2 DEF Hibernate
      <4>3. fresh' \subseteq Callers
        BY <3>1, <2>w DEF Hibernate
      <4> QED BY <3>1, <4>2, <4>3 DEF Hibernate, Patchable
    <3>2. CASE Provision(p)
      BY <3>2 DEF Provision, Jobs, Places
    <3>3. CASE Label(p)
      <4>1. job' \in [Procs -> Jobs]
        BY <3>3, <2>e DEF Label, Jobs, Places
      <4> QED BY <3>3, <4>1, <2>w DEF Label, Patchable
    <3>4. CASE Await(p)
      BY <3>4 DEF Await, hubVars, Jobs, Places
    <3> QED BY <2>7, <3>1, <3>2, <3>3, <3>4 DEF SharedStep
  <2>8. ASSUME NEW p \in Procs, Fault(p) PROVE TypeOK'
    <3>1. CASE Fail(p)
      BY <3>1, <2>e DEF Fail, hubVars
    <3>2. CASE p \in Callers /\ LoseClaimReply(p)
      BY <3>2, <2>w DEF LoseClaimReply, CanClaim, Jobs, Places
    <3>3. CASE p \in Callers /\ LoseReleaseReply(p)
      BY <3>3, <2>e, <2>w DEF LoseReleaseReply
    <3>4. CASE Crash(p)
      BY <3>4, <2>e DEF Crash, hubVars
    <3> QED BY <2>8, <3>1, <3>2, <3>3, <3>4 DEF Fault
  <2>9. CASE Hive
    BY <2>9, <2>w DEF Hive, Install, SpecInstall, StatusWrite, hubVars
  <2> QED
    BY <2>1, <2>2, <2>3, <2>4, <2>5, <2>6, <2>7, <2>8, <2>9 DEF Next, Progress
<1>2. QED
  BY <1>1

\* Every handler keeps the state within its types, in every behaviour.
THEOREM TypeCorrect == Spec => []TypeOK
<1>1. Init => TypeOK
  <2>1. Idle \in Jobs
    BY DEF Jobs, Idle, Job, Ops, Places
  <2> QED BY <2>1 DEF Init, TypeOK
<1>2. QED
  BY <1>1, TypeStep, PTL DEF Spec

-----------------------------------------------------------------------------
(* What a step of p does to the jobs: its own moves on, the others stay, and at
   most a goroutine is started. *)

Started(g) == job[g] = Idle /\ job'[g] = Job("replenish", "load", g, {})

\* A step of p leaves the others alone; it may start a goroutine.
OthersKeep(p) ==
  \A q \in Procs \ {p} : job'[q] = job[q] \/ (q \in Spare /\ Started(q))

Becomes(p, op, at, cur, todo) ==
  /\ OthersKeep(p)
  /\ job'[p].op = op /\ job'[p].at = at /\ job'[p].cur = cur /\ job'[p].todo = todo

Ends(p) == Becomes(p, "none", IF p \in Spare THEN "done" ELSE "idle", NoCluster, {})

LEMMA StartedFields ==
  ASSUME NEW g, Started(g)
  PROVE  /\ job[g].at = "idle" /\ job'[g].op = "replenish" /\ job'[g].at = "load"
         /\ job'[g].cur = g /\ job'[g].todo = {}
  BY DEF Started, Idle, Job

LEMMA Ending ==
  ASSUME TypeOK, NEW p \in Procs, End(p)
  PROVE  Ends(p)
<1>1. OthersKeep(p) /\ job'[p] = Finished(p)
  BY DEF End, OthersKeep, TypeOK
<1> QED BY <1>1 DEF Finished, Idle, Job, Becomes, Ends

\* A new job, or one with the fields that an action names changed.
LEMMA NewJob ==
  ASSUME TypeOK, NEW p \in Procs, NEW o, NEW l, NEW c, NEW S,
         job' = [job EXCEPT ![p] = Job(o, l, c, S)]
  PROVE  Becomes(p, o, l, c, S)
  BY DEF TypeOK, OthersKeep, Becomes, Job

LEMMA NextPlace ==
  ASSUME TypeOK, NEW p \in Procs, NEW l, job' = [job EXCEPT ![p].at = l]
  PROVE  Becomes(p, job[p].op, l, job[p].cur, job[p].todo)
  BY DEF TypeOK, Jobs, OthersKeep, Becomes

LEMMA NextCluster ==
  ASSUME TypeOK, NEW p \in Procs, NEW l, NEW c,
         job' = [job EXCEPT ![p].at = l, ![p].cur = c, ![p].todo = @ \ {c}]
  PROVE  Becomes(p, job[p].op, l, c, job[p].todo \ {c})
<1>1. job[p] \in Jobs /\ job'[p] = [job[p] EXCEPT !.at = l, !.cur = c, !.todo = @ \ {c}]
  BY DEF TypeOK
<1>2. /\ job'[p].op = job[p].op /\ job'[p].at = l
      /\ job'[p].cur = c /\ job'[p].todo = job[p].todo \ {c}
  BY <1>1 DEF Jobs
<1> QED BY <1>2 DEF TypeOK, OthersKeep, Becomes

LEMMA NoMoreCluster ==
  ASSUME TypeOK, NEW p \in Procs, NEW l, job' = [job EXCEPT ![p].at = l, ![p].cur = NoCluster]
  PROVE  Becomes(p, job[p].op, l, NoCluster, job[p].todo)
<1>1. job[p] \in Jobs /\ job'[p] = [job[p] EXCEPT !.at = l, !.cur = NoCluster]
  BY DEF TypeOK
<1>2. /\ job'[p].op = job[p].op /\ job'[p].at = l
      /\ job'[p].cur = NoCluster /\ job'[p].todo = job[p].todo
  BY <1>1 DEF Jobs
<1> QED BY <1>2 DEF TypeOK, OthersKeep, Becomes

LEMMA OneLess ==
  ASSUME TypeOK, NEW p \in Procs, NEW c, job' = [job EXCEPT ![p].todo = @ \ {c}]
  PROVE  Becomes(p, job[p].op, job[p].at, job[p].cur, job[p].todo \ {c})
  BY DEF TypeOK, Jobs, OthersKeep, Becomes

LEMMA Waiting ==
  ASSUME TypeOK, NEW p \in Procs, NEW rest, WaitNext(p, rest)
  PROVE  Ends(p) \/ \E c \in rest : Becomes(p, "wait", "await", c, rest \ {c})
  BY Ending, NewJob DEF WaitNext

\* The steps that callers alone take.
LEMMA StartShapes ==
  ASSUME TypeOK, NEW p \in Callers
  PROVE  /\ StartClaim(p) => Becomes(p, "claim", "scan", NoCluster, Listed)
         /\ StartCreate(p) => Becomes(p, "create", "provision", NoCluster, Initial)
         /\ StartWait(p) => \E c \in Listed : Becomes(p, "wait", "await", c, Listed \ {c})
         /\ StartDelete(p) => Becomes(p, "delete", "destroy", NoCluster, Listed)
         /\ \A c \in Clusters : StartRelease(p, c) => Becomes(p, "release", "hibernate", c, {})
<1>1. StartWait(p) => \E c \in Listed : Becomes(p, "wait", "await", c, Listed \ {c})
  BY NewJob DEF StartWait, WaitNext
<1> QED BY <1>1, NewJob DEF StartClaim, StartCreate, StartDelete, StartRelease

LEMMA CallerShapes ==
  ASSUME TypeOK, NEW p \in Callers
  PROVE  /\ \A c \in Clusters : ClaimSkip(p, c) =>
              Becomes(p, job[p].op, job[p].at, job[p].cur, job[p].todo \ {c})
         /\ \A c \in Clusters : ClaimRead(p, c) =>
              Becomes(p, job[p].op, "patch", c, job[p].todo \ {c})
         /\ TryAtomicClaim(p) => Becomes(p, job[p].op, "resume", job[p].cur, job[p].todo)
         /\ ClaimConflict(p) \/ LoseClaimReply(p) =>
              Becomes(p, job[p].op, "scan", NoCluster, job[p].todo)
         /\ Resume(p) \/ ClaimNone(p) \/ DropConfig(p) \/ Unclaim(p) \/ LoseReleaseReply(p) => Ends(p)
         /\ \A c \in Clusters : Destroy(p, c) =>
              Becomes(p, job[p].op, job[p].at, job[p].cur, job[p].todo \ {c})
<1>1. ASSUME Resume(p) PROVE Ends(p)
  <2>1. ASSUME NEW g \in Spare, job[g] = Idle,
               job' = [job EXCEPT ![p] = Idle, ![g] = Job("replenish", "load", g, {})]
        PROVE  Ends(p)
    <3>1. OthersKeep(p) /\ job'[p] = Idle
      BY <2>1, ManualPoolAssumption DEF OthersKeep, Started, TypeOK
    <3> QED BY <3>1, ManualPoolAssumption DEF Idle, Job, Becomes, Ends
  <2> QED BY <1>1, <2>1, Ending DEF Resume, ReturnClaim
<1>2. ClaimNone(p) \/ DropConfig(p) \/ Unclaim(p) \/ LoseReleaseReply(p) => Ends(p)
  BY Ending DEF ClaimNone, DropConfig, Unclaim, LoseReleaseReply
<1>3. ASSUME NEW c \in Clusters
      PROVE  /\ ClaimSkip(p, c) \/ Destroy(p, c) =>
                  Becomes(p, job[p].op, job[p].at, job[p].cur, job[p].todo \ {c})
             /\ ClaimRead(p, c) => Becomes(p, job[p].op, "patch", c, job[p].todo \ {c})
  BY OneLess, NextCluster DEF ClaimSkip, Destroy, ClaimRead
<1>4. TryAtomicClaim(p) => Becomes(p, job[p].op, "resume", job[p].cur, job[p].todo)
  BY NextPlace DEF TryAtomicClaim
<1>5. ClaimConflict(p) \/ LoseClaimReply(p) => Becomes(p, job[p].op, "scan", NoCluster, job[p].todo)
  BY NoMoreCluster DEF ClaimConflict, LoseClaimReply
<1> QED BY <1>1, <1>2, <1>3, <1>4, <1>5

\* The steps that callers and goroutines share, and those of a goroutine.
LEMMA SharedShapes ==
  ASSUME TypeOK, NEW p \in Procs
  PROVE  /\ Hibernate(p) =>
              \/ job[p].op = "release" /\ Becomes(p, "release", "unclaim", job[p].cur, job[p].todo)
              \/ /\ job[p].op = "wait"
                 /\ \E c \in job[p].todo : Becomes(p, "wait", "await", c, job[p].todo \ {c})
              \/ job[p].op \in {"wait", "replenish"} /\ Ends(p)
         /\ Provision(p) =>
              \E c \in IF p \in Spare THEN {p} ELSE job[p].todo :
                exists' = exists \cup {c} /\ Becomes(p, job[p].op, "label", c, job[p].todo \ {c})
         /\ Label(p) =>
              \/ Ends(p)
              \/ p \in Spare /\ Becomes(p, job[p].op, "await", job[p].cur, job[p].todo)
              \/ /\ p \in Callers /\ job[p].todo # {}
                 /\ Becomes(p, job[p].op, "provision", NoCluster, job[p].todo)
         /\ Await(p) => Becomes(p, job[p].op, "hibernate", job[p].cur, job[p].todo)
         /\ Load(p) => Ends(p) \/ Becomes(p, job[p].op, "provision", job[p].cur, job[p].todo)
         /\ Fail(p) \/ Crash(p) => Ends(p)
<1>1. ASSUME Hibernate(p)
      PROVE  \/ job[p].op = "release" /\ Becomes(p, "release", "unclaim", job[p].cur, job[p].todo)
             \/ /\ job[p].op = "wait"
                /\ \E c \in job[p].todo : Becomes(p, "wait", "await", c, job[p].todo \ {c})
             \/ job[p].op \in {"wait", "replenish"} /\ Ends(p)
  <2>1. CASE job[p].op = "release" /\ job' = [job EXCEPT ![p].at = "unclaim"]
    <3>1. Becomes(p, job[p].op, "unclaim", job[p].cur, job[p].todo)
      BY <2>1, NextPlace
    <3> QED BY <2>1, <3>1
  <2> QED BY <1>1, <2>1, Waiting, Ending DEF Hibernate
<1>2. Provision(p) =>
        \E c \in IF p \in Spare THEN {p} ELSE job[p].todo :
          exists' = exists \cup {c} /\ Becomes(p, job[p].op, "label", c, job[p].todo \ {c})
  <2> SUFFICES ASSUME Provision(p)
               PROVE  \E c \in IF p \in Spare THEN {p} ELSE job[p].todo :
                        exists' = exists \cup {c} /\ Becomes(p, job[p].op, "label", c, job[p].todo \ {c})
    OBVIOUS
  <2>1. PICK c \in IF p \in Spare THEN {p} ELSE job[p].todo :
          /\ exists' = exists \cup {c}
          /\ job' = [job EXCEPT ![p].at = "label", ![p].cur = c, ![p].todo = @ \ {c}]
    BY DEF Provision
  <2> QED BY <2>1, NextCluster
<1>3. Label(p) =>
        \/ Ends(p)
        \/ p \in Spare /\ Becomes(p, job[p].op, "await", job[p].cur, job[p].todo)
        \/ /\ p \in Callers /\ job[p].todo # {}
           /\ Becomes(p, job[p].op, "provision", NoCluster, job[p].todo)
  BY Ending, NextPlace, NoMoreCluster DEF Label
<1>4. /\ Await(p) => Becomes(p, job[p].op, "hibernate", job[p].cur, job[p].todo)
      /\ Load(p) => Ends(p) \/ Becomes(p, job[p].op, "provision", job[p].cur, job[p].todo)
      /\ Fail(p) \/ Crash(p) => Ends(p)
  BY Ending, NextPlace DEF Await, Load, Fail, Crash
<1> QED BY <1>1, <1>2, <1>3, <1>4

-----------------------------------------------------------------------------
(* Labelling, which resets pool-claimed, only reaches clusters that were never
   listed (LabelledOnce), because each is labelled by one process (OwnNames).
   This needs that CreateManualPool is not called again, and that nobody was
   handed a cluster that is still to be labelled. *)

HandedOut == \A p \in Callers : \A c \in holds[p] : ~ ToLabel(c)

\* A caller's step that neither creates nor labels.
LEMMA CallerNames ==
  ASSUME TypeOK, OwnNames, LabelledOnce, NEW p \in Callers, OthersKeep(p), called \subseteq called',
         job'[p].op # "create", ~At(p, "label")', ~At(p, "provision")',
         \A c \in Clusters : ToLabel(c) =>
           /\ c \notin pooled' /\ c \notin claimed'
           /\ c # job'[p].cur /\ c \notin job'[p].todo
  PROVE  OwnNames' /\ LabelledOnce'
<1> USE ManualPoolAssumption DEF TypeOK
<1>0. /\ \A q \in Callers \ {p} : job'[q] = job[q]
      /\ \A g \in Spare : job'[g] = job[g] \/ Started(g)
  BY DEF OthersKeep, Started, Job
<1>1. OwnNames'
  <2>1. \A g \in Spare : job'[g] # job[g] =>
          job'[g].op = "replenish" /\ job'[g].cur = g /\ job'[g].todo = {} /\ ~At(g, "idle")'
    BY <1>0, StartedFields DEF At
  <2>2. \A q \in Callers : job'[q].op = "create" => job'[q] = job[q] /\ job[q].op = "create"
    BY <1>0
  <2>3. \A q \in Callers : At(q, "label")' \/ At(q, "provision")' => job'[q] = job[q]
    BY <1>0 DEF At
  <2> QED BY <2>1, <2>2, <2>3 DEF OwnNames, At
<1>2. ASSUME NEW c \in Clusters, ToLabel(c)' PROVE ToLabel(c)
  <2>1. \A q \in Callers : At(q, "label")' \/ job'[q].op = "create" => job'[q] = job[q]
    BY <1>0 DEF At
  <2>2. \A g \in Spare : job'[g] # job[g] => At(g, "idle") /\ At(g, "load")' /\ job'[g].todo = {}
    BY <1>0, StartedFields DEF At
  <2> QED BY <1>2, <2>1, <2>2 DEF ToLabel, At
<1>3. LabelledOnce'
  BY <1>0, <1>2 DEF LabelledOnce
<1>4. QED
  BY <1>1, <1>3

\* A goroutine's step that changes no label.
LEMMA GoroutineNames ==
  ASSUME TypeOK, OwnNames, LabelledOnce, NEW g \in Spare, OthersKeep(g), called' = called,
         \/ job'[g].op = "none" /\ At(g, "done")'
         \/ job'[g].op = "replenish" /\ job'[g].cur = g /\ ~At(g, "idle")',
         job'[g].todo = {},
         At(g, "label")' \/ At(g, "load")' \/ At(g, "provision")' => ToLabel(g),
         pooled' = pooled, claimed' = claimed
  PROVE  OwnNames' /\ LabelledOnce'
<1> USE ManualPoolAssumption DEF TypeOK
<1>0. /\ \A q \in Callers : job'[q] = job[q]
      /\ \A h \in Spare \ {g} : job'[h] = job[h] \/ Started(h)
  BY DEF OthersKeep
<1>1. OwnNames'
  <2>1. \A h \in Spare : job'[h] # job[h] =>
          \/ job'[h].op = "none" /\ At(h, "done")' /\ job'[h].todo = {}
          \/ job'[h].op = "replenish" /\ job'[h].cur = h /\ job'[h].todo = {} /\ ~At(h, "idle")'
    BY <1>0, StartedFields DEF At
  <2> QED BY <1>0, <2>1 DEF OwnNames, At
<1>2. ASSUME NEW c \in Clusters, ToLabel(c)' PROVE ToLabel(c)
  <2>1. \A h \in Spare \ {g} : job'[h] # job[h] => At(h, "idle") /\ At(h, "load")' /\ job'[h].op = "replenish"
    BY <1>0, StartedFields DEF At
  <2>2. At(g, "idle")' => FALSE
    BY DEF At
  <2>3. CASE c = g
    <3>1. \A p \in Callers : At(p, "label") => job[p].cur # g
      BY DEF OwnNames
    <3> QED BY <1>0, <1>2, <2>1, <2>2, <2>3, <3>1 DEF ToLabel, At, OwnNames
  <2>4. CASE c # g
    BY <1>0, <1>2, <2>1, <2>4 DEF ToLabel, At, OwnNames
  <2> QED BY <2>3, <2>4
<1>3. LabelledOnce'
  BY <1>0, <1>2 DEF LabelledOnce
<1>4. QED
  BY <1>1, <1>3

\* The steps that callers alone take; only StartCreate makes something to label.
LEMMA CallerNamesStep ==
  ASSUME TypeOK, OwnNames, LabelledOnce, HandedOut, "create" \notin Retried, NEW p \in Callers,
         \/ Start(p) \/ ClaimStep(p) \/ DeleteStep(p) \/ Unclaim(p)
         \/ LoseClaimReply(p) \/ LoseReleaseReply(p)
  PROVE  OwnNames' /\ LabelledOnce'
<1> USE ManualPoolAssumption DEF TypeOK
<1>l. \A c \in Clusters : ToLabel(c) => c \notin Listed
  BY DEF LabelledOnce, Listed
<1>t. job[p].op # "create" => \A c \in Clusters : ToLabel(c) =>
        c \notin pooled /\ c \notin claimed /\ c # job[p].cur /\ c \notin job[p].todo
  BY DEF LabelledOnce
<1>e. ASSUME Ends(p), pooled' \subseteq pooled, claimed' \subseteq claimed, called' = called
      PROVE  OwnNames' /\ LabelledOnce'
  BY <1>e, CallerNames DEF Ends, Becomes, At, LabelledOnce
<1>1. CASE StartCreate(p)
  <2>1. Becomes(p, "create", "provision", NoCluster, Initial)
    BY <1>1, StartShapes
  <2>2. OwnNames'
    <3>1. "create" \notin called /\ "create" \in called'
      BY <1>1 DEF StartCreate, MayCall
    <3> QED BY <2>1, <3>1, StartedFields DEF OwnNames, Becomes, OthersKeep, At
  <2>3. ASSUME NEW c \in Clusters, ToLabel(c)' PROVE ToLabel(c)
    BY <1>1, <2>1, <2>3, StartedFields DEF StartCreate, MayCall, ToLabel, Becomes, OthersKeep, At
  <2>4. LabelledOnce'
    <3>1. \A q \in Callers : job'[q].op # "create" => job'[q] = job[q]
      BY <2>1 DEF Becomes, OthersKeep
    <3> QED BY <1>1, <2>3, <3>1 DEF StartCreate, LabelledOnce
  <2> QED BY <2>2, <2>4
<1>2. CASE StartClaim(p) \/ StartWait(p) \/ StartDelete(p)
  <2>1. UNCHANGED <<pooled, claimed>> /\ called \subseteq called'
    BY <1>2 DEF StartClaim, StartWait, StartDelete, hubVars
  <2>2. /\ OthersKeep(p) /\ job'[p].op \in {"claim", "wait", "delete"}
        /\ job'[p].at \in {"scan", "await", "destroy"}
        /\ job'[p].cur \in Listed \cup {NoCluster} /\ job'[p].todo \subseteq Listed
    BY <1>2, StartShapes DEF Becomes
  <2> QED BY <2>1, <2>2, <1>l, CallerNames DEF At, LabelledOnce
<1>3. ASSUME NEW c \in Clusters, StartRelease(p, c) PROVE OwnNames' /\ LabelledOnce'
  <2>1. Becomes(p, "release", "hibernate", c, {}) /\ c \in holds[p]
    BY <1>3, StartShapes DEF StartRelease
  <2>2. ~ ToLabel(c) /\ UNCHANGED <<pooled, claimed, called>>
    BY <1>3, <2>1 DEF HandedOut, StartRelease, hubVars
  <2> QED BY <2>1, <2>2, CallerNames DEF Becomes, At, LabelledOnce
<1>4. ASSUME NEW c \in Clusters, ClaimSkip(p, c) \/ ClaimRead(p, c) \/ Destroy(p, c)
      PROVE  OwnNames' /\ LabelledOnce'
  <2>1. /\ pooled' \subseteq pooled /\ claimed' \subseteq claimed /\ called' = called
        /\ job[p].at \in {"scan", "destroy"}
    BY <1>4 DEF ClaimSkip, ClaimRead, Destroy, hubVars, At
  <2>2. /\ OthersKeep(p) /\ job'[p].op = job[p].op /\ job'[p].at \in {job[p].at, "patch"}
        /\ job'[p].cur \in {job[p].cur} \cup job[p].todo /\ job'[p].todo \subseteq job[p].todo
    <3>1. CASE Becomes(p, job[p].op, job[p].at, job[p].cur, job[p].todo \ {c})
      BY <3>1 DEF Becomes
    <3>2. CASE c \in job[p].todo /\ Becomes(p, job[p].op, "patch", c, job[p].todo \ {c})
      BY <3>2 DEF Becomes
    <3> QED BY <1>4, <3>1, <3>2, CallerShapes DEF ClaimRead
  <2>3. job[p].op # "create"
    BY <2>1 DEF OwnNames
  <2> QED BY <2>1, <2>2, <2>3, <1>t, CallerNames DEF At
<1>5. CASE TryAtomicClaim(p) \/ ClaimConflict(p) \/ LoseClaimReply(p)
  <2>1. /\ pooled' = pooled /\ claimed' \subseteq claimed \cup {job[p].cur} /\ called' = called
        /\ At(p, "patch")
    BY <1>5 DEF TryAtomicClaim, ClaimConflict, LoseClaimReply, hubVars
  <2>2. /\ OthersKeep(p) /\ job'[p].op = job[p].op /\ job'[p].at \in {"resume", "scan"}
        /\ job'[p].cur \in {job[p].cur, NoCluster} /\ job'[p].todo = job[p].todo
    BY <1>5, CallerShapes DEF Becomes
  <2>3. job[p].op # "create"
    BY <2>1 DEF OwnNames, At
  <2> QED BY <2>1, <2>2, <2>3, <1>t, CallerNames DEF At
<1>6. CASE Resume(p) \/ ClaimNone(p) \/ DropConfig(p) \/ Unclaim(p) \/ LoseReleaseReply(p)
  BY <1>6, <1>e, CallerShapes
  DEF Resume, ClaimNone, DropConfig, Unclaim, LoseReleaseReply, hubVars
<1> QED
  BY <1>1, <1>2, <1>3, <1>4, <1>5, <1>6 DEF Start, ClaimStep, DeleteStep

\* A caller's share of the steps that goroutines take too.
LEMMA CallerSharedNames ==
  ASSUME TypeOK, OwnNames, LabelledOnce, NEW p \in Callers, SharedStep(p) \/ Fail(p) \/ Crash(p)
  PROVE  OwnNames' /\ LabelledOnce'
<1> USE ManualPoolAssumption DEF TypeOK
<1>t. job[p].op # "create" => \A c \in Clusters : ToLabel(c) =>
        c \notin pooled /\ c \notin claimed /\ c # job[p].cur /\ c \notin job[p].todo
  BY DEF LabelledOnce
<1>e. ASSUME Ends(p), UNCHANGED <<pooled, claimed, called>>
      PROVE  OwnNames' /\ LabelledOnce'
  BY <1>e, CallerNames DEF Ends, Becomes, At, LabelledOnce
<1>1. CASE Hibernate(p) \/ Await(p)
  <2>1. UNCHANGED <<pooled, claimed, called>> /\ job[p].op # "create"
    BY <1>1 DEF Hibernate, Await, hubVars, OwnNames, At
  <2>2. CASE Ends(p)
    BY <2>1, <2>2, <1>e
  <2>3. CASE /\ OthersKeep(p) /\ job'[p].op \in {job[p].op, "release", "wait"}
             /\ job'[p].at \in {"unclaim", "await", "hibernate"}
             /\ job'[p].cur \in {job[p].cur} \cup job[p].todo /\ job'[p].todo \subseteq job[p].todo
    BY <2>1, <2>3, <1>t, CallerNames DEF At
  <2> QED BY <1>1, <2>2, <2>3, SharedShapes DEF Becomes
<1>2. CASE Provision(p)
  <2>1. PICK c \in job[p].todo : Becomes(p, job[p].op, "label", c, job[p].todo \ {c})
    BY <1>2, SharedShapes
  <2>2. job[p].op = "create" /\ At(p, "provision") /\ ToLabel(c)
    BY <1>2, <2>1 DEF Provision, OwnNames, ToLabel
  <2>3. UNCHANGED <<pooled, claimed, called>>
    BY <1>2 DEF Provision
  <2>4. OwnNames'
    BY <2>1, <2>2, <2>3, StartedFields DEF OwnNames, Becomes, OthersKeep, At
  <2>5. ASSUME NEW d \in Clusters, ToLabel(d)' PROVE ToLabel(d)
    BY <2>1, <2>2, <2>3, <2>5, StartedFields DEF ToLabel, Becomes, OthersKeep, At
  <2>6. LabelledOnce'
    <3>1. \A q \in Callers : job'[q].op # "create" => job'[q] = job[q]
      BY <2>1, <2>2 DEF Becomes, OthersKeep
    <3> QED BY <2>3, <2>5, <3>1 DEF LabelledOnce
  <2> QED BY <2>4, <2>6
<1>3. CASE Label(p)
  <2> DEFINE c == job[p].cur
  <2>1. /\ job[p].op = "create" /\ At(p, "label") /\ c \in Initial /\ c \notin job[p].todo
        /\ ToLabel(c) /\ c \notin claimed
    BY <1>3 DEF Label, OwnNames, ToLabel, LabelledOnce, At
  <2>2. UNCHANGED <<claimed, called>> /\ pooled' = pooled \cup {c}
    BY <1>3, <2>1 DEF Label
  <2>3. /\ OthersKeep(p)
        /\ \/ /\ job'[p].op = "none" /\ job'[p].at = "idle"
              /\ job'[p].cur = NoCluster /\ job'[p].todo = {}
           \/ /\ job'[p].op = "create" /\ job'[p].at = "provision"
              /\ job'[p].cur = NoCluster /\ job'[p].todo = job[p].todo
    BY <1>3, <2>1, SharedShapes DEF Ends, Becomes
  <2>4. OwnNames'
    BY <2>1, <2>2, <2>3, StartedFields DEF OwnNames, OthersKeep, At
  <2>5. ASSUME NEW d \in Clusters, ToLabel(d)' PROVE ToLabel(d) /\ d # c
    <3>1. ToLabel(d)
      BY <2>1, <2>2, <2>3, <2>5, StartedFields DEF ToLabel, OthersKeep, At
    <3>2. \A q \in Callers : (job'[q].op = "create" \/ At(q, "label")') => q = p
      BY <2>1, <2>3 DEF OwnNames, OthersKeep, At
    <3>3. \A g \in Spare : ~(At(g, "label")' /\ job'[g].cur = c) /\ job'[g].op # "create"
      BY <2>1, <2>4 DEF OwnNames, At, Idle, Job
    <3>4. "create" \in called'
      BY <2>1, <2>2 DEF OwnNames
    <3> QED BY <2>1, <2>3, <2>5, <3>1, <3>2, <3>3, <3>4 DEF ToLabel, At
  <2>6. LabelledOnce'
    <3>1. \A q \in Callers \ {p} : job'[q] = job[q]
      BY <2>3 DEF OthersKeep
    <3>2. job'[p].op # "create" => job'[p].cur \notin Clusters /\ job'[p].todo = {}
      BY <2>3
    <3> QED BY <2>2, <2>5, <3>1, <3>2 DEF LabelledOnce
  <2> QED BY <2>4, <2>6
<1>4. CASE Fail(p) \/ Crash(p)
  BY <1>4, <1>e, SharedShapes DEF Fail, Crash, hubVars
<1> QED
  BY <1>1, <1>2, <1>3, <1>4 DEF SharedStep

\* A goroutine has not started, has ended, or works on its own name.
LEMMA OwnName ==
  ASSUME OwnNames, NEW g \in Spare, job[g].at \notin {"idle", "done"}
  PROVE  job[g].op = "replenish" /\ job[g].cur = g /\ job[g].todo = {}
  BY DEF OwnNames, At, Idle, Job

\* The steps of a replenish goroutine.
LEMMA GoroutineNamesStep ==
  ASSUME TypeOK, OwnNames, LabelledOnce, NEW g \in Spare,
         Load(g) \/ SharedStep(g) \/ Fail(g) \/ Crash(g)
  PROVE  OwnNames' /\ LabelledOnce'
<1> USE ManualPoolAssumption DEF TypeOK
<1>e. ASSUME Ends(g), UNCHANGED <<pooled, claimed, called>>
      PROVE  OwnNames' /\ LabelledOnce'
  BY <1>e, GoroutineNames DEF Ends, Becomes, At
<1>1. CASE Load(g) \/ Hibernate(g) \/ Await(g) \/ Fail(g) \/ Crash(g)
  <2>1. UNCHANGED <<pooled, claimed, called>>
    BY <1>1 DEF Load, Hibernate, Await, Fail, Crash, hubVars
  <2>2. CASE Ends(g)
    BY <2>1, <2>2, <1>e
  <2>3. CASE ~ Ends(g)
    <3>1. /\ job[g].at \in {"load", "hibernate", "await"}
          /\ At(g, "load") \/ Hibernate(g) \/ Await(g)
      BY <1>1, <2>3, SharedShapes DEF Load, Hibernate, Await, At
    <3>2. job[g].op = "replenish" /\ job[g].cur = g /\ job[g].todo = {}
      BY <3>1, OwnName
    <3>3. \/ Becomes(g, "replenish", "hibernate", g, {})
          \/ At(g, "load") /\ Becomes(g, "replenish", "provision", g, {})
      BY <1>1, <2>3, <3>2, SharedShapes DEF Load
    <3> QED BY <2>1, <3>3, GoroutineNames DEF Becomes, At, ToLabel
  <2> QED BY <2>2, <2>3
<1>2. CASE Provision(g)
  <2>1. At(g, "provision") /\ UNCHANGED <<pooled, claimed, called>>
    BY <1>2 DEF Provision
  <2>2. Becomes(g, "replenish", "label", g, {}) /\ ToLabel(g)
    <3>1. job[g].op = "replenish" /\ job[g].todo = {}
      BY <2>1, OwnName DEF At
    <3>2. Becomes(g, job[g].op, "label", g, job[g].todo \ {g})
      BY <1>2, SharedShapes
    <3>3. job[g].todo \ {g} = {}
      BY <3>1
    <3> QED BY <2>1, <3>1, <3>2, <3>3 DEF At, ToLabel
  <2> QED BY <2>1, <2>2, GoroutineNames DEF Becomes, At
<1>3. CASE Label(g)
  <2>1. /\ At(g, "label") /\ job[g].op = "replenish" /\ job[g].cur = g /\ job[g].todo = {}
        /\ ToLabel(g) /\ g \notin claimed
    BY <1>3, OwnName DEF Label, ToLabel, LabelledOnce, At
  <2>2. UNCHANGED <<claimed, called>> /\ pooled' = pooled \cup {g}
    BY <1>3, <2>1 DEF Label
  <2>3. /\ OthersKeep(g)
        /\ \/ job'[g].op = "none" /\ job'[g].at = "done"
           \/ job'[g].op = "replenish" /\ job'[g].at = "await" /\ job'[g].cur = g
        /\ job'[g].todo = {}
    BY <1>3, <2>1, SharedShapes DEF Ends, Becomes
  <2>q. \A p \in Callers : job'[p] = job[p]
    BY <2>3 DEF OthersKeep
  <2>4. OwnNames'
    BY <2>2, <2>3, <2>q, StartedFields DEF OwnNames, OthersKeep, At
  <2>5. ASSUME NEW d \in Clusters, ToLabel(d)' PROVE ToLabel(d) /\ d # g
    <3>2. \A h \in Spare \ {g} : job'[h] = job[h] \/ (At(h, "idle") /\ At(h, "load")' /\ job'[h].op = "replenish")
      BY <2>3, StartedFields DEF OthersKeep, At
    <3>3. ToLabel(d)
      BY <2>2, <2>3, <2>5, <2>q, <3>2 DEF ToLabel, At
    <3>4. \A p \in Callers : (At(p, "label") => job[p].cur # g) /\ (job[p].op = "create" => g \notin job[p].todo)
      BY DEF OwnNames, At
    <3>5. \A h \in Spare : (At(h, "label")' /\ job'[h].cur = g => h = g) /\ job'[h].op # "create"
      BY <2>4 DEF OwnNames, At, Idle, Job
    <3> QED BY <2>3, <2>5, <2>q, <3>3, <3>4, <3>5 DEF ToLabel, At
  <2>6. LabelledOnce'
    BY <2>2, <2>3, <2>5, <2>q DEF LabelledOnce
  <2> QED BY <2>4, <2>6
<1> QED
  BY <1>1, <1>2, <1>3 DEF SharedStep

\* Whatever fails, replies that are lost included.
LEMMA NamesStep ==
  ASSUME TypeOK, OwnNames, LabelledOnce, HandedOut, "create" \notin Retried, Next
  PROVE  OwnNames' /\ LabelledOnce'
<1>1. CASE Hive
  <2>1. UNCHANGED <<pooled, claimed, job, called>>
    BY <1>1 DEF Hive, Install, SpecInstall, StatusWrite, hubVars
  <2> QED BY <2>1 DEF OwnNames, LabelledOnce, ToLabel, At
<1> QED
  BY <1>1, CallerNamesStep, CallerSharedNames, GoroutineNamesStep DEF Next, Progress, Fault

-----------------------------------------------------------------------------
(* ExclusiveClaim.  A claim is safe because its patch lands on a cluster that
   nobody holds (HeldIsClaimed).  This needs besides that no reply is lost. *)

\* A step that hands nothing out and takes nothing back.
LEMMA SameHolds ==
  ASSUME TypeOK, LabelledOnce, HeldIsClaimed, ExclusiveClaim, NEW p \in Procs, OthersKeep(p),
         holds' = holds, claimed' = claimed, fresh' \ {p} \subseteq fresh,
         \A c \in exists' \ exists : ToLabel(c),
         p \in Callers => HoldOK(p)'
  PROVE  HeldIsClaimed' /\ ExclusiveClaim'
<1> USE ManualPoolAssumption DEF TypeOK
<1>1. ExclusiveClaim'
  BY DEF ExclusiveClaim
<1>2. ASSUME NEW q \in Callers, q # p PROVE HoldOK(q)'
  <2>1. job'[q] = job[q]
    BY <1>2 DEF OthersKeep
  <2>2. job[q].op = "release" => job[q].cur \in holds[q] \cup (Clusters \ exists')
    BY DEF HeldIsClaimed, HoldOK, LabelledOnce
  <2> QED BY <1>2, <2>1, <2>2 DEF HeldIsClaimed, HoldOK, At
<1>3. QED
  BY <1>1, <1>2 DEF HeldIsClaimed

\* The steps of a caller, other than the ones it shares with the goroutines.
LEMMA CallerStep ==
  ASSUME ClaimInv, NEW p \in Callers, Start(p) \/ ClaimStep(p) \/ DeleteStep(p) \/ Unclaim(p)
  PROVE  HeldIsClaimed' /\ ExclusiveClaim'
<1> USE ManualPoolAssumption DEF TypeOK, ClaimInv
<1>p. At(p, "patch") \/ At(p, "scan") \/ At(p, "destroy") => job[p].op # "release"
  BY DEF HeldIsClaimed, HoldOK, At
<1>1. CASE Start(p)
  <2>1. UNCHANGED <<exists, claimed, fresh, holds>>
    BY <1>1 DEF Start, StartClaim, StartCreate, StartWait, StartDelete, StartRelease, hubVars
  <2>2. /\ OthersKeep(p) /\ job'[p].at \notin {"patch", "unclaim"}
        /\ \/ job'[p].op # "release"
           \/ /\ job'[p].op = "release" /\ job'[p].at = "hibernate"
              /\ job'[p].cur \in holds[p]
    BY <1>1, StartShapes DEF Start, StartRelease, Becomes
  <2>3. HoldOK(p)'
    BY <2>1, <2>2 DEF HeldIsClaimed, HoldOK, At
  <2> QED BY <2>1, <2>2, <2>3, SameHolds
<1>2. ASSUME NEW c \in Clusters, ClaimSkip(p, c)
      PROVE  HeldIsClaimed' /\ ExclusiveClaim'
  <2>1. Becomes(p, job[p].op, "scan", job[p].cur, job[p].todo \ {c}) /\ job[p].op # "release"
    <3>1. At(p, "scan") /\ job[p].at = "scan"
      BY <1>2 DEF ClaimSkip, At
    <3>2. Becomes(p, job[p].op, job[p].at, job[p].cur, job[p].todo \ {c})
      BY <1>2, CallerShapes
    <3> QED BY <3>1, <3>2, <1>p
  <2>2. UNCHANGED <<exists, claimed, fresh, holds>>
    BY <1>2 DEF ClaimSkip, hubVars
  <2>3. HoldOK(p)'
    BY <2>1, <2>2 DEF Becomes, At, HeldIsClaimed, HoldOK
  <2> QED BY <2>1, <2>2, <2>3, SameHolds DEF Becomes
<1>3. ASSUME NEW c \in Clusters, ClaimRead(p, c)
      PROVE  HeldIsClaimed' /\ ExclusiveClaim'
  <2>1. /\ Becomes(p, job[p].op, "patch", c, job[p].todo \ {c})
        /\ job[p].op # "release" /\ c \notin claimed
    BY <1>3, <1>p, CallerShapes DEF ClaimRead, Claimable
  <2>2. UNCHANGED <<exists, claimed, holds>> /\ fresh' = fresh \cup {p}
    BY <1>3 DEF ClaimRead, hubVars
  <2>3. HoldOK(p)'
    BY <2>1, <2>2 DEF Becomes, At, HeldIsClaimed, HoldOK
  <2> QED BY <2>1, <2>2, <2>3, SameHolds DEF Becomes
<1>4. CASE TryAtomicClaim(p)
  <2> DEFINE c == job[p].cur
  <2>1. Becomes(p, job[p].op, "resume", c, job[p].todo) /\ job[p].op # "release"
    BY <1>4, <1>p, CallerShapes DEF TryAtomicClaim
  <2>2. c \in exists /\ p \in fresh /\ c \notin claimed
    BY <1>4 DEF TryAtomicClaim, CanClaim, HeldIsClaimed, HoldOK
  <2>3. ExclusiveClaim'
    BY <1>4, <2>2 DEF TryAtomicClaim, ExclusiveClaim, HeldIsClaimed, HoldOK
  <2>4. HoldOK(p)'
    BY <1>4, <2>1, <2>2 DEF TryAtomicClaim, Becomes, HeldIsClaimed, HoldOK, At
  <2>5. ASSUME NEW q \in Callers, q # p PROVE HoldOK(q)'
    <3>1. job'[q] = job[q] /\ holds'[q] = holds[q]
      BY <1>4, <2>1, <2>5 DEF TryAtomicClaim, Becomes, OthersKeep
    <3>2. claimed' = claimed \cup {c} /\ exists' = exists /\ fresh' = {r \in fresh : job[r].cur # c}
      BY <1>4 DEF TryAtomicClaim, Written
    <3> QED BY <3>1, <3>2 DEF HeldIsClaimed, HoldOK, At
  <2> QED BY <2>3, <2>4, <2>5 DEF HeldIsClaimed
<1>5. CASE ClaimConflict(p)
  <2>1. Becomes(p, job[p].op, "scan", NoCluster, job[p].todo) /\ job[p].op # "release"
    BY <1>5, <1>p, CallerShapes DEF ClaimConflict
  <2>2. UNCHANGED <<exists, claimed, holds>> /\ fresh' = fresh \ {p}
    BY <1>5 DEF ClaimConflict, hubVars
  <2>3. HoldOK(p)'
    BY <2>1, <2>2 DEF Becomes, At, HeldIsClaimed, HoldOK
  <2> QED BY <2>1, <2>2, <2>3, SameHolds DEF Becomes
<1>6. CASE Resume(p) \/ ClaimNone(p) \/ DropConfig(p)
  <2>1. UNCHANGED <<exists, claimed, holds>> /\ fresh' \subseteq fresh
    BY <1>6 DEF Resume, ClaimNone, DropConfig, Written, hubVars
  <2>2. Ends(p)
    BY <1>6, CallerShapes
  <2>3. HoldOK(p)'
    BY <2>1, <2>2 DEF Ends, Becomes, At, HeldIsClaimed, HoldOK
  <2> QED BY <2>1, <2>2, <2>3, SameHolds DEF Ends, Becomes
<1>7. ASSUME NEW c \in Clusters, Destroy(p, c)
      PROVE  HeldIsClaimed' /\ ExclusiveClaim'
  <2>1. Becomes(p, job[p].op, "destroy", job[p].cur, job[p].todo \ {c}) /\ job[p].op # "release"
    <3>1. At(p, "destroy") /\ job[p].at = "destroy"
      BY <1>7 DEF Destroy, At
    <3>2. Becomes(p, job[p].op, job[p].at, job[p].cur, job[p].todo \ {c})
      BY <1>7, CallerShapes
    <3> QED BY <3>1, <3>2, <1>p
  <2>2. CASE UNCHANGED <<exists, claimed, fresh, holds>>
    <3>1. HoldOK(p)'
      BY <2>1, <2>2 DEF Becomes, At, HeldIsClaimed, HoldOK
    <3> QED BY <2>1, <2>2, <3>1, SameHolds DEF Becomes
  <2>3. CASE /\ exists' = exists \ {c} /\ claimed' = claimed \ {c} /\ fresh' \subseteq fresh
             /\ holds' = [q \in Callers |-> holds[q] \ {c}]
    <3>1. ExclusiveClaim'
      BY <2>3 DEF ExclusiveClaim
    <3>2. HoldOK(p)'
      BY <2>1, <2>3 DEF Becomes, At, HeldIsClaimed, HoldOK
    <3>3. ASSUME NEW q \in Callers, q # p PROVE HoldOK(q)'
      <4>1. job'[q] = job[q] /\ holds'[q] = holds[q] \ {c}
        BY <2>1, <2>3, <3>3 DEF Becomes, OthersKeep
      <4> QED BY <2>3, <4>1 DEF At, HeldIsClaimed, HoldOK
    <3> QED BY <3>1, <3>2, <3>3 DEF HeldIsClaimed
  <2> QED BY <1>7, <2>2, <2>3 DEF Destroy, Written
<1>8. CASE Unclaim(p)
  <2> DEFINE c == job[p].cur
  <2>1. Ends(p)
    BY <1>8, CallerShapes
  <2>2. c \in holds[p]
    BY <1>8 DEF Unclaim, Patchable, HeldIsClaimed, HoldOK
  <2>3. ExclusiveClaim'
    BY <1>8 DEF Unclaim, ExclusiveClaim
  <2>4. HoldOK(p)'
    BY <1>8, <2>1 DEF Unclaim, Ends, Becomes, At, HeldIsClaimed, HoldOK
  <2>5. ASSUME NEW q \in Callers, q # p PROVE HoldOK(q)'
    <3>1. job'[q] = job[q] /\ holds'[q] = holds[q] /\ c \notin holds[q]
      BY <1>8, <2>1, <2>2, <2>5 DEF Unclaim, Ends, Becomes, OthersKeep, ExclusiveClaim
    <3>2. claimed' = claimed \ {c} /\ exists' = exists /\ fresh' \subseteq fresh
      BY <1>8 DEF Unclaim, Written
    <3> QED BY <3>1, <3>2 DEF HeldIsClaimed, HoldOK, At
  <2> QED BY <2>3, <2>4, <2>5 DEF HeldIsClaimed
<1> QED
  BY <1>1, <1>2, <1>3, <1>4, <1>5, <1>6, <1>7, <1>8 DEF ClaimStep, DeleteStep

\* The steps of goroutines, and a caller's share of them.
LEMMA SharedHolds ==
  ASSUME ClaimInv, NEW p \in Procs, (p \in Spare /\ Load(p)) \/ SharedStep(p) \/ Fail(p) \/ Crash(p)
  PROVE  HeldIsClaimed' /\ ExclusiveClaim'
<1> USE ManualPoolAssumption DEF TypeOK, ClaimInv
<1>e. ASSUME Ends(p), UNCHANGED <<exists, claimed, holds>>, fresh' \subseteq fresh
      PROVE  HeldIsClaimed' /\ ExclusiveClaim'
  <2>1. p \in Callers => HoldOK(p)'
    BY <1>e DEF Ends, Becomes, At, HeldIsClaimed, HoldOK
  <2> QED BY <1>e, <2>1, SameHolds DEF Ends, Becomes
<1>1. CASE Hibernate(p)
  <2>1. UNCHANGED <<exists, claimed, holds>> /\ fresh' \subseteq fresh /\ At(p, "hibernate")
    BY <1>1 DEF Hibernate, Written
  <2>2. CASE job[p].op = "release" /\ Becomes(p, "release", "unclaim", job[p].cur, job[p].todo)
    <3>1. p \in Callers => HoldOK(p)'
      BY <2>1, <2>2 DEF Becomes, At, HeldIsClaimed, HoldOK
    <3> QED BY <2>1, <2>2, <3>1, SameHolds DEF Becomes
  <2>3. ASSUME NEW c \in job[p].todo, Becomes(p, "wait", "await", c, job[p].todo \ {c})
        PROVE  HeldIsClaimed' /\ ExclusiveClaim'
    <3>1. p \in Callers => HoldOK(p)'
      BY <2>1, <2>3 DEF Becomes, At, HeldIsClaimed, HoldOK
    <3> QED BY <2>1, <2>3, <3>1, SameHolds DEF Becomes
  <2> QED BY <1>1, <1>e, <2>1, <2>2, <2>3, SharedShapes
<1>2. CASE Provision(p)
  <2>1. PICK c \in IF p \in Spare THEN {p} ELSE job[p].todo :
          exists' = exists \cup {c} /\ Becomes(p, job[p].op, "label", c, job[p].todo \ {c})
    BY <1>2, SharedShapes
  <2>2. /\ UNCHANGED <<claimed, fresh, holds>> /\ At(p, "provision") /\ ToLabel(c)
        /\ p \in Callers => job[p].op = "create"
    BY <1>2, <2>1 DEF Provision, OwnNames, ToLabel, At
  <2>3. p \in Callers => HoldOK(p)'
    BY <2>1, <2>2 DEF Becomes, At, HeldIsClaimed, HoldOK
  <2> QED BY <2>1, <2>2, <2>3, SameHolds DEF Becomes
<1>3. CASE Label(p)
  <2>1. /\ UNCHANGED <<exists, holds>> /\ claimed' = claimed \ {job[p].cur}
        /\ fresh' \subseteq fresh /\ At(p, "label") /\ job[p].cur \in exists
    BY <1>3 DEF Label, Written, Patchable
  <2>2. job[p].cur \notin claimed
    BY <2>1 DEF LabelledOnce, ToLabel
  <2>3. claimed' = claimed
    BY <2>1, <2>2
  <2>4. p \in Callers => job[p].op = "create"
    BY <2>1 DEF OwnNames
  <2>5. CASE Becomes(p, job[p].op, "await", job[p].cur, job[p].todo) /\ p \in Spare
    BY <2>1, <2>3, <2>5, SameHolds DEF Becomes
  <2>6. CASE Becomes(p, job[p].op, "provision", NoCluster, job[p].todo) /\ p \in Callers
    <3>1. HoldOK(p)'
      BY <2>1, <2>3, <2>4, <2>6 DEF Becomes, At, HeldIsClaimed, HoldOK
    <3> QED BY <2>1, <2>3, <2>6, <3>1, SameHolds DEF Becomes
  <2> QED BY <1>3, <1>e, <2>1, <2>3, <2>5, <2>6, SharedShapes
<1>4. CASE Await(p)
  <2>1. /\ Becomes(p, job[p].op, "hibernate", job[p].cur, job[p].todo)
        /\ UNCHANGED <<exists, claimed, fresh, holds>> /\ At(p, "await")
    BY <1>4, SharedShapes DEF Await, hubVars
  <2>2. p \in Callers => HoldOK(p)'
    BY <2>1 DEF Becomes, At, HeldIsClaimed, HoldOK
  <2> QED BY <2>1, <2>2, SameHolds DEF Becomes
<1>5. CASE p \in Spare /\ Load(p)
  <2>1. UNCHANGED <<exists, claimed, fresh, holds>>
    BY <1>5 DEF Load, hubVars
  <2>2. OthersKeep(p) /\ p \notin Callers
    BY <1>5, SharedShapes DEF Ends, Becomes
  <2> QED BY <2>1, <2>2, SameHolds
<1>6. CASE Fail(p)
  BY <1>6, <1>e, SharedShapes DEF Fail, hubVars
<1>7. CASE Crash(p)
  <2>1. Ends(p) /\ UNCHANGED <<exists, claimed>> /\ fresh' \subseteq fresh
    BY <1>7, SharedShapes DEF Crash, hubVars
  <2>2. \A q \in Callers : holds'[q] \subseteq holds[q] /\ (q # p => holds'[q] = holds[q])
    BY <1>7 DEF Crash
  <2>3. ExclusiveClaim'
    BY <2>2 DEF ExclusiveClaim
  <2>4. ASSUME NEW q \in Callers PROVE HoldOK(q)'
    <3>1. CASE q = p
      BY <2>1, <2>2, <3>1 DEF Ends, Becomes, At, HeldIsClaimed, HoldOK
    <3>2. CASE q # p
      <4>1. job'[q] = job[q]
        BY <2>1, <3>2 DEF Ends, Becomes, OthersKeep
      <4> QED BY <2>1, <2>2, <3>2, <4>1 DEF At, HeldIsClaimed, HoldOK
    <3> QED BY <3>1, <3>2
  <2> QED BY <2>3, <2>4 DEF HeldIsClaimed
<1> QED
  BY <1>1, <1>2, <1>3, <1>4, <1>5, <1>6, <1>7 DEF SharedStep

\* Hive's writes only move resourceVersions and installs.
LEMMA HiveHolds ==
  ASSUME ClaimInv, Hive
  PROVE  HeldIsClaimed' /\ ExclusiveClaim'
<1>1. UNCHANGED <<exists, claimed, job, holds>> /\ fresh' \subseteq fresh
  BY DEF Hive, Install, SpecInstall, StatusWrite, Written, hubVars
<1> QED BY <1>1 DEF ClaimInv, HeldIsClaimed, HoldOK, ExclusiveClaim, At

LEMMA ClaimInitially == Init => ClaimInv
<1> SUFFICES ASSUME Init PROVE ClaimInv
  OBVIOUS
<1>0. Idle.op = "none" /\ Idle.at = "idle" /\ Idle.cur = NoCluster /\ Idle.todo = {} /\ Idle \in Jobs
  BY DEF Jobs, Idle, Job, Ops, Places
<1>1. TypeOK
  BY <1>0 DEF Init, TypeOK
<1>2. OwnNames /\ LabelledOnce /\ ExclusiveClaim
  BY <1>0, ManualPoolAssumption DEF Init, OwnNames, LabelledOnce, ExclusiveClaim, At
<1>3. HeldIsClaimed
  BY <1>0 DEF Init, HeldIsClaimed, HoldOK, At
<1> QED BY <1>1, <1>2, <1>3 DEF ClaimInv

LEMMA ClaimStutters == ClaimInv /\ UNCHANGED vars => ClaimInv'
  BY DEF vars, ClaimInv, TypeOK, OwnNames, LabelledOnce, HeldIsClaimed, HoldOK,
         ExclusiveClaim, ToLabel, At

\* The inductive invariant: whoever holds a cluster shows in its labels, and what
\* is still to be labelled was never handed out.
THEOREM ClaimInvariant ==
  ASSUME "lost" \notin Faults, "create" \notin Retried
  PROVE  Spec => []ClaimInv
<1>1. ClaimInv /\ Next => ClaimInv'
  <2> SUFFICES ASSUME ClaimInv, Next PROVE ClaimInv'
    OBVIOUS
  <2>1. TypeOK'
    BY TypeStep DEF ClaimInv
  <2>2. HandedOut
    BY DEF ClaimInv, TypeOK, LabelledOnce, HeldIsClaimed, HoldOK, HandedOut
  <2>3. OwnNames' /\ LabelledOnce'
    BY <2>2, NamesStep DEF ClaimInv
  <2>4. HeldIsClaimed' /\ ExclusiveClaim'
    BY CallerStep, SharedHolds, HiveHolds
    DEF Next, Progress, Fault, LoseClaimReply, LoseReleaseReply
  <2> QED BY <2>1, <2>3, <2>4 DEF ClaimInv
<1>2. QED
  BY <1>1, ClaimInitially, ClaimStutters, PTL DEF Spec

\* Claims, releases, waits, replenishments and deletes, in any interleaving and
\* with errors and crashes anywhere, never hand a cluster to two callers,
\* provided no reply is lost and CreateManualPool is called once.
THEOREM ClaimsExclusive ==
  ASSUME "lost" \notin Faults, "create" \notin Retried
  PROVE  Spec => []ExclusiveClaim
<1>1. Spec => []ClaimInv
  BY ClaimInvariant
<1>2. ClaimInv => ExclusiveClaim
  BY DEF ClaimInv
<1>3. QED
  BY <1>1, <1>2, PTL
=============================================================================
