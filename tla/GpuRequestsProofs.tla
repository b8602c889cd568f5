-------------------------- MODULE GpuRequestsProofs --------------------------
(***************************************************************************)
(* Proofs about GpuRequests for any ids, clusters, callers and faults: the *)
(* inductive invariant GrantInv, and that every step is a step of          *)
(* RequestLifecycle or a stutter.                                          *)
(***************************************************************************)
EXTENDS GpuRequests, TLAPS

\* Fields of a call that has started to route.
LEMMA RouteJobs ==
  ASSUME TypeOK, NEW p \in Callers, NEW id \in Ids, NEW r \in BOOLEAN, Route(p, id, r)
  PROVE  /\ job' \in [Callers -> Jobs]
         /\ \A q \in Callers \ {p} : job'[q] = job[q]
         /\ job'[p].id = id /\ job'[p].out = "none"
<1>1. Fresh("place", id, r) \in Jobs
  BY DEF Fresh, Jobs, Places, Outs
<1> QED
  BY <1>1 DEF Route, TypeOK, Fresh

\* A step that sets the place, the outcome and the pick of a call.
Sets(p, l, o, c) == job' = [job EXCEPT ![p].at = l, ![p].out = o, ![p].pick = c]

\* The record written by a step that sets the place, the outcome and the pick.
LEMMA SetJob ==
  ASSUME TypeOK, NEW p \in Callers, NEW l \in Places, NEW o \in Outs,
         NEW c \in Clusters \cup {NoCluster},
         Sets(p, l, o, c)
  PROVE  /\ job' \in [Callers -> Jobs]
         /\ \A q \in Callers \ {p} : job'[q] = job[q]
         /\ job'[p].at = l /\ job'[p].id = job[p].id /\ job'[p].out = o /\ job'[p].pick = c
<1>1. job[p] \in Jobs
  BY DEF TypeOK
<1>2. job'[p] = [at |-> l, retry |-> job[p].retry, id |-> job[p].id, out |-> o, pick |-> c,
                 expired |-> job[p].expired, cancelled |-> job[p].cancelled]
  BY <1>1 DEF Sets, TypeOK, Jobs
<1>3. job'[p] \in Jobs
  BY <1>1, <1>2 DEF Jobs
<1> QED
  BY <1>2, <1>3 DEF Sets, TypeOK

\* A returning call leaves an idle caller.
LEMMA ReturnJob ==
  ASSUME TypeOK, NEW p \in Callers, Return(p)
  PROVE  /\ job' \in [Callers -> Jobs]
         /\ \A q \in Callers \ {p} : job'[q] = job[q]
         /\ job'[p].at = "idle"
<1>1. Idle \in Jobs
  BY DEF Idle, Fresh, Jobs, Places, Outs
<1> QED
  BY <1>1 DEF Return, TypeOK, Idle, Fresh

\* A call's routing only moves between places: the requests and the answers
\* given so far are as they were.
Routing(p) ==
  \/ CreatePlacement(p) \/ CreateFails(p) \/ ReadDecision(p) \/ PollEnds(p) \/ Cleanup(p)
  \/ Decide(p) \/ Expire(p) \/ CancelContext(p)

\* Routing leaves the requests alone and keeps the types.
LEMMA RoutingKeeps ==
  ASSUME TypeOK, RoutedOK, NEW p \in Callers, Routing(p)
  PROVE  /\ UNCHANGED <<state, cluster, reason, granted>>
         /\ TypeOK' /\ RoutedOK'
<1>p. {"poll", "settle", "cleanup"} \subseteq Places /\ {"none", "error", "pending", "nomatch", "found"} \subseteq Outs
  BY DEF Places, Outs
<1>0. job \in [Callers -> Jobs] /\ job[p] \in Jobs
  BY DEF TypeOK
<1>1. CASE CreatePlacement(p)
  <2>1. Sets(p, "poll", job[p].out, job[p].pick)
    BY <1>0, <1>1 DEF CreatePlacement, Jobs, Sets
  <2>2. job[p].out \in Outs /\ job[p].pick \in Clusters \cup {NoCluster}
    BY <1>0 DEF Jobs
  <2>3. /\ job' \in [Callers -> Jobs]
        /\ \A q \in Callers \ {p} : job'[q] = job[q]
        /\ job'[p].id = job[p].id /\ job'[p].out = job[p].out /\ job'[p].pick = job[p].pick
    BY <1>p, <2>1, <2>2, SetJob
  <2> QED
    BY <1>1, <2>3 DEF CreatePlacement, TypeOK, RoutedOK, reqVars, At
<1>2. CASE CreateFails(p)
  <2>1. Sets(p, "settle", "error", job[p].pick)
    BY <1>0, <1>2 DEF CreateFails, Jobs, Sets
  <2>2. job[p].pick \in Clusters \cup {NoCluster}
    BY <1>0 DEF Jobs
  <2>3. /\ job' \in [Callers -> Jobs]
        /\ \A q \in Callers \ {p} : job'[q] = job[q]
        /\ job'[p].id = job[p].id /\ job'[p].out = "error"
    BY <1>p, <2>1, <2>2, SetJob
  <2> QED
    BY <1>2, <2>3 DEF CreateFails, TypeOK, RoutedOK, reqVars, At
<1>3. ASSUME NEW o \in Outs, NEW c \in Clusters \cup {NoCluster},
             Conclude(p, o, c), At(p, "poll"), o = "found" => c \in Clusters
      PROVE  UNCHANGED <<state, cluster, reason, granted>> /\ TypeOK' /\ RoutedOK'
  <2>3. /\ job' \in [Callers -> Jobs]
        /\ \A q \in Callers \ {p} : job'[q] = job[q]
        /\ job'[p].id = job[p].id /\ job'[p].out = o /\ job'[p].pick = c
    <3>1. Sets(p, "cleanup", o, c)
      BY <1>3 DEF Conclude, Sets
    <3> QED
      BY <1>p, <3>1, SetJob
  <2>4. decision' \in [Callers -> [made : BOOLEAN, clusters : SUBSET Clusters]]
    BY <1>3 DEF Conclude, TypeOK, Undecided
  <2> QED
    BY <1>3, <2>3, <2>4 DEF Conclude, TypeOK, RoutedOK, reqVars, At
<1>4. CASE ReadDecision(p)
  <2>1. decision[p].clusters \subseteq Clusters
    BY DEF TypeOK
  <2> QED
    BY <1>p, <1>3, <1>4, <2>1 DEF ReadDecision
<1>5. CASE PollEnds(p)
  BY <1>p, <1>3, <1>5 DEF PollEnds
<1>6. CASE Cleanup(p)
  <2>1. Sets(p, "settle", job[p].out, job[p].pick)
    BY <1>0, <1>6 DEF Cleanup, Jobs, Sets
  <2>2. job[p].out \in Outs /\ job[p].pick \in Clusters \cup {NoCluster}
    BY <1>0 DEF Jobs
  <2>3. /\ job' \in [Callers -> Jobs]
        /\ \A q \in Callers \ {p} : job'[q] = job[q]
        /\ job'[p].id = job[p].id /\ job'[p].out = job[p].out /\ job'[p].pick = job[p].pick
    BY <1>p, <2>1, <2>2, SetJob
  <2> QED
    BY <1>6, <2>3 DEF Cleanup, TypeOK, RoutedOK, reqVars, At
<1>7. CASE Decide(p)
  <2>1. decision' \in [Callers -> [made : BOOLEAN, clusters : SUBSET Clusters]]
    BY <1>7 DEF Decide, TypeOK
  <2> QED
    BY <1>7, <2>1 DEF Decide, TypeOK, RoutedOK, reqVars
<1>8. CASE Expire(p) \/ CancelContext(p)
  <2>0. PICK e \in BOOLEAN, x \in BOOLEAN :
          job' = [job EXCEPT ![p] = [at |-> job[p].at, retry |-> job[p].retry, id |-> job[p].id,
                    out |-> job[p].out, pick |-> job[p].pick, expired |-> e, cancelled |-> x]]
    <3>1. CASE Expire(p)
      <4>1. job'[p] = [at |-> job[p].at, retry |-> job[p].retry, id |-> job[p].id, out |-> job[p].out,
                       pick |-> job[p].pick, expired |-> TRUE, cancelled |-> job[p].cancelled]
        BY <1>0, <3>1 DEF Expire, Jobs
      <4>2. job' = [job EXCEPT ![p] = job'[p]] /\ job[p].cancelled \in BOOLEAN
        BY <1>0, <3>1 DEF Expire, Jobs
      <4> QED
        BY <4>1, <4>2
    <3>2. CASE CancelContext(p)
      <4>1. job'[p] = [at |-> job[p].at, retry |-> job[p].retry, id |-> job[p].id, out |-> job[p].out,
                       pick |-> job[p].pick, expired |-> job[p].expired, cancelled |-> TRUE]
        BY <1>0, <3>2 DEF CancelContext, Jobs
      <4>2. job' = [job EXCEPT ![p] = job'[p]] /\ job[p].expired \in BOOLEAN
        BY <1>0, <3>2 DEF CancelContext, Jobs
      <4> QED
        BY <4>1, <4>2
    <3> QED
      BY <1>8, <3>1, <3>2
  <2>1. /\ job' \in [Callers -> Jobs]
        /\ \A q \in Callers : /\ job'[q].at = job[q].at /\ job'[q].id = job[q].id
                              /\ job'[q].out = job[q].out /\ job'[q].pick = job[q].pick
    BY <1>0, <2>0 DEF Jobs
  <2> QED
    BY <1>8, <2>1 DEF Expire, CancelContext, TypeOK, RoutedOK, reqVars, routeVars
<1> QED
  BY <1>1, <1>2, <1>4, <1>5, <1>6, <1>7, <1>8 DEF Routing

\* No caller holds an answer about a request that is absent or pending.
LEMMA NotGranted ==
  ASSUME GrantStands, TypeOK, NEW id \in Ids, state[id] \in {"Absent", "Pending"}
  PROVE  \A g \in granted : g.id # id
BY DEF GrantStands, States

\* Every step keeps the inductive invariant.
LEMMA GrantStep ==
  ASSUME GrantInv, [Next]_vars
  PROVE  GrantInv'
<1> USE DEF GrantInv
<1>0. CASE UNCHANGED vars
  BY <1>0 DEF vars, TypeOK, RoutedOK, AbsentUnset, AdmittedOnce, GrantStands
<1>1. ASSUME NEW p \in Callers, NEW id \in Ids, SubmitRequest(p, id) PROVE GrantInv'
  <2>1. state[id] = "Absent" /\ state' = [state EXCEPT ![id] = "Pending"]
    BY <1>1 DEF SubmitRequest, MaySubmit
  <2>2. /\ job' \in [Callers -> Jobs]
        /\ \A q \in Callers \ {p} : job'[q] = job[q]
        /\ job'[p].id = id /\ job'[p].out = "none"
    BY <1>1, RouteJobs DEF SubmitRequest
  <2>3. TypeOK'
    BY <1>1, <2>1, <2>2 DEF SubmitRequest, TypeOK, States, Reasons, routeVars
  <2>4. RoutedOK'
    BY <2>1, <2>2 DEF TypeOK, RoutedOK
  <2>5. AbsentUnset'
    BY <1>1, <2>1 DEF SubmitRequest, AbsentUnset, TypeOK
  <2>6. AdmittedOnce'
    BY <1>1 DEF SubmitRequest, AdmittedOnce
  <2>7. GrantStands'
    BY <1>1, <2>1, NotGranted DEF SubmitRequest, GrantStands, TypeOK, States, Grants
  <2> QED
    BY <2>3, <2>4, <2>5, <2>6, <2>7
<1>2. ASSUME NEW p \in Callers, NEW id \in Ids, RetryRequest(p, id) PROVE GrantInv'
  <2>1. /\ job' \in [Callers -> Jobs]
        /\ \A q \in Callers \ {p} : job'[q] = job[q]
        /\ job'[p].id = id /\ job'[p].out = "none"
    BY <1>2, RouteJobs DEF RetryRequest
  <2> QED
    BY <1>2, <2>1 DEF RetryRequest, reqVars, routeVars, TypeOK, RoutedOK, AbsentUnset,
                      AdmittedOnce, GrantStands
<1>3. ASSUME NEW p \in Callers, Routing(p) PROVE GrantInv'
  BY <1>3, RoutingKeeps DEF AbsentUnset, AdmittedOnce, GrantStands
<1>4. ASSUME NEW p \in Callers, AnswerMoved(p) \/ RoutingError(p) \/ KeepPending(p) PROVE GrantInv'
  <2>1. UNCHANGED <<state, cluster, routeVars, granted>> /\ Return(p)
    BY <1>4 DEF AnswerMoved, RoutingError, KeepPending, reqVars
  <2>2. /\ job' \in [Callers -> Jobs]
        /\ \A q \in Callers \ {p} : job'[q] = job[q]
        /\ job'[p].at = "idle"
    BY <2>1, ReturnJob
  <2>3. reason' \in [Ids -> Reasons]
    <3>1. CASE KeepPending(p)
      <4>1. ReasonFor(job[p].out) \in Reasons
        BY DEF ReasonFor, Reasons
      <4> QED
        BY <3>1, <4>1 DEF KeepPending, TypeOK
    <3>2. CASE AnswerMoved(p) \/ RoutingError(p)
      BY <3>2 DEF AnswerMoved, RoutingError, reqVars, TypeOK
    <3> QED
      BY <1>4, <3>1, <3>2
  <2> QED
    BY <2>1, <2>2, <2>3 DEF routeVars, TypeOK, RoutedOK, AbsentUnset, AdmittedOnce, GrantStands
<1>5. ASSUME NEW p \in Callers, Admit(p) PROVE GrantInv'
  <2> DEFINE id == job[p].id
             grant == [id |-> id, to |-> p, cluster |-> job[p].pick]
  <2>1. id \in Ids /\ job[p].pick \in Clusters /\ state[id] = "Pending"
    BY <1>5 DEF Admit, At, RoutedOK, StillPending
  <2>2. /\ state' = [state EXCEPT ![id] = "Admitted"]
        /\ cluster' = [cluster EXCEPT ![id] = job[p].pick]
        /\ granted' = granted \cup {grant}
        /\ UNCHANGED routeVars
    BY <1>5 DEF Admit
  <2>3. /\ job' \in [Callers -> Jobs]
        /\ \A q \in Callers \ {p} : job'[q] = job[q]
        /\ job'[p].at = "idle"
    BY <1>5, ReturnJob DEF Admit
  <2>4. reason' \in [Ids -> Reasons]
    BY <1>5 DEF Admit, TypeOK, Reasons
  <2>5. grant \in Grants
    BY <2>1 DEF Grants
  <2>6. TypeOK'
    BY <2>1, <2>2, <2>3, <2>4, <2>5 DEF TypeOK, States, routeVars
  <2>7. RoutedOK'
    BY <2>1, <2>2, <2>3 DEF TypeOK, RoutedOK
  <2>8. AbsentUnset'
    BY <2>1, <2>2 DEF TypeOK, AbsentUnset
  <2>9. \A g \in granted : g.id # id
    BY <2>1, NotGranted
  <2>10. AdmittedOnce'
    BY <2>2, <2>9 DEF AdmittedOnce
  <2>11. GrantStands'
    <3>1. \A g \in granted' : cluster'[g.id] = g.cluster /\ state'[g.id] \in States \ {"Absent", "Pending"}
      <4>1. \A g \in granted : cluster'[g.id] = g.cluster /\ state'[g.id] \in States \ {"Absent", "Pending"}
        BY <2>2, <2>9 DEF GrantStands, TypeOK, Grants
      <4>2. cluster'[grant.id] = grant.cluster /\ state'[grant.id] \in States \ {"Absent", "Pending"}
        BY <2>1, <2>2 DEF TypeOK, States
      <4> QED
        BY <2>2, <4>1, <4>2
    <3>2. \A i \in Ids : state'[i] \in {"Admitted", "Running", "Completed"} =>
            \E g \in granted' : g.id = i
      <4>1. ASSUME NEW i \in Ids, i # id, state'[i] \in {"Admitted", "Running", "Completed"}
            PROVE  \E g \in granted' : g.id = i
        BY <2>1, <2>2, <4>1 DEF GrantStands, TypeOK
      <4>2. grant \in granted' /\ grant.id = id
        BY <2>2
      <4> QED
        BY <4>1, <4>2
    <3> QED
      BY <3>1, <3>2 DEF GrantStands
  <2> QED
    BY <2>6, <2>7, <2>8, <2>10, <2>11
<1>6. ASSUME NEW id \in Ids, NEW s \in {"Cancelled", "Running", "Completed"}, MoveTo(id, s),
             state[id] # "Absent",
             s # "Cancelled" => state[id] \in {"Admitted", "Running"},
             state[id] = "Pending" => s = "Cancelled"
      PROVE  GrantInv'
  <2>1. TypeOK'
    BY <1>6 DEF MoveTo, TypeOK, States, routeVars
  <2>2. RoutedOK' /\ AbsentUnset' /\ AdmittedOnce'
    BY <1>6 DEF MoveTo, TypeOK, RoutedOK, AbsentUnset, AdmittedOnce
  <2>3. GrantStands'
    BY <1>6 DEF MoveTo, TypeOK, States, GrantStands, Grants
  <2> QED
    BY <2>1, <2>2, <2>3
<1>7. ASSUME NEW id \in Ids, CancelRequest(id) \/ StartRequest(id) \/ CompleteRequest(id)
      PROVE  GrantInv'
  BY <1>6, <1>7 DEF CancelRequest, StartRequest, CompleteRequest
<1> QED
  BY <1>0, <1>1, <1>2, <1>3, <1>4, <1>5, <1>7 DEF Next, Call, Step, Environment, Routing

\* No request has been submitted yet.
LEMMA GrantInit == ASSUME Init PROVE GrantInv
<1>1. Idle \in Jobs
  BY DEF Idle, Fresh, Jobs, Places, Outs
<1> QED
  BY <1>1 DEF Init, GrantInv, TypeOK, RoutedOK, AbsentUnset, AdmittedOnce, GrantStands,
              States, Reasons, Undecided, Idle, Fresh

\* The inductive invariant holds in every behaviour.
THEOREM GrantInvariant == Spec => []GrantInv
<1>1. Init => GrantInv
  BY GrantInit
<1>2. GrantInv /\ [Next]_vars => GrantInv'
  BY GrantStep
<1> QED
  BY <1>1, <1>2, PTL DEF Spec

\* Of all callers that submit or retry a request, one at most is told that it
\* was admitted: SubmitRequest and RetryRequest read the state again after they
\* have routed without the mutex.
THEOREM AdmittedAtMostOnce == Spec => []AdmittedOnce
<1>1. GrantInv => AdmittedOnce
  BY DEF GrantInv
<1> QED
  BY <1>1, GrantInvariant, PTL

\* The cluster told with an admission stays the cluster of the request, and
\* only admitted requests run or complete.
THEOREM GrantsStand == Spec => []GrantStands
<1>1. GrantInv => GrantStands
  BY DEF GrantInv
<1> QED
  BY <1>1, GrantInvariant, PTL

\* A step of the manager is a step of the request lifecycle or leaves the
\* requests' states and clusters as they are.
LEMMA LifecycleStep ==
  ASSUME GrantInv, [Next]_vars
  PROVE  [Lifecycle!Next]_<<state, cluster>>
<1> USE DEF Lifecycle!Next, Lifecycle!Move
<1>0. CASE UNCHANGED vars
  BY <1>0 DEF vars
<1>1. ASSUME NEW p \in Callers, NEW id \in Ids, SubmitRequest(p, id) PROVE Lifecycle!Submit(id)
  <2>1. state[id] = "Absent" /\ cluster[id] = NoCluster
    BY <1>1 DEF SubmitRequest, MaySubmit, GrantInv, AbsentUnset
  <2>2. cluster' = cluster
    BY <1>1, <2>1 DEF SubmitRequest, GrantInv, TypeOK
  <2> QED
    BY <1>1, <2>1, <2>2 DEF SubmitRequest, Lifecycle!Submit
<1>2. ASSUME NEW p \in Callers,
             Routing(p) \/ AnswerMoved(p) \/ RoutingError(p) \/ KeepPending(p)
                        \/ \E id \in Ids : RetryRequest(p, id)
      PROVE  UNCHANGED <<state, cluster>>
  BY <1>2, RoutingKeeps DEF GrantInv, AnswerMoved, RoutingError, KeepPending, RetryRequest, reqVars
<1>3. ASSUME NEW p \in Callers, Admit(p) PROVE Lifecycle!Admit(job[p].id, job[p].pick)
  BY <1>3 DEF Admit, StillPending, Lifecycle!Admit
<1>4. ASSUME NEW p \in Callers, Admit(p) PROVE job[p].id \in Ids /\ job[p].pick \in Clusters
  BY <1>4 DEF Admit, At, GrantInv, RoutedOK
<1>5. ASSUME NEW id \in Ids, CancelRequest(id) PROVE Lifecycle!Cancel(id)
  BY <1>5 DEF CancelRequest, MoveTo, Lifecycle!Cancel, GrantInv, TypeOK, States
<1>6. ASSUME NEW id \in Ids, StartRequest(id) PROVE Lifecycle!Start(id)
  BY <1>6 DEF StartRequest, MoveTo, Lifecycle!Start
<1>7. ASSUME NEW id \in Ids, CompleteRequest(id) PROVE Lifecycle!Complete(id)
  BY <1>7 DEF CompleteRequest, MoveTo, Lifecycle!Complete
<1> QED
  BY <1>0, <1>1, <1>2, <1>3, <1>4, <1>5, <1>6, <1>7 DEF Next, Call, Step, Environment, Routing

\* The manager implements the request lifecycle: however submits, retries,
\* cancels, starts and completions interleave with routing, each request's
\* state and cluster take the lifecycle's steps only.
THEOREM ImplementsLifecycle == Spec => LifecycleSpec
<1>1. Init => Lifecycle!Init
  BY DEF Init, Lifecycle!Init
<1>2. GrantInv /\ [Next]_vars => [Lifecycle!Next]_<<state, cluster>>
  BY LifecycleStep
<1> QED
  BY <1>1, <1>2, GrantInvariant, PTL DEF Spec, LifecycleSpec, Lifecycle!Spec

-----------------------------------------------------------------------------
(* The temporary Placements *)

\* No delete has left a Placement, and every call that has one is on its way to the
\* delete of it.
Cleaning == stray \subseteq {"create"} /\ \A p \in placed : job[p].at \in {"poll", "cleanup"}

\* Of the callers that have no Placement or keep the place that they have.
LEMMA OthersClean ==
  ASSUME TypeOK, Cleaning, NEW p \in Callers, p \notin placed,
         \A q \in Callers \ {p} : job'[q] = job[q],
         UNCHANGED <<placed, stray>>
  PROVE  Cleaning'
  BY DEF TypeOK, Cleaning

LEMMA CleanStep ==
  ASSUME TypeOK, Cleaning, "error" \notin may, [Next]_vars
  PROVE  Cleaning'
<1>p. {"poll", "settle", "cleanup"} \subseteq Places /\ job \in [Callers -> Jobs]
  BY DEF Places, TypeOK
<1>1. ASSUME NEW p \in Callers, NEW id \in Ids, SubmitRequest(p, id) \/ RetryRequest(p, id)
      PROVE  Cleaning'
  <2>1. p \notin placed
    BY <1>1 DEF SubmitRequest, RetryRequest, At, Cleaning
  <2>2. \A q \in Callers \ {p} : job'[q] = job[q]
    BY <1>1, <1>p DEF SubmitRequest, RetryRequest, Route
  <2>3. UNCHANGED <<placed, stray>>
    BY <1>1 DEF SubmitRequest, RetryRequest, routeVars
  <2> QED
    BY <2>1, <2>2, <2>3, OthersClean
<1>2. ASSUME NEW p \in Callers, CreatePlacement(p) PROVE Cleaning'
  <2>1. job'[p].at = "poll" /\ \A q \in Callers \ {p} : job'[q] = job[q]
    BY <1>2, <1>p DEF CreatePlacement, Jobs
  <2> QED
    BY <1>2, <2>1 DEF CreatePlacement, Cleaning, TypeOK
<1>3. ASSUME NEW p \in Callers, CreateFails(p) PROVE Cleaning'
  <2>1. p \notin placed /\ placed' = placed /\ stray' \subseteq {"create"}
    BY <1>3 DEF CreateFails, At, Cleaning
  <2>2. \A q \in Callers \ {p} : job'[q] = job[q]
    BY <1>3, <1>p DEF CreateFails
  <2> QED
    BY <2>1, <2>2 DEF Cleaning, TypeOK
<1>4. ASSUME NEW p \in Callers, NEW o, NEW c, Conclude(p, o, c) PROVE Cleaning'
  <2>1. job'[p].at = "cleanup" /\ \A q \in Callers \ {p} : job'[q] = job[q]
    BY <1>4, <1>p DEF Conclude, Jobs
  <2> QED
    BY <1>4, <2>1 DEF Conclude, Cleaning, TypeOK
<1>5. ASSUME NEW p \in Callers, ReadDecision(p) \/ PollEnds(p) PROVE Cleaning'
  BY <1>4, <1>5 DEF ReadDecision, PollEnds
<1>6. ASSUME NEW p \in Callers, Cleanup(p) PROVE Cleaning'
  <2>1. \A q \in Callers \ {p} : job'[q] = job[q]
    BY <1>6, <1>p DEF Cleanup
  <2>2. placed' = placed \ {p} /\ stray' = stray
    BY <1>6 DEF Cleanup, CleanupFails
  <2> QED
    BY <2>1, <2>2 DEF Cleaning, TypeOK
<1>7. ASSUME NEW p \in Callers, AnswerMoved(p) \/ Admit(p) \/ KeepPending(p) \/ RoutingError(p)
      PROVE  Cleaning'
  <2>1. p \notin placed
    BY <1>7 DEF AnswerMoved, Admit, KeepPending, RoutingError, At, Cleaning
  <2>2. \A q \in Callers \ {p} : job'[q] = job[q]
    BY <1>7, <1>p DEF AnswerMoved, Admit, KeepPending, RoutingError, Return
  <2>3. UNCHANGED <<placed, stray>>
    BY <1>7 DEF AnswerMoved, Admit, KeepPending, RoutingError, routeVars
  <2> QED
    BY <2>1, <2>2, <2>3, OthersClean
<1>8. ASSUME NEW p \in Callers, Expire(p) \/ CancelContext(p) PROVE Cleaning'
  <2>1. \A q \in Callers : job'[q].at = job[q].at
    BY <1>8, <1>p DEF Expire, CancelContext, Jobs
  <2> QED
    BY <1>8, <2>1 DEF Expire, CancelContext, routeVars, Cleaning, TypeOK
<1>9. CASE UNCHANGED <<job, placed, stray>>
  BY <1>9 DEF Cleaning
<1>10. ASSUME NEW id \in Ids, CancelRequest(id) \/ StartRequest(id) \/ CompleteRequest(id)
       PROVE  UNCHANGED <<job, placed, stray>>
  BY <1>10 DEF CancelRequest, StartRequest, CompleteRequest, MoveTo, routeVars
<1>11. ASSUME NEW p \in Callers, Decide(p) PROVE UNCHANGED <<job, placed, stray>>
  BY <1>11 DEF Decide
<1>12. CASE UNCHANGED vars
  BY <1>9, <1>12 DEF vars
<1> QED
  BY <1>1, <1>2, <1>3, <1>5, <1>6, <1>7, <1>8, <1>9, <1>10, <1>11, <1>12
  DEF Next, Call, Step, Environment

LEMMA MayStays ==
  ASSUME [Next]_vars
  PROVE  may' = may
<1> USE DEF routeVars
<1>1. ASSUME NEW p \in Callers, Call(p) PROVE may' = may
  BY <1>1 DEF Call, SubmitRequest, RetryRequest
<1>2. ASSUME NEW p \in Callers, Step(p) PROVE may' = may
  BY <1>2 DEF Step, CreatePlacement, CreateFails, ReadDecision, PollEnds, Conclude, Cleanup,
              AnswerMoved, Admit, KeepPending, RoutingError
<1>3. ASSUME NEW p \in Callers, Environment(p) PROVE may' = may
  BY <1>3 DEF Environment, Decide, Expire, CancelContext
<1>4. ASSUME NEW id \in Ids, CancelRequest(id) \/ StartRequest(id) \/ CompleteRequest(id)
      PROVE  may' = may
  BY <1>4 DEF CancelRequest, StartRequest, CompleteRequest, MoveTo
<1>5. CASE UNCHANGED vars
  BY <1>5 DEF vars
<1> QED
  BY <1>1, <1>2, <1>3, <1>4, <1>5 DEF Next

\* Every way out of BestClusterWithTimeout after its create was answered deletes the
\* Placement, an expired or cancelled context included, when no API call fails; a
\* create that was cut off is the only thing that leaves one (GpuRequests's
\* PlacementDeleted).
THEOREM PlacementsDeleted == Spec => []PlacementDeleted
<1>1. Init => PlacementDeleted
  BY DEF Init, PlacementDeleted
<1>2. GrantInv /\ PlacementDeleted /\ [Next]_vars => PlacementDeleted'
  <2> SUFFICES ASSUME GrantInv, PlacementDeleted, [Next]_vars, "error" \notin may'
               PROVE  Cleaning'
    BY DEF PlacementDeleted, Cleaning
  <2>1. "error" \notin may
    BY MayStays
  <2> QED
    BY <2>1, CleanStep DEF GrantInv, PlacementDeleted, Cleaning
<1> QED
  BY <1>1, <1>2, GrantInvariant, PTL DEF Spec

\* The requests, the calls and the Placements stay within their types.
THEOREM GpuTypeCorrect == Spec => []TypeOK
<1>1. GrantInv => TypeOK
  BY DEF GrantInv
<1> QED
  BY <1>1, GrantInvariant, PTL
=============================================================================
