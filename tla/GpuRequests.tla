----------------------------- MODULE GpuRequests -----------------------------
(***************************************************************************)
(* GPU requests of internal/gpu/request.go and the routing they rest on    *)
(* (routing.go).  SubmitRequest and RetryRequest hold the mutex, let it go *)
(* while BestClusterWithTimeout creates a temporary Placement, polls its   *)
(* decision and deletes it, and take it again to settle the request;       *)
(* CancelRequest, StartRequest and CompleteRequest are one critical        *)
(* section each and may fall anywhere in between.                          *)
(***************************************************************************)
EXTENDS Naturals, FiniteSets

CONSTANTS Ids,        \* request ids
          Clusters,   \* clusters a placement may select
          Callers,    \* goroutines that submit and retry
          Faults,     \* what may go wrong: "error": API errors, "lost": a lost reply
                      \* of the create, "cancel": a caller's context is cancelled
          NoId, NoCluster

ASSUME GpuAssumption ==
  /\ NoId \notin Ids /\ NoCluster \notin Clusters
  /\ Faults \subseteq {"error", "lost", "cancel"}

VARIABLES
  state, cluster, reason,   \* m.reqs: "Absent" when the id is not in the map
  job,       \* each caller's call
  placed,    \* callers whose temporary Placement exists
  decision,  \* its PlacementDecision
  stray,     \* the calls, of create and delete, that have left a Placement behind
  granted,   \* the answers Admitted = true given so far
  may        \* which of Faults this behaviour meets

reqVars   == <<state, cluster, reason>>
routeVars == <<placed, decision, stray, may>>
vars      == <<state, cluster, reason, job, placed, decision, stray, may, granted>>

States  == {"Absent", "Pending", "Admitted", "Running", "Completed", "Cancelled"}
Reasons == {"none", "placement pending", "no matching cluster"}
Places  == {"idle", "place", "poll", "cleanup", "settle"}
Outs    == {"none", "found", "pending", "nomatch", "error"}
Jobs    == [at : Places, retry : BOOLEAN, id : Ids \cup {NoId}, out : Outs,
            pick : Clusters \cup {NoCluster}, expired : BOOLEAN, cancelled : BOOLEAN]
Grants  == [id : Ids, to : Callers, cluster : Clusters]

\* A call that has no outcome yet.
Fresh(l, id, retry) == [at |-> l, retry |-> retry, id |-> id, out |-> "none",
                        pick |-> NoCluster, expired |-> FALSE, cancelled |-> FALSE]
Idle      == Fresh("idle", NoId, FALSE)
Undecided == [made |-> FALSE, clusters |-> {}]
At(p, l)  == job[p].at = l

Init ==
  /\ state = [id \in Ids |-> "Absent"]
  /\ cluster = [id \in Ids |-> NoCluster]
  /\ reason = [id \in Ids |-> "none"]
  /\ job = [p \in Callers |-> Idle]
  /\ placed = {} /\ decision = [p \in Callers |-> Undecided] /\ stray = {}
  /\ granted = {}
  /\ may \in SUBSET Faults

-----------------------------------------------------------------------------
(* The first critical section of SubmitRequest and of RetryRequest *)

\* Mutant: the duplicate check is left out.
SubmitAgain(id) == state[id] \in States

\* ErrDuplicateRequest otherwise.
MaySubmit(id) == state[id] = "Absent"

Route(p, id, retry) == job' = [job EXCEPT ![p] = Fresh("place", id, retry)]

\* The stored request is the caller's: State is overwritten, Cluster and Reason
\* are the empty ones of a new request.
SubmitRequest(p, id) ==
  /\ At(p, "idle")
  /\ MaySubmit(id)
  /\ state' = [state EXCEPT ![id] = "Pending"]
  /\ cluster' = [cluster EXCEPT ![id] = NoCluster]
  /\ reason' = [reason EXCEPT ![id] = "none"]
  /\ Route(p, id, FALSE)
  /\ UNCHANGED <<routeVars, granted>>

RetryRequest(p, id) ==
  /\ At(p, "idle")
  /\ state[id] = "Pending"
  /\ Route(p, id, TRUE)
  /\ UNCHANGED <<reqVars, routeVars, granted>>

-----------------------------------------------------------------------------
(* BestClusterWithTimeout *)

\* A deadline that passes, or a cancelled context, before a call fails the call.
Done(p) == job[p].expired \/ job[p].cancelled

Fails(p) == Done(p) \/ "error" \in may

CreatePlacement(p) ==
  /\ At(p, "place") /\ ~Done(p)
  /\ placed' = placed \cup {p}
  /\ job' = [job EXCEPT ![p].at = "poll"]
  /\ UNCHANGED <<reqVars, decision, stray, may, granted>>

\* The error of the create is returned as it is, before the deferred delete is
\* registered.  When the context ended, or the reply was lost, after the API server
\* had applied the create, the Placement stays.
CreateFails(p) ==
  /\ At(p, "place")
  /\ \/ Fails(p) /\ UNCHANGED stray
     \/ (Done(p) \/ "lost" \in may) /\ stray' = stray \cup {"create"}
  /\ job' = [job EXCEPT ![p].at = "settle", ![p].out = "error"]
  /\ UNCHANGED <<reqVars, placed, decision, may, granted>>

\* The poll is over; its decision is read no more.
Conclude(p, out, c) ==
  /\ job' = [job EXCEPT ![p].at = "cleanup", ![p].out = out, ![p].pick = c]
  /\ decision' = [decision EXCEPT ![p] = Undecided]
  /\ UNCHANGED <<reqVars, placed, stray, may, granted>>

\* Mutant: the first result is taken of an empty decision as well.
ReadUnchecked(p) ==
  /\ At(p, "poll") /\ ~Done(p)
  /\ \/ \E c \in decision[p].clusters : Conclude(p, "found", c)
     \/ decision[p] = [made |-> TRUE, clusters |-> {}] /\ Conclude(p, "found", NoCluster)

\* queryPlacementDecision: the first of the clusters, or none of them matches;
\* with no decision object yet the loop goes on.
ReadDecision(p) ==
  /\ At(p, "poll") /\ ~Done(p)
  /\ \/ \E c \in decision[p].clusters : Conclude(p, "found", c)
     \/ decision[p] = [made |-> TRUE, clusters |-> {}] /\ Conclude(p, "nomatch", NoCluster)

\* Mutant: the timeout does not end the loop.
PollForever(p) ==
  /\ At(p, "poll")
  /\ \/ job[p].cancelled /\ Conclude(p, "error", NoCluster)
     \/ ~Done(p) /\ "error" \in may /\ Conclude(p, "error", NoCluster)

\* The caller's context comes first, then the timeout, then any other error.
PollEnds(p) ==
  /\ At(p, "poll")
  /\ \/ job[p].cancelled /\ Conclude(p, "error", NoCluster)
     \/ job[p].expired /\ ~job[p].cancelled /\ Conclude(p, "pending", NoCluster)
     \/ ~Done(p) /\ "error" \in may /\ Conclude(p, "error", NoCluster)

\* Mutant: the deferred delete runs under the routing context.
CleanupInContext(p) == Fails(p)

\* The delete has a context of its own, so that a routing that was cut off still
\* makes it; its error, its own deadline included, is dropped.
CleanupFails(p) == "error" \in may

Cleanup(p) ==
  /\ At(p, "cleanup")
  /\ placed' = placed \ {p}
  /\ \/ ~CleanupFails(p) /\ UNCHANGED stray
     \/ CleanupFails(p) /\ stray' \in {stray, stray \cup {"delete"}}
  /\ job' = [job EXCEPT ![p].at = "settle"]
  /\ UNCHANGED <<reqVars, decision, may, granted>>

\* The placement controller, outside this code: it decides, and decides again
\* as clusters saturate or free up, for as long as the poll reads it.
Decide(p) ==
  /\ p \in placed /\ At(p, "poll")
  /\ \E S \in SUBSET Clusters : decision' = [decision EXCEPT ![p] = [made |-> TRUE, clusters |-> S]]
  /\ UNCHANGED <<reqVars, job, placed, stray, may, granted>>

Expire(p) ==
  /\ job[p].at \in {"place", "poll"} /\ ~job[p].expired
  /\ job' = [job EXCEPT ![p].expired = TRUE]
  /\ UNCHANGED <<reqVars, routeVars, granted>>

CancelContext(p) ==
  /\ "cancel" \in may
  /\ job[p].at \in {"place", "poll"} /\ ~job[p].cancelled
  /\ job' = [job EXCEPT ![p].cancelled = TRUE]
  /\ UNCHANGED <<reqVars, routeVars, granted>>

-----------------------------------------------------------------------------
(* The second critical section: the same in SubmitRequest and RetryRequest,
   but that only a retry clears the reason. *)

\* Mutant: the state is not read again after routing.
SettleAnyway(p) == state[job[p].id] # "Absent"

\* "request moved to ... during routing" otherwise.
StillPending(p) == state[job[p].id] = "Pending"

Return(p) == job' = [job EXCEPT ![p] = Idle]

AnswerMoved(p) ==
  /\ At(p, "settle") /\ ~StillPending(p)
  /\ Return(p)
  /\ UNCHANGED <<reqVars, routeVars, granted>>

Admit(p) ==
  LET id == job[p].id IN
  /\ At(p, "settle") /\ StillPending(p) /\ job[p].out = "found"
  /\ state' = [state EXCEPT ![id] = "Admitted"]
  /\ cluster' = [cluster EXCEPT ![id] = job[p].pick]
  /\ reason' = IF job[p].retry THEN [reason EXCEPT ![id] = "none"] ELSE reason
  /\ granted' = granted \cup {[id |-> id, to |-> p, cluster |-> job[p].pick]}
  /\ Return(p)
  /\ UNCHANGED routeVars

ReasonFor(out) == IF out = "nomatch" THEN "no matching cluster" ELSE "placement pending"

KeepPending(p) ==
  /\ At(p, "settle") /\ StillPending(p) /\ job[p].out \in {"pending", "nomatch"}
  /\ reason' = [reason EXCEPT ![job[p].id] = ReasonFor(job[p].out)]
  /\ Return(p)
  /\ UNCHANGED <<state, cluster, routeVars, granted>>

\* "routing request: ...": the request is left as it is.
RoutingError(p) ==
  /\ At(p, "settle") /\ StillPending(p) /\ job[p].out = "error"
  /\ Return(p)
  /\ UNCHANGED <<reqVars, routeVars, granted>>

-----------------------------------------------------------------------------
MoveTo(id, s) ==
  /\ state' = [state EXCEPT ![id] = s]
  /\ UNCHANGED <<cluster, reason, job, routeVars, granted>>

CancelRequest(id) ==
  /\ state[id] \notin {"Absent", "Completed", "Cancelled"}
  /\ MoveTo(id, "Cancelled")

StartRequest(id) == state[id] = "Admitted" /\ MoveTo(id, "Running")

\* Mutant: only Cancelled is refused.
CompleteAny(id) == state[id] \notin {"Absent", "Cancelled"} /\ MoveTo(id, "Completed")

CompleteRequest(id) == state[id] \in {"Running", "Admitted"} /\ MoveTo(id, "Completed")
-----------------------------------------------------------------------------
Call(p) == \E id \in Ids : SubmitRequest(p, id) \/ RetryRequest(p, id)

Step(p) ==
  \/ CreatePlacement(p) \/ CreateFails(p) \/ ReadDecision(p) \/ PollEnds(p) \/ Cleanup(p)
  \/ AnswerMoved(p) \/ Admit(p) \/ KeepPending(p) \/ RoutingError(p)

Environment(p) == Decide(p) \/ Expire(p) \/ CancelContext(p)

Next ==
  \/ \E p \in Callers : Call(p) \/ Step(p) \/ Environment(p)
  \/ \E id \in Ids : CancelRequest(id) \/ StartRequest(id) \/ CompleteRequest(id)

Spec == Init /\ [][Next]_vars

\* Goroutines run on and every deadline passes; the placement controller may
\* never decide.
FairSpec == Spec /\ \A p \in Callers : WF_vars(Step(p)) /\ WF_vars(Expire(p))

-----------------------------------------------------------------------------
(* Properties *)

TypeOK ==
  /\ state \in [Ids -> States]
  /\ cluster \in [Ids -> Clusters \cup {NoCluster}]
  /\ reason \in [Ids -> Reasons]
  /\ job \in [Callers -> Jobs]
  /\ placed \subseteq Callers
  /\ decision \in [Callers -> [made : BOOLEAN, clusters : SUBSET Clusters]]
  /\ stray \subseteq {"create", "delete"}
  /\ granted \subseteq Grants
  /\ may \subseteq Faults

\* A call that is being routed has a request; one that found a cluster names it.
RoutedOK ==
  \A p \in Callers : job[p].at # "idle" =>
    /\ job[p].id \in Ids /\ state[job[p].id] # "Absent"
    /\ job[p].out = "found" => job[p].pick \in Clusters

\* A request that was never submitted has no cluster.
AbsentUnset == \A id \in Ids : state[id] = "Absent" => cluster[id] = NoCluster

\* Of all callers that submit or retry a request concurrently, at most one is
\* ever told that it was admitted, and only once.
AdmittedOnce == \A g, h \in granted : g.id = h.id => g = h

\* The cluster a caller was told stays the cluster of the request, and no
\* request is admitted, runs or completes that no caller was told of.
GrantStands ==
  /\ \A g \in granted :
       cluster[g.id] = g.cluster /\ state[g.id] \in States \ {"Absent", "Pending"}
  /\ \A id \in Ids : state[id] \in {"Admitted", "Running", "Completed"} =>
       \E g \in granted : g.id = id

\* The inductive invariant behind AdmittedOnce and GrantStands.
GrantInv == TypeOK /\ RoutedOK /\ AbsentUnset /\ AdmittedOnce /\ GrantStands

\* A call deletes the Placement whose create was answered, timed out or cancelled as
\* it may be, unless an API call fails: what stays is only what a create left that
\* was cut off, or whose answer was lost, once it had been applied.
PlacementDeleted == "error" \notin may =>
  /\ stray \subseteq {"create"}
  /\ \A p \in placed : job[p].at \in {"poll", "cleanup"}

\* Every call returns by its timeout, whether or not a decision ever comes.
CallsReturn == \A p \in Callers : job[p].at # "idle" ~> job[p].at = "idle"

\* The requests go through the lifecycle, however calls interleave.
Lifecycle     == INSTANCE RequestLifecycle
LifecycleSpec == Lifecycle!Spec
=============================================================================
