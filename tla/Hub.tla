-------------------------------- MODULE Hub --------------------------------
(***************************************************************************)
(* Callers that run one of the operations of the packages on one hub, and  *)
(* run it again until it succeeds, as docs/adr/006 says the CLI, the MCP   *)
(* server and a reconcile loop do. First all of them set the thing up,     *)
(* then all of them tear it down. A call to the API server may fail, and a *)
(* caller may be killed between two calls.                                 *)
(***************************************************************************)
EXTENDS HubSteps, Functions

CONSTANTS Callers,   \* the processes that run the operations
          Pairs,     \* the pairs of operations, by name
          OneShot,   \* those whose operations cannot be repeated
          MaxFaults  \* bound: the calls that fail and the callers that are killed

\* The fields that the steps set or clear.
Named(steps) == UNION {steps[i].set \cup steps[i].clear : i \in DOMAIN steps}

\* The steps that create an object when it is missing.
Creating == {"ensure", "create", "admit", "apply", "replace", "merge", "upsert"}

\* A caller at step i has the object of step j on the hub: neither an error that
\* is dropped nor a branch leads past step j to step i.
Before(steps, j, i) ==
  /\ steps[j].do \in Creating \cup {"get", "update", "amend", "rewrite", "patch"}
  /\ ~ (steps[j].blind \/ steps[j].unsure)
  /\ steps[j].skip => i <= j + steps[j].hop
  /\ \A k \in 1 .. j - 1 : i <= k + steps[k].hop \/ k + steps[k].hop < j

\* A setup deletes nothing, and makes an object only when what it refers to is
\* held or has been made before.
InOrder(p) ==
  /\ \A o \in p.held \cap DOMAIN p.refs : p.refs[o] \subseteq p.held
  /\ \A i \in DOMAIN p.up :
       /\ p.up[i].do \notin {"delete", "purge", "prune"}
       /\ p.up[i].undo = <<>>
       /\ p.up[i].do \in Creating /\ p.up[i].obj \in DOMAIN p.refs =>
            \A o \in p.refs[p.up[i].obj] :
              o \in p.held \/ \E j \in 1 .. i - 1 : p.up[j].obj = o /\ Before(p.up, j, i)

\* The steps that leave an object as they want it; a rewrite, an amendment and a
\* merge write what they have read over whatever is there.
Making      == {"ensure", "create", "admit", "apply", "replace", "upsert", "update", "patch"}
Overwriting == {"replace", "merge", "amend", "rewrite"}

\* Step i is taken on every way through the steps.
Always(steps, i) == \A j \in 1 .. i - 1 : steps[j].do # "quit" /\ i > j + steps[j].hop

StepsOn(steps, o) == {j \in DOMAIN steps : steps[j].obj = o}

\* The fields that step i sets and no step clears. What one step sets and another
\* clears is taken back by a caller that is behind.
Fixed(steps, i) == steps[i].set \ UNION {steps[j].clear : j \in StepsOn(steps, steps[i].obj)}

\* What a step of a setup makes of its object lasts: the step is not passed over,
\* a step that writes over the object sets what it sets too or comes later, and
\* whatever a step takes as it finds it has been made so.
Lasting(p) ==
  \A i \in DOMAIN p.up : p.up[i].do \in Making /\ Always(p.up, i) =>
    LET s == p.up[i]
        fields == Fixed(p.up, i)
        found == s.do \in {"ensure", "admit"}
    IN  /\ ~ s.unsure
        /\ s.blind => s.do \in {"ensure", "apply", "replace"}
        /\ \A j \in StepsOn(p.up, s.obj) :
             /\ p.up[j].do \in Overwriting => fields \subseteq p.up[j].set \/ i < j
             /\ p.up[j].do \in Creating /\ found => fields \subseteq p.up[j].set
             /\ p.up[j].do \in Overwriting \/ found => fields \cap Mine = {}
             /\ p.up[j].do = "merge" => ~ p.up[j].blind
        /\ s.obj \in p.held /\ found => fields = {}

\* Step i has the last word on the fields it sets: it is not passed over, and neither
\* it nor a later one removes the object, clears one of them, or writes back without
\* them what it may have read before.
HasLastWord(steps, i) ==
  LET s == steps[i] IN
  /\ s.do \in {"update", "patch"} /\ ~ s.unsure /\ ~ s.blind /\ Always(steps, i)
  /\ \A j \in StepsOn(steps, s.obj) : j >= i =>
       /\ steps[j].do \notin {"delete", "purge", "prune"}
       /\ steps[j].clear \cap s.set = {}
       /\ steps[j].do \in Overwriting => s.set \subseteq steps[j].set

-----------------------------------------------------------------------------
\* When a teardown undoes a setup.

Created(steps) == {steps[i].obj : i \in {j \in DOMAIN steps : steps[j].do \in Creating}}
SetOn(p, o) ==
  (UNION {p.up[i].set : i \in StepsOn(p.up, o)})
    \cup (UNION {p.down[i].set : i \in StepsOn(p.down, o)})

\* What is to go: the objects that are made, and the fields of those that were
\* there before, without what is known to stay.
Going(p)    == (Created(p.up) \cup Created(p.down)) \ (p.held \cup p.kept)
Stray(p, o) == SetOn(p, o) \ p.kept
Traces(p)   == Going(p) \cup {o \in p.held : Stray(p, o) # {}}

\* Step i removes all that is to go of an object, unless its error is dropped.
Reverts(p, i, o) ==
  LET s == p.down[i] IN
  /\ s.obj = o /\ ~ s.blind /\ ~ s.unsure
  /\ IF o \in p.held
       THEN s.do \in {"patch", "update", "amend"} /\ Stray(p, o) \subseteq s.clear
       ELSE \/ s.do \in {"delete", "purge"}
            \/ s.do = "prune" /\ SetOn(p, o) \subseteq s.clear /\ SetOn(p, o) \cap Mine = {}

Unskipped(steps, o) == \A i \in StepsOn(steps, o) : ~ steps[i].skip

Plainly(p, i) == \A j \in 1 .. i - 1 : i > j + p.down[j].hop

\* The branch at step j of a teardown is not taken: it asks whether an object is
\* missing that nobody removes, or whether one is there that has been removed.
Straight(p, j) ==
  LET s == p.down[j] IN
  /\ ~ s.skip /\ ~ s.unsure
  /\ \/ s.do = "when" /\ s.obj \in p.held /\ ~ s.blind
     \/ /\ s.do = "jump" /\ s.obj \in Going(p) /\ Unskipped(p.down, s.obj)
        /\ \E i \in 1 .. j - 1 : Reverts(p, i, s.obj) /\ Plainly(p, i)

Surely(p, i) == \A j \in 1 .. i - 1 : i > j + p.down[j].hop \/ Straight(p, j)

\* A teardown that ends at once when object q is missing: q is made for certain,
\* and is removed after everything else.
Guards(p, q) ==
  /\ q \in Going(p) /\ Unskipped(p.up, q)
  /\ \E i \in StepsOn(p.up, q) : p.up[i].do \in Making /\ Always(p.up, i)
  /\ \A i \in DOMAIN p.down : \A m \in DOMAIN p.down[i].undo : p.down[i].undo[m] # q
  /\ \A j \in StepsOn(p.down, q) : p.down[j].do \in {"delete", "purge", "prune"} =>
       \A o \in Traces(p) \ {q} : \E i \in 1 .. j - 1 : Reverts(p, i, o) /\ Surely(p, i)

\* A teardown removes nothing that was there before, makes nothing again, writes
\* nothing back, and comes to everything that is to go.
Undoes(p) ==
  /\ \A i \in DOMAIN p.down :
       LET s == p.down[i] IN
       /\ s.do \in {"delete", "purge", "prune"} => s.obj \notin p.held
       /\ \A m \in DOMAIN s.undo : s.undo[m] \notin p.held
       /\ s.do \in Creating => s.obj \notin Going(p)
       /\ s.obj \in p.held =>
            /\ s.set \subseteq p.kept
            /\ s.do \in Overwriting => Stray(p, s.obj) \subseteq s.clear
       /\ s.do = "quit" => ~ s.blind /\ (s.obj \in p.held \/ Guards(p, s.obj))
  /\ \A o \in Traces(p) : \E i \in DOMAIN p.down : Reverts(p, i, o) /\ Surely(p, i)
  /\ \A o \in p.held : Stray(p, o) \cap Mine = {}

-----------------------------------------------------------------------------

ASSUME HubAssumption ==
  /\ Callers # {}
  /\ MaxFaults \in Nat
  /\ \A n \in DOMAIN Pairs :
       /\ IsOperation(Pairs[n].up) /\ IsOperation(Pairs[n].down)
       /\ InOrder(Pairs[n]) /\ Lasting(Pairs[n])
       /\ Callers \cap (Named(Pairs[n].up) \cup Named(Pairs[n].down)) = {}

VARIABLES
  name,    \* the name of the pair the callers run
  pair,    \* the pair itself
  phase,   \* "up" or "down"
  hub,     \* the objects there are, each with the fields that are set
  job,     \* where each caller is, and what its Get has read
  faults,  \* how many faults there have been
  dropped  \* history: the objects whose calls have failed unreported

vars == <<name, pair, phase, hub, job, faults, dropped>>

Steps == IF phase = "up" THEN pair.up ELSE pair.down

Unread  == {"unread"}
Missing == {"missing"}

Attempt(at, saw, undo) == [at |-> at, saw |-> saw, undo |-> undo]
Fresh == Attempt(1, Unread, <<>>)

Done(c)  == job[c].at > Len(Steps)
Goes(c)  == ~ Done(c) /\ job[c].undo = <<>>
step(c)  == Steps[job[c].at]
There(o) == o \in DOMAIN hub

Objects(steps) == {steps[i].obj : i \in DOMAIN steps}
Own(callers, fields) == (fields \ Mine) \cup (IF Mine \subseteq fields THEN callers ELSE {})
Fields(steps) == Own(Callers, Named(steps))

TypeOK ==
  /\ name \in DOMAIN Pairs
  /\ phase \in {"up", "down"}
  /\ DOMAIN hub \subseteq pair.held \cup Objects(pair.up) \cup Objects(pair.down)
  /\ \A o \in DOMAIN hub : hub[o] \subseteq Fields(pair.up) \cup Fields(pair.down)
  /\ \A c \in Callers : job[c].at \in 1 .. Len(Steps) + 1
  /\ faults \in 0 .. MaxFaults

Init ==
  /\ name \in DOMAIN Pairs
  /\ pair = Pairs[name]
  /\ phase = "up"
  /\ hub = [o \in pair.held |-> {}]
  /\ job = [c \in Callers |-> Fresh]
  /\ faults = 0
  /\ dropped = {}

-----------------------------------------------------------------------------
\* How a call leaves its caller.

Go(c, place) == job' = [job EXCEPT ![c] = place]

Place(c, n) == Attempt(job[c].at + n, Unread, <<>>)
Holding(c, content) == Attempt(job[c].at, content, <<>>)
End == Attempt(Len(Steps) + 1, Unread, <<>>)

\* Mutant: every error is dropped.
FailedOnward(c) == Go(c, Place(c, 1 + step(c).hop)) /\ dropped' = dropped \cup {step(c).obj}

\* Mutant: DeleteIfExists takes every error for NotFound.
FailedUnlessPurge(c) ==
  CASE step(c).skip         -> FailedOnward(c)
    [] step(c).do = "purge" -> Go(c, Place(c, 1)) /\ UNCHANGED dropped
    [] OTHER                -> Go(c, Attempt(1, Unread, step(c).undo)) /\ UNCHANGED dropped

\* The error is returned and the caller begins again, or it is dropped.
Failed(c) ==
  IF step(c).skip
    THEN Go(c, Place(c, 1 + step(c).hop)) /\ dropped' = dropped \cup {step(c).obj}
    ELSE Go(c, Attempt(1, Unread, step(c).undo)) /\ UNCHANGED dropped

Put(o, fields) == hub' = [x \in DOMAIN hub \cup {o} |-> IF x = o THEN fields ELSE hub[x]]
Erase(o) == hub' = Restrict(hub, DOMAIN hub \ {o})

Written(c, fields) == (fields \cup Own({c}, step(c).set)) \ Own({c}, step(c).clear)

\* A step that settles an object has a second one for when it is missing.
Passed(c) == Go(c, Place(c, IF step(c).do = "settle" THEN 1 + step(c).hop ELSE 1))

\* A call that has changed the hub may still answer with an error: its answer
\* is lost.
Succeed(c) ==
  /\ \/ /\ Passed(c)
        /\ UNCHANGED <<faults, dropped>>
     \/ /\ faults < MaxFaults
        /\ faults' = faults + 1
        /\ Failed(c)
  /\ UNCHANGED <<name, pair, phase>>

Fail(c) == Failed(c) /\ UNCHANGED <<name, pair, phase, hub, faults>>
Turns(c, place) == Go(c, place) /\ UNCHANGED <<name, pair, phase, hub, faults, dropped>>

-----------------------------------------------------------------------------
\* The calls. A step of two calls has read when saw is not Unread.

Getting == {"get", "refuse", "quit", "jump", "when", "settle", "ensure", "apply", "replace",
            "merge", "update", "amend", "rewrite", "prune"}

Reading(c, kinds) == Goes(c) /\ step(c).do \in kinds /\ job[c].saw = Unread
Writing(c, kinds) == Goes(c) /\ step(c).do \in kinds /\ job[c].saw # Unread

\* Where a Get leads that has found the object, and one that has not.
Found(c) ==
  CASE step(c).do \in {"settle", "apply", "replace", "merge", "update", "amend", "rewrite", "prune"}
                             -> Holding(c, hub[step(c).obj])
    [] step(c).do = "jump"   -> Place(c, 1 + step(c).hop)
    [] OTHER                 -> Place(c, 1)

\* Mutant: a branch that is not taken passes over one step too many.
MissedTooFar(c) ==
  CASE step(c).do \in {"ensure", "apply", "replace"} -> Holding(c, Missing)
    [] step(c).do = "merge"                          -> Holding(c, {})
    [] step(c).do = "when"                           -> Place(c, 2 + step(c).hop)
    [] step(c).do = "quit"                           -> End
    [] OTHER                                         -> Place(c, 1)

Missed(c) ==
  CASE step(c).do \in {"ensure", "apply", "replace"} -> Holding(c, Missing)
    [] step(c).do = "merge"                          -> Holding(c, {})
    [] step(c).do = "when"                           -> Place(c, 1 + step(c).hop)
    [] step(c).do = "quit"                           -> End
    [] OTHER                                         -> Place(c, 1)

Get(c) ==
  /\ Reading(c, Getting)
  /\ IF There(step(c).obj)
       THEN IF step(c).do = "refuse" THEN Fail(c) ELSE Turns(c, Found(c))
       ELSE IF step(c).do \in {"get", "update", "amend", "rewrite"}
              THEN Fail(c) ELSE Turns(c, Missed(c))

\* The Create fails when another caller has created the object since.
CreateCall(c) ==
  /\ \/ Reading(c, {"create", "admit", "upsert"})
     \/ Writing(c, {"ensure", "apply", "replace"}) /\ job[c].saw = Missing
  /\ IF There(step(c).obj)
       THEN CASE step(c).do = "upsert" -> Turns(c, Holding(c, hub[step(c).obj]))
              [] step(c).do = "admit"  -> Turns(c, Place(c, 1))
              [] OTHER                 -> Fail(c)
       ELSE Put(step(c).obj, Own({c}, step(c).set)) /\ Succeed(c)

\* Mutant: no Update carries a resourceVersion.
AcceptsStale(c) == job[c].saw # Unread

\* The object is what was read, unless nothing asks: an Update with no
\* resourceVersion, or a Patch.
Accepts(c) == hub[step(c).obj] = job[c].saw \/ step(c).do \in Overwriting

\* The Update fails when the object is gone or has changed; a merge writes what it
\* has read over what its second Get finds.
UpdateCall(c) ==
  /\ Writing(c, {"settle", "apply", "replace", "merge", "update", "upsert", "amend",
                "rewrite", "prune"})
  /\ job[c].saw # Missing
  /\ step(c).do = "prune" => Written(c, job[c].saw) # {}
  /\ IF \/ step(c).do = "merge"
        \/ /\ There(step(c).obj)
           /\ Accepts(c)
           /\ step(c).do = "amend" => Written(c, job[c].saw) # job[c].saw
       THEN Put(step(c).obj, Written(c, job[c].saw)) /\ Succeed(c)
       ELSE Fail(c)

\* A merge fails when another caller writes the object between its second Get and
\* its Create or Update.
MergeConflict(c) ==
  /\ Writing(c, {"merge"})
  /\ job[c].saw # (IF There(step(c).obj) THEN hub[step(c).obj] ELSE {})
  /\ Fail(c)

PatchCall(c) ==
  /\ Reading(c, {"patch"})
  /\ IF There(step(c).obj)
       THEN Put(step(c).obj, Written(c, hub[step(c).obj])) /\ Succeed(c)
       ELSE Fail(c)

DeleteCall(c) ==
  /\ \/ Reading(c, {"delete", "purge"})
     \/ /\ Writing(c, {"prune"})
        /\ Written(c, job[c].saw) = {}
  /\ IF There(step(c).obj) \/ step(c).do # "delete"
       THEN Erase(step(c).obj) /\ Succeed(c)
       ELSE Fail(c)

\* A step that changes nothing and fails only by a fault.
Pass(c) ==
  /\ Reading(c, {"list", "hop"})
  /\ Turns(c, Place(c, IF step(c).do = "hop" THEN 1 + step(c).hop ELSE 1))

\* What a failed attempt deletes; the errors are not looked at.
Undo(c) ==
  /\ job[c].undo # <<>>
  /\ Go(c, Attempt(1, Unread, Tail(job[c].undo)))
  /\ Erase(Head(job[c].undo))
  /\ UNCHANGED <<name, pair, phase, faults, dropped>>

\* The API server refuses a call, or a wait runs out of time. Some callers of
\* Get do not ask why it has failed.
Fault(c) ==
  /\ Goes(c)
  /\ step(c).do # "hop"
  /\ faults < MaxFaults
  /\ faults' = faults + 1
  /\ IF step(c).blind /\ job[c].saw = Unread
       THEN Go(c, Missed(c)) /\ UNCHANGED dropped
       ELSE IF step(c).unsure
              THEN Go(c, Place(c, 1 + step(c).hop)) /\ UNCHANGED dropped
              ELSE Failed(c)
  /\ UNCHANGED <<name, pair, phase, hub>>

\* The process of a caller is killed; it is started again from the beginning.
Kill(c) ==
  /\ ~ Done(c)
  /\ faults < MaxFaults
  /\ faults' = faults + 1
  /\ Go(c, Fresh)
  /\ UNCHANGED <<name, pair, phase, hub, dropped>>

\* The thing is set up and is to be torn down.
Turn ==
  /\ phase = "up"
  /\ \A c \in Callers : Done(c)
  /\ phase' = "down"
  /\ job' = [c \in Callers |-> Fresh]
  /\ dropped' = {}
  /\ UNCHANGED <<name, pair, hub, faults>>

-----------------------------------------------------------------------------

Call(c) == Get(c) \/ CreateCall(c) \/ UpdateCall(c) \/ MergeConflict(c) \/ PatchCall(c)
           \/ DeleteCall(c) \/ Pass(c) \/ Undo(c)

Next == \/ \E c \in Callers : Call(c) \/ Fault(c) \/ Kill(c)
        \/ Turn

\* A caller goes on with its calls and repeats what has failed.
Spec == /\ Init /\ [][Next]_vars
        /\ \A c \in Callers : WF_vars(Call(c))
        /\ WF_vars(Turn)

-----------------------------------------------------------------------------

\* Safety: an object that is set up never refers to one that is not there,
\* whichever calls fail and however the attempts of two callers overlap.
NoDangling ==
  phase = "up" =>
    \A o \in DOMAIN hub \cap DOMAIN pair.refs : pair.refs[o] \subseteq DOMAIN hub

\* What step i of a setup leaves for a caller, unless its error was dropped.
Left(c, i) ==
  LET s == pair.up[i] IN
  s.obj \in dropped \/ (There(s.obj) /\ Own({c}, Fixed(pair.up, i)) \subseteq hub[s.obj])

\* Safety: a setup that has reported success has left every object it makes, with
\* the fields that none of its steps clears, but for those whose errors it drops
\* and those it makes on a condition.
SetupComplete ==
  \A c \in Callers : phase = "up" /\ Done(c) =>
    \A i \in DOMAIN pair.up : pair.up[i].do \in Making /\ Always(pair.up, i) => Left(c, i)

\* What step i has set is there, unless its error was dropped.
Stands(i) ==
  LET s == Steps[i] IN
  s.obj \in dropped \/ (There(s.obj) /\ s.set \ Mine \subseteq hub[s.obj])

\* Safety: what an execution has written last can be taken back by another that is
\* behind (the "Verifying" of a migration by a "Deploying"), but not for good: when
\* all that run an operation have reported success, its last word stands.
LastWord ==
  (\A c \in Callers : Done(c)) => \A i \in DOMAIN Steps : HasLastWord(Steps, i) => Stands(i)

\* Safety: a teardown that has reported success has left what was there
\* before, and nothing else but what it is known to keep and what it failed to
\* remove and said nothing of.
TeardownComplete ==
  \A c \in Callers : phase = "down" /\ Done(c) =>
    /\ pair.held \subseteq DOMAIN hub
    /\ DOMAIN hub \subseteq pair.held \cup pair.kept \cup dropped
    /\ \A o \in pair.held : hub[o] \subseteq Own(Callers, pair.kept) \/ o \in dropped

\* Liveness: repeated, every operation succeeds, whatever a failed attempt or
\* another caller has left on the hub.
Converges == name \notin OneShot => <>(phase = "down" /\ \A c \in Callers : Done(c))

=============================================================================
