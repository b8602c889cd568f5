------------------------------ MODULE HubProofs ------------------------------
(***************************************************************************)
(* The objects of the hub and the places of the callers have their types,  *)
(* no setup leaves a dangling reference, a setup that has reported success *)
(* is complete, so is a teardown that undoes its setup, and what an        *)
(* operation writes last stands in the end: for every catalogue of         *)
(* operations that is in order and lasts, any number of callers and of     *)
(* faults.                                                                 *)
(***************************************************************************)
EXTENDS Hub, TLAPS

AllFields  == Fields(pair.up) \cup Fields(pair.down)
AllObjects == pair.held \cup Objects(pair.up) \cup Objects(pair.down)

Reads  == {Unread, Missing} \cup SUBSET AllFields
Places == [at : 1 .. Len(Steps) + 1, saw : Reads, undo : Seq(STRING)]

Typed ==
  /\ name \in DOMAIN Pairs /\ pair = Pairs[name]
  /\ phase \in {"up", "down"}
  /\ hub \in [DOMAIN hub -> SUBSET AllFields]
  /\ DOMAIN hub \subseteq AllObjects
  /\ job \in [Callers -> Places]
  /\ faults \in 0 .. MaxFaults

\* What a setup has passed on its way to step i is there, and nothing is deleted.
Behind(s, i, H) ==
  i \in DOMAIN s => \A j \in 1 .. i - 1 : Before(s, j, i) => s[j].obj \in H

Lands(place, H) == place.undo = <<>> /\ Behind(pair.up, place.at, H)

\* A step is passed with its object there, or as one that nothing relies on.
Passable(s, i, n, H) ==
  \/ n = 1 /\ s[i].obj \in H
  \/ s[i].do \notin Creating \cup {"get", "update", "amend", "rewrite", "patch"}
  \/ s[i].blind
  \/ s[i].unsure
  \/ n = 1 + s[i].hop /\ s[i].skip

Kept ==
  phase = "up" =>
    /\ pair.held \subseteq DOMAIN hub
    /\ \A c \in Callers : Lands(job[c], DOMAIN hub)

IInv == Typed /\ Kept /\ NoDangling

-----------------------------------------------------------------------------
\* The catalogue.

LEMMA Catalogue ==
  ASSUME name \in DOMAIN Pairs, pair = Pairs[name]
  PROVE  IsOperation(pair.up) /\ IsOperation(pair.down) /\ InOrder(pair)
  BY HubAssumption

LEMMA StepsTyped ==
  ASSUME name \in DOMAIN Pairs, pair = Pairs[name], phase \in {"up", "down"}
  PROVE  /\ Steps \in Seq(StepType)
         /\ \A i \in DOMAIN Steps : i + Steps[i].hop <= Len(Steps)
         /\ Fields(Steps) \subseteq AllFields
         /\ Objects(Steps) \subseteq AllObjects
  BY Catalogue DEF Steps, IsOperation, AllFields, AllObjects

\* The fields that a caller's step sets are among those of the operation.
LEMMA OwnFields ==
  ASSUME name \in DOMAIN Pairs, pair = Pairs[name], phase \in {"up", "down"},
         NEW c \in Callers, NEW i \in DOMAIN Steps
  PROVE  /\ Own({c}, Steps[i].set) \subseteq AllFields
         /\ Steps[i].obj \in AllObjects
<1>1. Own({c}, Steps[i].set) \subseteq Fields(Steps)
  BY DEF Own, Fields, Named, Mine
<1>2. Steps[i].obj \in Objects(Steps)
  BY DEF Objects
<1> QED BY <1>1, <1>2, StepsTyped

\* What a call writes, and the places it leads to, have their types.
LEMMA Putting ==
  ASSUME Typed, NEW o \in AllObjects, NEW fields \in SUBSET AllFields, Put(o, fields)
  PROVE  /\ DOMAIN hub' = DOMAIN hub \cup {o}
         /\ hub' \in [DOMAIN hub' -> SUBSET AllFields]
         /\ DOMAIN hub' \subseteq AllObjects
  BY DEF Put, Typed

LEMMA Erasing ==
  ASSUME Typed, NEW o, Erase(o)
  PROVE  /\ hub' \in [DOMAIN hub' -> SUBSET AllFields]
         /\ DOMAIN hub' \subseteq AllObjects
  BY DEF Erase, Typed, Restrict

LEMMA Moving ==
  ASSUME Typed, NEW c \in Callers, Goes(c)
  PROVE  /\ job[c].at \in DOMAIN Steps
         /\ step(c) \in StepType
         /\ \A n \in {1, 1 + step(c).hop} : Place(c, n) \in Places
         /\ \A content \in Reads : Holding(c, content) \in Places
         /\ End \in Places
         /\ \A undo \in Seq(STRING) : Attempt(1, Unread, undo) \in Places
<1>1. /\ Steps \in Seq(StepType)
      /\ \A i \in DOMAIN Steps : i + Steps[i].hop <= Len(Steps)
  BY StepsTyped DEF Typed
<1>2. job[c] \in Places
  BY DEF Typed
<1>3. job[c].at \in 1 .. Len(Steps)
  BY <1>1, <1>2 DEF Goes, Done, Places
<1>4. job[c].at \in DOMAIN Steps /\ step(c) \in StepType
  BY <1>1, <1>3 DEF step
<1>5. step(c).hop \in Nat /\ job[c].at + step(c).hop <= Len(Steps)
  BY <1>1, <1>4 DEF step, StepType
<1>6. Unread \in Reads /\ <<>> \in Seq(STRING)
  BY DEF Reads
<1> QED BY <1>1, <1>3, <1>4, <1>5, <1>6 DEF Places, Place, Holding, End, Attempt

-----------------------------------------------------------------------------
\* A setup goes on.

LEMMA Passing ==
  ASSUME NEW s \in Seq(StepType), NEW i \in DOMAIN s, NEW H, Behind(s, i, H),
         NEW n \in {1, 1 + s[i].hop}, Passable(s, i, n, H)
  PROVE  Behind(s, i + n, H)
<1>1. \A k \in DOMAIN s : s[k] \in StepType
  OBVIOUS
<1>2. \A k \in DOMAIN s : k \in Nat /\ k > 0 /\ s[k].hop \in Nat
  BY <1>1 DEF StepType
<1>3. n \in Nat /\ n > 0 /\ n <= 1 + s[i].hop
  BY <1>2
<1> SUFFICES ASSUME i + n \in DOMAIN s, NEW j \in 1 .. i + n - 1, Before(s, j, i + n)
             PROVE  s[j].obj \in H
  BY <1>2, <1>3 DEF Behind
<1>4. \A k \in 1 .. j - 1 : i + n <= k + s[k].hop \/ k + s[k].hop < j
  BY DEF Before
<1>5. j \in DOMAIN s /\ \A k \in 1 .. j - 1 : k \in DOMAIN s
  BY <1>2, <1>3
<1>6. s[j].skip => i + n <= j + s[j].hop
  BY DEF Before
<1>7. CASE j < i
  <2>1. \A k \in 1 .. j - 1 : i <= k + s[k].hop \/ k + s[k].hop < j
    BY <1>2, <1>3, <1>4, <1>5
  <2>2. i + n <= j + s[j].hop => i <= j + s[j].hop
    BY <1>2, <1>3, <1>5
  <2>3. Before(s, j, i)
    BY <1>6, <2>1, <2>2 DEF Before
  <2>4. j \in 1 .. i - 1
    BY <1>2, <1>5, <1>7
  <2> QED BY <2>3, <2>4 DEF Behind
<1>8. CASE j = i
  <2>1. ~ (s[i].skip /\ n = 1 + s[i].hop)
    BY <1>2, <1>6, <1>8
  <2> QED BY <1>8, <2>1 DEF Before, Passable
<1>9. CASE j > i
  <2>1. n = 1 + s[i].hop /\ j <= i + s[i].hop
    BY <1>2, <1>5, <1>9
  <2>2. i \in 1 .. j - 1
    BY <1>2, <1>5, <1>9
  <2> QED BY <1>2, <1>4, <2>1, <2>2
<1> QED BY <1>2, <1>5, <1>7, <1>8, <1>9

LEMMA Setup ==
  ASSUME Typed, Kept, phase = "up", NEW c \in Callers, Goes(c), NEW H, DOMAIN hub \subseteq H
  PROVE  /\ Steps = pair.up
         /\ job[c].at \in DOMAIN pair.up
         /\ step(c) = pair.up[job[c].at]
         /\ step(c).do \notin {"delete", "purge", "prune"}
         /\ step(c).undo = <<>>
         /\ Behind(pair.up, job[c].at, H)
         /\ Behind(pair.up, 1, H)
<1>1. Steps = pair.up /\ job[c].at \in DOMAIN pair.up
  BY Moving DEF Steps
<1>2. InOrder(pair)
  BY Catalogue DEF Typed
<1>3. Behind(pair.up, job[c].at, H)
  BY DEF Kept, Lands, Behind
<1> QED BY <1>1, <1>2, <1>3 DEF step, InOrder, Behind

\* A caller that passes a step lands where a setup may be.
LEMMA Landing ==
  ASSUME Typed, Kept, phase = "up", NEW c \in Callers, Goes(c), NEW H, DOMAIN hub \subseteq H,
         NEW n \in {1, 1 + step(c).hop}, Passable(pair.up, job[c].at, n, H)
  PROVE  Lands(Place(c, n), H)
<1>1. pair.up \in Seq(StepType)
  BY Catalogue DEF Typed, IsOperation
<1>2. Behind(pair.up, job[c].at + n, H)
  BY <1>1, Setup, Passing
<1> QED BY <1>2 DEF Lands, Place, Attempt

\* An error leads back to the beginning, or past steps that nothing relies on.
LEMMA Failing ==
  ASSUME Typed, NEW c \in Callers, Goes(c), Failed(c), NEW H, DOMAIN hub \subseteq H
  PROVE  \E p \in Places : Go(c, p) /\ (Kept /\ phase = "up" => Lands(p, H))
<1>1. CASE step(c).skip
  <2>1. ASSUME Kept, phase = "up"
        PROVE  Lands(Place(c, 1 + step(c).hop), H)
    <3>1. Passable(pair.up, job[c].at, 1 + step(c).hop, H)
      BY <1>1, <2>1, Setup DEF Passable
    <3> QED BY <2>1, <3>1, Landing
  <2>2. Place(c, 1 + step(c).hop) \in Places
    BY Moving
  <2> QED BY <1>1, <2>1, <2>2 DEF Failed
<1>2. CASE ~ step(c).skip
  <2>1. step(c).undo \in Seq(STRING)
    BY Moving DEF StepType
  <2>2. Attempt(1, Unread, step(c).undo) \in Places
    BY <2>1, Moving
  <2>3. ASSUME Kept, phase = "up"
        PROVE  Lands(Attempt(1, Unread, step(c).undo), H)
    BY <2>3, Setup DEF Lands, Attempt
  <2> QED BY <1>2, <2>2, <2>3 DEF Failed
<1> QED BY <1>1, <1>2

\* After a call that has put an object there, or has found it.
LEMMA Succeeding ==
  ASSUME Typed, NEW c \in Callers, Goes(c), Succeed(c), NEW H,
         Kept /\ phase = "up" => DOMAIN hub \subseteq H /\ step(c).obj \in H
  PROVE  \E p \in Places : Go(c, p) /\ (Kept /\ phase = "up" => Lands(p, H))
<1>1. CASE Passed(c)
  <2>1. PICK n \in {1, 1 + step(c).hop} : Go(c, Place(c, n)) /\ (n # 1 => step(c).do = "settle")
    BY <1>1 DEF Passed
  <2>2. ASSUME Kept, phase = "up"
        PROVE  Lands(Place(c, n), H)
    <3>1. Passable(pair.up, job[c].at, n, H)
      BY <2>1, <2>2, Setup DEF Passable, Creating
    <3> QED BY <2>2, <3>1, Landing
  <2> QED BY <2>1, <2>2, Moving
<1>2. CASE Failed(c)
  <2>1. PICK p \in Places : Go(c, p) /\ (Kept /\ phase = "up" => Lands(p, DOMAIN hub))
    BY <1>2, Failing
  <2>2. ASSUME Kept, phase = "up"
        PROVE  Lands(p, H)
    BY <2>1, <2>2 DEF Lands, Behind
  <2> QED BY <2>1, <2>2
<1> QED BY <1>1, <1>2 DEF Succeed

\* Where a Get leads.
LEMMA Staying ==
  ASSUME Typed, Kept, phase = "up", NEW c \in Callers, Goes(c), NEW content \in Reads
  PROVE  Holding(c, content) \in Places /\ Lands(Holding(c, content), DOMAIN hub)
<1>1. Holding(c, content) \in Places
  BY Moving
<1>2. Behind(pair.up, job[c].at, DOMAIN hub)
  BY Setup
<1> QED BY <1>1, <1>2 DEF Holding, Lands, Attempt

LEMMA Finding ==
  ASSUME Typed, NEW c \in Callers, Goes(c), There(step(c).obj)
  PROVE  /\ Found(c) \in Places
         /\ Kept /\ phase = "up" => Lands(Found(c), DOMAIN hub)
<1>1. hub[step(c).obj] \in Reads
  BY DEF There, Typed, Reads
<1>2. CASE Found(c) = Holding(c, hub[step(c).obj])
  BY <1>1, <1>2, Staying, Moving
<1>3. CASE Found(c) = Place(c, 1)
  <2>1. Kept /\ phase = "up" => Passable(pair.up, job[c].at, 1, DOMAIN hub)
    BY Setup DEF Passable, There
  <2> QED BY <1>3, <2>1, Landing, Moving
<1>4. CASE Found(c) = Place(c, 1 + step(c).hop) /\ step(c).do = "jump"
  <2>1. Kept /\ phase = "up" => Passable(pair.up, job[c].at, 1 + step(c).hop, DOMAIN hub)
    BY <1>4, Setup DEF Passable, Creating
  <2> QED BY <1>4, <2>1, Landing, Moving
<1> QED BY <1>2, <1>3, <1>4 DEF Found

\* A Get that has missed goes on when nothing relies on the object, or when its
\* error is not asked for.
LEMMA GoingWithout ==
  ASSUME Typed, NEW c \in Callers, Goes(c),
         step(c).blind \/ step(c).do \in Getting \ {"get", "update", "amend", "rewrite"}
  PROVE  /\ Missed(c) \in Places
         /\ Kept /\ phase = "up" => Lands(Missed(c), DOMAIN hub)
<1>1. CASE Missed(c) = Holding(c, Missing)
  BY <1>1, Staying, Moving DEF Reads
<1>2. CASE Missed(c) = Holding(c, {})
  BY <1>2, Staying, Moving DEF Reads
<1>3. CASE Missed(c) = Place(c, 1 + step(c).hop) /\ step(c).do = "when"
  <2>1. Kept /\ phase = "up" => Passable(pair.up, job[c].at, 1 + step(c).hop, DOMAIN hub)
    BY <1>3, Setup DEF Passable, Creating
  <2> QED BY <1>3, <2>1, Landing, Moving
<1>4. CASE Missed(c) = End
  <2>1. phase = "up" => Steps = pair.up /\ Len(Steps) + 1 \notin DOMAIN pair.up
    BY StepsTyped DEF Steps, Typed
  <2>2. End.at = Len(Steps) + 1 /\ End.undo = <<>>
    BY DEF End, Attempt
  <2> QED BY <1>4, <2>1, <2>2, Moving DEF Lands, Behind
<1>5. CASE /\ Missed(c) = Place(c, 1)
           /\ step(c).do \notin {"ensure", "apply", "replace", "merge", "when", "quit"}
  <2>1. Kept /\ phase = "up" => Passable(pair.up, job[c].at, 1, DOMAIN hub)
    BY <1>5, Setup DEF Passable, Creating, Getting
  <2> QED BY <1>5, <2>1, Landing, Moving
<1> QED BY <1>1, <1>2, <1>3, <1>4, <1>5 DEF Missed

-----------------------------------------------------------------------------
\* One step.

\* A caller has moved, and the hub has kept what a setup has passed.
Moved(c) == \E p \in Places : Go(c, p) /\ (Kept /\ phase = "up" => Lands(p, DOMAIN hub'))

HubKept ==
  /\ hub' \in [DOMAIN hub' -> SUBSET AllFields]
  /\ DOMAIN hub' \subseteq AllObjects
  /\ phase = "up" => DOMAIN hub \subseteq DOMAIN hub' /\ NoDangling'

LEMMA Stepping ==
  ASSUME IInv, UNCHANGED <<name, pair, phase>>, faults' \in 0 .. MaxFaults,
         NEW c \in Callers, Moved(c), HubKept
  PROVE  IInv'
<1>1. /\ Steps' = Steps /\ pair' = pair /\ AllFields' = AllFields /\ AllObjects' = AllObjects
      /\ Places' = Places
  BY DEF Steps, AllFields, AllObjects, Places, Reads, Fields, Own, Objects
<1>2. PICK p \in Places : Go(c, p) /\ (Kept /\ phase = "up" => Lands(p, DOMAIN hub'))
  BY DEF Moved
<1>3. job' \in [Callers -> Places] /\ \A d \in Callers : job'[d] = IF d = c THEN p ELSE job[d]
  BY <1>2 DEF Go, IInv, Typed
<1>4. Typed'
  BY <1>1, <1>3 DEF IInv, Typed, HubKept
<1>5. ASSUME phase = "up"
      PROVE  /\ pair.held \subseteq DOMAIN hub'
             /\ \A d \in Callers : Lands(job'[d], DOMAIN hub')
  <2>1. ASSUME NEW d \in Callers, d # c
        PROVE  Lands(job'[d], DOMAIN hub')
    <3>1. Lands(job[d], DOMAIN hub)
      BY <1>5 DEF IInv, Kept
    <3> QED BY <1>3, <1>5, <2>1, <3>1 DEF Lands, Behind, HubKept
  <2>2. Lands(job'[c], DOMAIN hub')
    BY <1>2, <1>3, <1>5 DEF IInv
  <2>3. pair.held \subseteq DOMAIN hub'
    BY <1>5 DEF IInv, Kept, HubKept
  <2> QED BY <2>1, <2>2, <2>3
<1>6. Kept'
  BY <1>1, <1>5 DEF Kept, Lands
<1>7. NoDangling'
  BY DEF HubKept, NoDangling
<1> QED BY <1>4, <1>6, <1>7 DEF IInv

\* The hub as it was, and with an object that has been put on it.
LEMMA Untouched ==
  ASSUME IInv, UNCHANGED <<name, pair, phase, hub>>
  PROVE  HubKept
  BY DEF IInv, Typed, HubKept, NoDangling, AllFields, AllObjects, Fields, Own, Objects

LEMMA Placed ==
  ASSUME IInv, UNCHANGED <<name, pair, phase>>, NEW c \in Callers, Goes(c),
         There(step(c).obj) \/ step(c).do \in Creating,
         NEW fields \in SUBSET AllFields, Put(step(c).obj, fields)
  PROVE  HubKept /\ step(c).obj \in DOMAIN hub'
<1>1. step(c).obj \in AllObjects
  BY Moving, OwnFields DEF IInv, step, Typed
<1>2. /\ DOMAIN hub' = DOMAIN hub \cup {step(c).obj}
      /\ hub' \in [DOMAIN hub' -> SUBSET AllFields]
      /\ DOMAIN hub' \subseteq AllObjects
  BY <1>1, Putting DEF IInv
<1>3. ASSUME phase = "up"
      PROVE  NoDangling'
  <2>1. pair' = pair
    OBVIOUS
  <2>2. ASSUME NEW o \in DOMAIN hub' \cap DOMAIN pair.refs, NEW r \in pair.refs[o]
        PROVE  r \in DOMAIN hub'
    <3>1. CASE o \in DOMAIN hub
      BY <1>2, <1>3, <2>2, <3>1 DEF IInv, NoDangling
    <3>2. CASE o = step(c).obj /\ step(c).do \in Creating
      <4>1. /\ job[c].at \in DOMAIN pair.up /\ step(c) = pair.up[job[c].at]
            /\ Behind(pair.up, job[c].at, DOMAIN hub)
        BY <1>3, Setup DEF IInv
      <4>2. \/ r \in pair.held
            \/ \E j \in 1 .. job[c].at - 1 : pair.up[j].obj = r /\ Before(pair.up, j, job[c].at)
        BY <2>2, <3>2, <4>1, Catalogue DEF IInv, Typed, InOrder
      <4>3. r \in DOMAIN hub
        BY <1>3, <4>1, <4>2 DEF IInv, Kept, Behind
      <4> QED BY <1>2, <4>3
    <3> QED BY <1>2, <2>2, <3>1, <3>2 DEF There
  <2> QED BY <1>2, <2>1, <2>2 DEF NoDangling
<1> QED BY <1>2, <1>3 DEF HubKept

LEMMA WhatIsWritten ==
  ASSUME Typed, NEW c \in Callers, Goes(c), NEW saw \in SUBSET AllFields
  PROVE  /\ Own({c}, step(c).set) \in SUBSET AllFields
         /\ Written(c, saw) \in SUBSET AllFields
  BY Moving, OwnFields DEF Typed, Written, step

\* A step that only moves its caller.
LEMMA OnlyMoving ==
  ASSUME IInv, UNCHANGED <<name, pair, phase, hub>>, NEW c \in Callers, Goes(c), NEW p \in Places,
         Go(c, p), phase = "up" => Lands(p, DOMAIN hub)
  PROVE  Moved(c) /\ HubKept
  BY Untouched DEF Moved

LEMMA OnlyFailing ==
  ASSUME IInv, UNCHANGED <<name, pair, phase, hub>>, NEW c \in Callers, Goes(c), Failed(c)
  PROVE  Moved(c) /\ HubKept
  BY Failing, Untouched DEF Moved, IInv

-----------------------------------------------------------------------------
\* One lemma for each call.

LEMMA GetStep ==
  ASSUME IInv, NEW c \in Callers, Get(c)
  PROVE  IInv'
<1>1. Goes(c) /\ step(c).do \in Getting /\ UNCHANGED <<name, pair, phase, hub, faults>>
  BY DEF Get, Reading, Fail, Turns
<1>2. CASE Failed(c)
  BY <1>1, <1>2, OnlyFailing, Stepping DEF IInv, Typed
<1>3. CASE There(step(c).obj) /\ Go(c, Found(c))
  <2>1. Found(c) \in Places /\ (phase = "up" => Lands(Found(c), DOMAIN hub))
    BY <1>1, <1>3, Finding DEF IInv
  <2> QED BY <1>1, <1>3, <2>1, OnlyMoving, Stepping DEF IInv, Typed
<1>4. CASE Go(c, Missed(c)) /\ step(c).do \notin {"get", "update", "amend", "rewrite"}
  <2>1. Missed(c) \in Places /\ (phase = "up" => Lands(Missed(c), DOMAIN hub))
    BY <1>1, <1>4, GoingWithout DEF IInv
  <2> QED BY <1>1, <1>4, <2>1, OnlyMoving, Stepping DEF IInv, Typed
<1> QED BY <1>2, <1>3, <1>4 DEF Get, Fail, Turns

\* A call that has put the caller's object there.
LEMMA PutStep ==
  ASSUME IInv, NEW c \in Callers, Goes(c), There(step(c).obj) \/ step(c).do \in Creating,
         NEW fields \in SUBSET AllFields, Put(step(c).obj, fields), Succeed(c)
  PROVE  IInv'
<1>1. UNCHANGED <<name, pair, phase>> /\ faults' \in 0 .. MaxFaults
  BY HubAssumption DEF Succeed, IInv, Typed
<1>2. HubKept /\ step(c).obj \in DOMAIN hub'
  BY <1>1, Placed
<1>3. Moved(c)
  BY <1>2, Succeeding DEF IInv, HubKept, Moved
<1> QED BY <1>1, <1>2, <1>3, Stepping

LEMMA FailStep ==
  ASSUME IInv, NEW c \in Callers, Goes(c), Fail(c)
  PROVE  IInv'
  BY OnlyFailing, Stepping DEF IInv, Typed, Fail

LEMMA TurnsStep ==
  ASSUME IInv, NEW c \in Callers, Goes(c), NEW p \in Places, Turns(c, p),
         phase = "up" => Lands(p, DOMAIN hub)
  PROVE  IInv'
  BY OnlyMoving, Stepping DEF IInv, Typed, Turns

LEMMA CreateStep ==
  ASSUME IInv, NEW c \in Callers, CreateCall(c)
  PROVE  IInv'
<1>1. /\ Goes(c)
      /\ step(c).do \in {"create", "admit", "upsert", "ensure", "apply", "replace"}
  BY DEF CreateCall, Reading, Writing
<1>2. CASE Fail(c)
  BY <1>1, <1>2, FailStep
<1>3. CASE There(step(c).obj) /\ Turns(c, Holding(c, hub[step(c).obj]))
  <2>1. hub[step(c).obj] \in Reads
    BY <1>3 DEF There, IInv, Typed, Reads
  <2>2. /\ Holding(c, hub[step(c).obj]) \in Places
        /\ phase = "up" => Lands(Holding(c, hub[step(c).obj]), DOMAIN hub)
    BY <1>1, <2>1, Moving, Staying DEF IInv
  <2> QED BY <1>1, <1>3, <2>2, TurnsStep
<1>4. CASE There(step(c).obj) /\ Turns(c, Place(c, 1))
  <2>1. Place(c, 1) \in Places
    BY <1>1, Moving DEF IInv
  <2>2. ASSUME phase = "up"
        PROVE  Lands(Place(c, 1), DOMAIN hub)
    <3>1. Passable(pair.up, job[c].at, 1, DOMAIN hub)
      BY <1>1, <1>4, <2>2, Setup DEF IInv, There, Passable
    <3> QED BY <1>1, <2>2, <3>1, Landing DEF IInv
  <2> QED BY <1>1, <1>4, <2>1, <2>2, TurnsStep
<1>5. CASE Put(step(c).obj, Own({c}, step(c).set)) /\ Succeed(c)
  <2>1. Own({c}, step(c).set) \in SUBSET AllFields
    BY <1>1, WhatIsWritten DEF IInv
  <2>2. step(c).do \in Creating
    BY <1>1 DEF Creating
  <2> QED BY <1>1, <1>5, <2>1, <2>2, PutStep
<1> QED BY <1>2, <1>3, <1>4, <1>5 DEF CreateCall

LEMMA UpdateStep ==
  ASSUME IInv, NEW c \in Callers, UpdateCall(c)
  PROVE  IInv'
<1>1. Goes(c)
  BY DEF UpdateCall, Writing
<1>2. CASE Fail(c)
  BY <1>1, <1>2, FailStep
<1>3. CASE /\ step(c).do = "merge" \/ There(step(c).obj)
           /\ Put(step(c).obj, Written(c, job[c].saw)) /\ Succeed(c)
  <2>1. job[c].saw \in Reads /\ job[c].saw # Unread /\ job[c].saw # Missing
    BY DEF UpdateCall, Writing, IInv, Typed, Places
  <2>2. Written(c, job[c].saw) \in SUBSET AllFields
    BY <1>1, <2>1, WhatIsWritten DEF IInv, Reads
  <2> QED BY <1>1, <1>3, <2>2, PutStep DEF Creating
<1> QED BY <1>2, <1>3 DEF UpdateCall

LEMMA PatchStep ==
  ASSUME IInv, NEW c \in Callers, PatchCall(c)
  PROVE  IInv'
<1>1. Goes(c)
  BY DEF PatchCall, Reading
<1>2. CASE Fail(c)
  BY <1>1, <1>2, FailStep
<1>3. CASE There(step(c).obj) /\ Put(step(c).obj, Written(c, hub[step(c).obj])) /\ Succeed(c)
  <2>1. Written(c, hub[step(c).obj]) \in SUBSET AllFields
    BY <1>1, <1>3, WhatIsWritten DEF IInv, Typed, There
  <2> QED BY <1>1, <1>3, <2>1, PutStep
<1> QED BY <1>2, <1>3 DEF PatchCall

\* Only a teardown deletes.
LEMMA DeleteStep ==
  ASSUME IInv, NEW c \in Callers, DeleteCall(c)
  PROVE  IInv'
<1>1. Goes(c) /\ step(c).do \in {"delete", "purge", "prune"}
  BY DEF DeleteCall, Reading, Writing
<1>2. phase # "up"
  BY <1>1, Setup DEF IInv
<1>3. CASE Fail(c)
  BY <1>1, <1>3, FailStep
<1>4. CASE Erase(step(c).obj) /\ Succeed(c)
  <2>1. UNCHANGED <<name, pair, phase>> /\ faults' \in 0 .. MaxFaults
    BY <1>4, HubAssumption DEF Succeed, IInv, Typed
  <2>2. HubKept
    BY <1>2, <1>4, Erasing DEF IInv, HubKept
  <2>3. Moved(c)
    BY <1>1, <1>2, <1>4, Succeeding DEF IInv, Moved
  <2> QED BY <2>1, <2>2, <2>3, Stepping
<1> QED BY <1>3, <1>4 DEF DeleteCall

LEMMA PassStep ==
  ASSUME IInv, NEW c \in Callers, Pass(c)
  PROVE  IInv'
<1>1. Goes(c) /\ step(c).do \in {"list", "hop"}
  BY DEF Pass, Reading
<1>2. PICK n \in {1, 1 + step(c).hop} : Turns(c, Place(c, n))
  BY DEF Pass
<1>3. ASSUME phase = "up"
      PROVE  Lands(Place(c, n), DOMAIN hub)
  <2>1. Passable(pair.up, job[c].at, n, DOMAIN hub)
    BY <1>1, <1>3, Setup DEF IInv, Passable, Creating
  <2> QED BY <1>1, <1>3, <2>1, Landing DEF IInv
<1>4. Place(c, n) \in Places
  BY <1>1, Moving DEF IInv
<1> QED BY <1>1, <1>2, <1>3, <1>4, TurnsStep

LEMMA UndoStep ==
  ASSUME IInv, NEW c \in Callers, Undo(c)
  PROVE  IInv'
<1>1. job[c] \in Places /\ job[c].undo \in Seq(STRING) /\ job[c].undo # <<>>
  BY DEF Undo, IInv, Typed, Places
<1>2. phase # "up"
  BY <1>1 DEF IInv, Kept, Lands
<1>3. Tail(job[c].undo) \in Seq(STRING)
  <2>1. \A q \in Seq(STRING) : q # <<>> => Tail(q) \in Seq(STRING)
    OBVIOUS
  <2> QED BY <1>1, <2>1
<1>4. Unread \in Reads /\ 1 \in 1 .. Len(Steps) + 1
  BY StepsTyped DEF IInv, Typed, Reads
<1>5. Attempt(1, Unread, Tail(job[c].undo)) \in Places
  BY <1>3, <1>4 DEF Places, Attempt
<1>6. HubKept
  BY <1>2, Erasing DEF Undo, IInv, HubKept
<1>7. Moved(c)
  BY <1>2, <1>5 DEF Undo, Moved
<1> QED BY <1>6, <1>7, Stepping DEF Undo, IInv, Typed

LEMMA FaultStep ==
  ASSUME IInv, NEW c \in Callers, Fault(c)
  PROVE  IInv'
<1>1. /\ Goes(c)
      /\ UNCHANGED <<name, pair, phase, hub>>
      /\ faults' \in 0 .. MaxFaults
  BY HubAssumption DEF Fault, IInv, Typed
<1>2. CASE Failed(c)
  BY <1>1, <1>2, OnlyFailing, Stepping
<1>3. CASE step(c).blind /\ Go(c, Missed(c))
  <2>1. Missed(c) \in Places /\ (phase = "up" => Lands(Missed(c), DOMAIN hub))
    BY <1>1, <1>3, GoingWithout DEF IInv
  <2> QED BY <1>1, <1>3, <2>1, OnlyMoving, Stepping
<1>4. CASE step(c).unsure /\ Go(c, Place(c, 1 + step(c).hop))
  <2>1. Place(c, 1 + step(c).hop) \in Places
    BY <1>1, Moving DEF IInv
  <2>2. ASSUME phase = "up"
        PROVE  Lands(Place(c, 1 + step(c).hop), DOMAIN hub)
    <3>1. Passable(pair.up, job[c].at, 1 + step(c).hop, DOMAIN hub)
      BY <1>1, <1>4, <2>2, Setup DEF IInv, Passable
    <3> QED BY <1>1, <2>2, <3>1, Landing DEF IInv
  <2> QED BY <1>1, <1>4, <2>1, <2>2, OnlyMoving, Stepping
<1> QED BY <1>2, <1>3, <1>4 DEF Fault

LEMMA Beginning ==
  ASSUME name \in DOMAIN Pairs, pair = Pairs[name]
  PROVE  /\ phase \in {"up", "down"} => Fresh \in Places
         /\ \A H : Lands(Fresh, H)
<1>1. Unread \in Reads /\ <<>> \in Seq(STRING)
  BY DEF Reads
<1>2. phase \in {"up", "down"} => 1 \in 1 .. Len(Steps) + 1
  BY StepsTyped
<1> QED BY <1>1, <1>2 DEF Fresh, Attempt, Places, Lands, Behind

LEMMA KillStep ==
  ASSUME IInv, NEW c \in Callers, Kill(c)
  PROVE  IInv'
<1>1. UNCHANGED <<name, pair, phase, hub>> /\ faults' \in 0 .. MaxFaults
  BY HubAssumption DEF Kill, IInv, Typed
<1>2. HubKept
  BY <1>1, Untouched
<1>3. Fresh \in Places /\ Lands(Fresh, DOMAIN hub')
  BY Beginning DEF IInv, Typed
<1>4. Moved(c)
  BY <1>3 DEF Kill, Moved
<1> QED BY <1>1, <1>2, <1>4, Stepping

LEMMA TurnStep ==
  ASSUME IInv, Turn
  PROVE  IInv'
<1>1. phase' = "down" /\ UNCHANGED <<name, pair, hub, faults>>
  BY DEF Turn
<1>2. pair' = pair /\ AllFields' = AllFields /\ AllObjects' = AllObjects /\ Reads' = Reads
  BY <1>1 DEF AllFields, AllObjects, Reads, Fields, Own, Objects
<1>3. Steps' = pair.down /\ Len(pair.down) \in Nat
  BY <1>1, <1>2, Catalogue DEF Steps, IInv, Typed, IsOperation
<1>4. Fresh \in Places'
  BY <1>2, <1>3 DEF Fresh, Attempt, Places, Reads
<1>5. job' \in [Callers -> Places']
  BY <1>4 DEF Turn
<1>6. Typed'
  BY <1>1, <1>2, <1>5 DEF IInv, Typed
<1> QED BY <1>1, <1>6 DEF IInv, Kept, NoDangling

-----------------------------------------------------------------------------
\* The theorems.

LEMMA Starting ==
  ASSUME Init
  PROVE  IInv
<1>1. name \in DOMAIN Pairs /\ pair = Pairs[name] /\ phase = "up"
  BY DEF Init
<1>2. Fresh \in Places /\ Lands(Fresh, DOMAIN hub)
  BY <1>1, Beginning
<1>3. DOMAIN hub = pair.held /\ hub \in [DOMAIN hub -> SUBSET AllFields]
  BY DEF Init
<1>4. job = [c \in Callers |-> Fresh]
  BY DEF Init
<1>5. Typed
  BY <1>1, <1>2, <1>3, <1>4, HubAssumption DEF Init, Typed, AllObjects
<1>6. Kept
  BY <1>2, <1>3, <1>4 DEF Kept
<1>7. NoDangling
  BY <1>1, <1>3, Catalogue DEF NoDangling, InOrder
<1> QED BY <1>5, <1>6, <1>7 DEF IInv

LEMMA Inductive ==
  ASSUME IInv, [Next]_vars
  PROVE  IInv'
<1>1. ASSUME NEW c \in Callers, Call(c)
      PROVE  IInv'
  <2>1. CASE MergeConflict(c)
    BY <2>1, FailStep DEF MergeConflict, Writing
  <2> QED BY <1>1, <2>1, GetStep, CreateStep, UpdateStep, PatchStep, DeleteStep, PassStep, UndoStep
          DEF Call
<1>2. CASE UNCHANGED vars
  BY <1>2 DEF vars, IInv, Typed, Kept, NoDangling, Lands, Behind, Places, Reads, Steps,
              AllFields, AllObjects, Fields, Own, Objects
<1> QED BY <1>1, <1>2, FaultStep, KillStep, TurnStep DEF Next

LEMMA Invariance == Spec => []IInv
<1>1. Init => IInv
  BY Starting
<1>2. IInv /\ [Next]_vars => IInv'
  BY Inductive
<1> QED BY <1>1, <1>2, PTL DEF Spec

\* Whatever the catalogue of operations, the hub holds only the objects and the
\* fields that an operation writes, and every caller is at one of its steps
\* (Hub's TypeOK).
THEOREM HubTypeCorrect == Spec => []TypeOK
<1>1. IInv => TypeOK
  BY DEF IInv, Typed, TypeOK, Places, AllFields, AllObjects
<1> QED BY <1>1, Invariance, PTL

\* However the attempts of any number of callers overlap, fail and are killed, no
\* operation of a catalogue that is in order leaves an object that refers to one
\* that is missing (Hub's NoDangling).
THEOREM NoReferenceDangles == Spec => []NoDangling
<1>1. IInv => NoDangling
  BY DEF IInv
<1> QED BY <1>1, Invariance, PTL

-----------------------------------------------------------------------------
(* A setup is complete.  What a caller has passed for certain has been left; an
   object that a step takes as it finds it has what that step would have made of
   it; and what a caller is about to write over an object has that too.  Of the
   fields of a step those count that no step of the setup clears. *)

Made(i) == i \in DOMAIN pair.up /\ pair.up[i].do \in Making /\ Always(pair.up, i)

Standing ==
  \A i \in DOMAIN pair.up : Made(i) /\ pair.up[i].do \in {"ensure", "admit"} /\ There(pair.up[i].obj) =>
    pair.up[i].obj \in dropped \/ Fixed(pair.up, i) \subseteq hub[pair.up[i].obj]

Known(c, saw) ==
  step(c).do \in Overwriting =>
    \A i \in DOMAIN pair.up : Made(i) /\ pair.up[i].obj = step(c).obj =>
      step(c).obj \in dropped \/ Fixed(pair.up, i) \subseteq saw \cup step(c).set

LastInv ==
  phase = "up" =>
    /\ Standing
    /\ \A c \in Callers :
         /\ \A i \in DOMAIN pair.up : Made(i) /\ i < job[c].at => Left(c, i)
         /\ Goes(c) /\ job[c].saw \notin {Unread, Missing} => Known(c, job[c].saw)

\* The catalogue again.
LEMMA Makings ==
  ASSUME Typed, NEW i \in DOMAIN pair.up, Made(i)
  PROVE  /\ ~ pair.up[i].unsure
         /\ pair.up[i].blind => pair.up[i].do \in {"ensure", "apply", "replace"}
         /\ pair.up[i].obj \in pair.held /\ pair.up[i].do \in {"ensure", "admit"} => Fixed(pair.up, i) = {}
  BY HubAssumption DEF Typed, Made, Lasting

LEMMA Others ==
  ASSUME Typed, NEW i \in DOMAIN pair.up, Made(i), NEW j \in DOMAIN pair.up,
         pair.up[j].obj = pair.up[i].obj
  PROVE  /\ pair.up[j].clear \cap Fixed(pair.up, i) = {}
         /\ Fixed(pair.up, i) \subseteq pair.up[i].set
         /\ ~ (pair.up[j].do = "merge" /\ pair.up[j].blind)
         /\ pair.up[j].do \in Overwriting =>
              /\ Fixed(pair.up, i) \subseteq pair.up[j].set \/ i < j
              /\ Fixed(pair.up, i) \cap Mine = {}
         /\ pair.up[i].do \in {"ensure", "admit"} =>
              /\ pair.up[j].do \in Creating => Fixed(pair.up, i) \subseteq pair.up[j].set
              /\ Fixed(pair.up, i) \cap Mine = {}
<1>1. /\ pair.up[j].clear \cap Fixed(pair.up, i) = {}
      /\ Fixed(pair.up, i) \subseteq pair.up[i].set
  BY DEF Fixed, StepsOn
<1>2. Lasting(pair)
  BY HubAssumption DEF Typed
<1>3. j \in StepsOn(pair.up, pair.up[i].obj)
  BY DEF StepsOn
<1> QED BY <1>1, <1>2, <1>3 DEF Made, Lasting

\* What one caller clears is not what another one sets, if their steps name
\* different fields.
LEMMA Apart ==
  ASSUME Typed, NEW c \in Callers, NEW d \in Callers, NEW i \in DOMAIN pair.up, NEW j \in DOMAIN pair.up,
         pair.up[j].clear \cap Fixed(pair.up, i) = {}
  PROVE  Own({d}, pair.up[j].clear) \cap Own({c}, Fixed(pair.up, i)) = {}
<1>1. Callers \cap (pair.up[i].set \cup pair.up[j].clear) = {}
  BY HubAssumption DEF Typed, Named
<1>2. Fixed(pair.up, i) \subseteq pair.up[i].set
  BY DEF Fixed
<1> QED BY <1>1, <1>2 DEF Own, Mine

LEMMA Plain ==
  ASSUME NEW callers, NEW fields, fields \cap Mine = {}
  PROVE  /\ Own(callers, fields) = fields
         /\ \A others : fields \subseteq others => fields \subseteq Own(callers, others)
  BY DEF Own, Mine

\* A write keeps what a step has left, if it starts from what is there or from
\* what has it.
LEMMA WriteKeeps ==
  ASSUME Typed, phase = "up", NEW c \in Callers, NEW d \in Callers, job[c].at \in DOMAIN pair.up,
         step(c) = pair.up[job[c].at],
         NEW i \in DOMAIN pair.up, Made(i), pair.up[i].obj = step(c).obj,
         NEW saw,
         \/ Own({d}, Fixed(pair.up, i)) \subseteq saw
         \/ step(c).do \in Overwriting /\ Fixed(pair.up, i) \subseteq saw \cup step(c).set
  PROVE  Own({d}, Fixed(pair.up, i)) \subseteq Written(c, saw)
<1>1. step(c).clear \cap Fixed(pair.up, i) = {}
  BY Others
<1>2. Own({c}, step(c).clear) \cap Own({d}, Fixed(pair.up, i)) = {}
  BY <1>1, Apart
<1>3. CASE step(c).do \in Overwriting /\ Fixed(pair.up, i) \subseteq saw \cup step(c).set
  <2>1. Fixed(pair.up, i) \cap Mine = {}
    BY <1>3, Others
  <2>2. Fixed(pair.up, i) \subseteq saw \cup Own({c}, step(c).set)
    BY <1>3, <2>1 DEF Own
  <2>3. Own({d}, Fixed(pair.up, i)) = Fixed(pair.up, i)
    BY <2>1, Plain
  <2> QED BY <1>2, <2>2, <2>3 DEF Written
<1> QED BY <1>2, <1>3 DEF Written

\* What has been left stays.
HubLasts ==
  /\ Standing'
  /\ \A d \in Callers, i \in DOMAIN pair.up : Made(i) /\ Left(d, i) => Left(d, i)'

\* A caller's step leaves what it makes.
Leaves(c) == \A i \in DOMAIN pair.up : i = job[c].at /\ Made(i) => Left(c, i)'

\* A caller moves on, behind it what it has left.
Onward(c) ==
  \E p \in Places :
    /\ Go(c, p)
    /\ \A i \in DOMAIN pair.up : Made(i) /\ i < p.at => Left(c, i)'
    /\ p.saw \in {Unread, Missing} \/ (p.at = job[c].at /\ Known(c, p.saw))

LEMMA LastMoves ==
  ASSUME IInv, LastInv, phase = "up", UNCHANGED <<name, pair, phase>>, dropped \subseteq dropped',
         NEW c \in Callers, HubLasts, Onward(c)
  PROVE  LastInv'
<1>1. Steps' = Steps /\ pair' = pair /\ (\A i \in DOMAIN pair.up : Made(i)' <=> Made(i))
  BY DEF Steps, Made
<1>2. PICK p \in Places :
        /\ Go(c, p)
        /\ \A i \in DOMAIN pair.up : Made(i) /\ i < p.at => Left(c, i)'
        /\ p.saw \in {Unread, Missing} \/ (p.at = job[c].at /\ Known(c, p.saw))
  BY DEF Onward
<1>3. job'[c] = p /\ \A d \in Callers \ {c} : job'[d] = job[d]
  BY <1>2 DEF Go, IInv, Typed
<1>4. ASSUME NEW d \in Callers
      PROVE  /\ \A i \in DOMAIN pair.up : Made(i) /\ i < job'[d].at => Left(d, i)'
             /\ Goes(d)' /\ job'[d].saw \notin {Unread, Missing} => Known(d, job[d].saw)'
  <2>1. CASE d = c
    <3>1. ASSUME Goes(c)', p.saw \notin {Unread, Missing} PROVE Known(c, job[c].saw)'
      <4>1. p.at = job[c].at /\ Known(c, p.saw)
        BY <1>2, <3>1
      <4>2. step(c)' = step(c)
        BY <1>1, <1>3, <4>1 DEF step
      <4> QED BY <1>1, <1>3, <4>1, <4>2 DEF Known
    <3> QED BY <1>2, <1>3, <2>1, <3>1
  <2>2. CASE d # c
    <3>1. \A i \in DOMAIN pair.up : Made(i) /\ i < job[d].at => Left(d, i)
      BY DEF LastInv
    <3>2. ASSUME Goes(d)', job[d].saw \notin {Unread, Missing} PROVE Known(d, job[d].saw)'
      <4>1. Goes(d) /\ step(d)' = step(d) /\ job'[d] = job[d]
        BY <1>1, <1>3, <2>2, <3>2 DEF Goes, Done, step
      <4>2. Known(d, job[d].saw)
        BY <3>2, <4>1 DEF LastInv
      <4> QED BY <1>1, <4>1, <4>2 DEF Known
    <3> QED BY <1>3, <2>2, <3>1, <3>2 DEF HubLasts
  <2> QED BY <2>1, <2>2
<1> QED BY <1>1, <1>4 DEF LastInv, HubLasts

\* A step that every way takes is not passed over.
LEMMA Onwards ==
  ASSUME IInv, LastInv, phase = "up", UNCHANGED <<name, pair, phase>>, NEW c \in Callers, Goes(c),
         HubLasts, Leaves(c), NEW n \in {1, 1 + step(c).hop},
         Go(c, Place(c, n))
  PROVE  Onward(c)
<1>1. /\ job[c].at \in DOMAIN pair.up /\ step(c) = pair.up[job[c].at]
      /\ Place(c, n) \in Places
  BY Setup, Moving DEF IInv
<1>2. Place(c, n).at = job[c].at + n /\ Place(c, n).saw = Unread
  BY DEF Place, Attempt
<1>3. pair.up \in Seq(StepType)
  BY Catalogue DEF IInv, Typed, IsOperation
<1>4. step(c).hop \in Nat /\ job[c].at \in Nat \ {0} /\ DOMAIN pair.up = 1 .. Len(pair.up)
  <2>1. step(c) \in StepType /\ DOMAIN pair.up = 1 .. Len(pair.up) /\ Len(pair.up) \in Nat
    BY <1>1, <1>3
  <2> QED BY <1>1, <2>1 DEF StepType
<1>5. ASSUME NEW i \in DOMAIN pair.up, Made(i), i < job[c].at + n PROVE Left(c, i)'
  <2>1. CASE i < job[c].at
    BY <1>5, <2>1 DEF LastInv, HubLasts
  <2>2. CASE i = job[c].at
    BY <1>5, <2>2 DEF Leaves
  <2>3. CASE i > job[c].at
    <3>1. job[c].at \in 1 .. i - 1 /\ i <= job[c].at + step(c).hop
      BY <1>4, <1>5, <2>3
    <3> QED BY <1>1, <1>4, <1>5, <3>1 DEF Made, Always
  <2> QED BY <1>4, <2>1, <2>2, <2>3
<1> QED BY <1>1, <1>2, <1>5 DEF Onward

LEMMA FailsOnward ==
  ASSUME IInv, LastInv, phase = "up", UNCHANGED <<name, pair, phase>>, NEW c \in Callers, Goes(c),
         dropped \subseteq dropped' => HubLasts, Failed(c)
  PROVE  Onward(c) /\ dropped \subseteq dropped'
<1>1. CASE step(c).skip
  <2>1. dropped' = dropped \cup {step(c).obj} /\ Go(c, Place(c, 1 + step(c).hop))
    BY <1>1 DEF Failed
  <2>2. Leaves(c)
    BY <2>1, Setup DEF IInv, Left, Leaves
  <2>3. dropped \subseteq dropped' /\ HubLasts
    BY <2>1
  <2>4. Onward(c)
    BY <2>1, <2>2, <2>3, Onwards
  <2> QED BY <2>3, <2>4
<1>2. CASE ~ step(c).skip
  <2>1. /\ dropped' = dropped /\ Go(c, Attempt(1, Unread, step(c).undo))
        /\ Attempt(1, Unread, step(c).undo) \in Places
    <3>1. step(c).undo \in Seq(STRING)
      BY Moving DEF IInv, StepType
    <3> QED BY <1>2, <3>1, Moving DEF Failed, IInv
  <2>2. pair.up \in Seq(StepType)
    BY Catalogue DEF IInv, Typed, IsOperation
  <2>3. \A i \in DOMAIN pair.up : ~ i < 1
    BY <2>2
  <2> QED BY <2>1, <2>3 DEF Onward, Attempt
<1> QED BY <1>1, <1>2

LEMMA SucceedsOnward ==
  ASSUME IInv, LastInv, phase = "up", NEW c \in Callers, Goes(c), Succeed(c),
         dropped \subseteq dropped' => HubLasts /\ Leaves(c)
  PROVE  LastInv'
<1>1. UNCHANGED <<name, pair, phase>>
  BY DEF Succeed
<1>2. CASE Passed(c) /\ UNCHANGED dropped
  <2>1. PICK n \in {1, 1 + step(c).hop} : Go(c, Place(c, n))
    BY <1>2 DEF Passed
  <2>2. Onward(c)
    BY <1>1, <1>2, <2>1, Onwards
  <2> QED BY <1>1, <1>2, <2>2, LastMoves
<1>3. CASE Failed(c)
  BY <1>1, <1>3, FailsOnward, LastMoves
<1> QED BY <1>2, <1>3 DEF Succeed

LEMMA HubStays ==
  ASSUME LastInv, phase = "up", UNCHANGED <<pair, hub>>, dropped \subseteq dropped'
  PROVE  HubLasts
  BY DEF LastInv, HubLasts, Standing, Left, There, Made

\* A write that keeps what has been left on the object, or that makes of a new one
\* what every step expects to find.
LEMMA PutLasts ==
  ASSUME IInv, LastInv, phase = "up", UNCHANGED pair, dropped \subseteq dropped',
         NEW c \in Callers, Goes(c), NEW fields, Put(step(c).obj, fields),
         \A d \in Callers, i \in DOMAIN pair.up :
           /\ Made(i) /\ pair.up[i].obj = step(c).obj
           /\ There(step(c).obj) /\ step(c).obj \notin dropped
           /\ Own({d}, Fixed(pair.up, i)) \subseteq hub[step(c).obj]
           => Own({d}, Fixed(pair.up, i)) \subseteq fields,
         \A i \in DOMAIN pair.up :
           /\ Made(i) /\ pair.up[i].obj = step(c).obj /\ pair.up[i].do \in {"ensure", "admit"}
           /\ ~ There(step(c).obj)
           => Fixed(pair.up, i) \subseteq fields,
         \A i \in DOMAIN pair.up :
           i = job[c].at /\ Made(i) => Own({c}, Fixed(pair.up, i)) \subseteq fields
  PROVE  HubLasts /\ Leaves(c)
<1> DEFINE o == step(c).obj
<1>1. /\ DOMAIN hub' = DOMAIN hub \cup {o} /\ hub'[o] = fields
      /\ \A x \in DOMAIN hub : x # o => hub'[x] = hub[x]
  BY DEF Put
<1>2. pair' = pair /\ \A i \in DOMAIN pair.up : Made(i)' <=> Made(i)
  BY DEF Made
<1>3. ASSUME NEW d \in Callers, NEW i \in DOMAIN pair.up, Made(i), Left(d, i)
      PROVE  Left(d, i)'
  <2>1. CASE pair.up[i].obj = o
    BY <1>1, <1>2, <1>3, <2>1 DEF Left, There
  <2>2. CASE pair.up[i].obj # o
    BY <1>1, <1>2, <1>3, <2>2 DEF Left, There
  <2> QED BY <2>1, <2>2
<1>4. ASSUME NEW i \in DOMAIN pair.up, Made(i), pair.up[i].do \in {"ensure", "admit"},
             There(pair.up[i].obj)', pair.up[i].obj \notin dropped'
      PROVE  Fixed(pair.up, i) \subseteq hub'[pair.up[i].obj]
  <2>1. CASE pair.up[i].obj # o
    BY <1>1, <1>4, <2>1 DEF LastInv, Standing, There
  <2>2. CASE pair.up[i].obj = o /\ There(o)
    <3>1. Fixed(pair.up, i) \cap Mine = {}
      BY <1>4, Others DEF IInv
    <3>2. Own({c}, Fixed(pair.up, i)) = Fixed(pair.up, i)
      BY <3>1, Plain
    <3>3. Fixed(pair.up, i) \subseteq hub[o]
      BY <1>4, <2>2 DEF LastInv, Standing
    <3>4. o \notin dropped
      BY <1>4, <2>2
    <3>5. Own({c}, Fixed(pair.up, i)) \subseteq fields
      BY <1>4, <2>2, <3>2, <3>3, <3>4
    <3> QED BY <1>1, <2>2, <3>2, <3>5
  <2>3. CASE pair.up[i].obj = o /\ ~ There(o)
    BY <1>1, <1>4, <2>3
  <2> QED BY <2>1, <2>2, <2>3
<1>5. HubLasts
  BY <1>2, <1>3, <1>4 DEF HubLasts, Standing
<1>6. Leaves(c)
  <2> SUFFICES ASSUME NEW i \in DOMAIN pair.up, i = job[c].at, Made(i) PROVE Left(c, i)'
    BY DEF Leaves
  <2>1. pair.up[i].obj = o
    BY Setup DEF IInv
  <2> QED BY <1>1, <1>2, <2>1 DEF Left, There
<1> QED BY <1>5, <1>6

\* An object that is created.
LEMMA CreateLasts ==
  ASSUME IInv, LastInv, phase = "up", NEW c \in Callers, Goes(c), step(c).do \in Creating,
         ~ There(step(c).obj), Put(step(c).obj, Own({c}, step(c).set)), Succeed(c)
  PROVE  LastInv'
<1>1. job[c].at \in DOMAIN pair.up /\ step(c) = pair.up[job[c].at]
  BY Setup DEF IInv
<1>2. \A i \in DOMAIN pair.up :
        Made(i) /\ pair.up[i].obj = step(c).obj /\ pair.up[i].do \in {"ensure", "admit"}
        => Fixed(pair.up, i) \subseteq Own({c}, step(c).set)
  <2> SUFFICES ASSUME NEW i \in DOMAIN pair.up, Made(i), pair.up[i].obj = step(c).obj,
                      pair.up[i].do \in {"ensure", "admit"}
               PROVE  Fixed(pair.up, i) \subseteq Own({c}, step(c).set)
    OBVIOUS
  <2>1. Fixed(pair.up, i) \subseteq step(c).set /\ Fixed(pair.up, i) \cap Mine = {}
    BY <1>1, Others DEF IInv
  <2> QED BY <2>1 DEF Own
<1>3. \A i \in DOMAIN pair.up :
        i = job[c].at /\ Made(i) => Own({c}, Fixed(pair.up, i)) \subseteq Own({c}, step(c).set)
  BY <1>1 DEF Fixed, Own
<1>4. dropped \subseteq dropped' => HubLasts /\ Leaves(c)
  BY <1>1, <1>2, <1>3, PutLasts DEF Succeed
<1> QED BY <1>4, SucceedsOnward

\* An object that is written, from what is there or from what was read.
LEMMA WriteLasts ==
  ASSUME IInv, LastInv, phase = "up", NEW c \in Callers, Goes(c), NEW saw,
         There(step(c).obj) \/ step(c).do = "merge",
         Put(step(c).obj, Written(c, saw)), Succeed(c),
         (There(step(c).obj) /\ saw = hub[step(c).obj]) \/ (step(c).do \in Overwriting /\ Known(c, saw))
  PROVE  LastInv'
<1> DEFINE o == step(c).obj
<1>1. job[c].at \in DOMAIN pair.up /\ step(c) = pair.up[job[c].at]
  BY Setup DEF IInv
<1>2. ASSUME NEW d \in Callers, NEW i \in DOMAIN pair.up, Made(i), pair.up[i].obj = o,
             There(o), o \notin dropped, Own({d}, Fixed(pair.up, i)) \subseteq hub[o]
      PROVE  Own({d}, Fixed(pair.up, i)) \subseteq Written(c, saw)
  <2>1. \/ Own({d}, Fixed(pair.up, i)) \subseteq saw
        \/ step(c).do \in Overwriting /\ Fixed(pair.up, i) \subseteq saw \cup step(c).set
    BY <1>2 DEF Known
  <2> QED BY <1>1, <1>2, <2>1, WriteKeeps DEF IInv
<1>3. ASSUME NEW i \in DOMAIN pair.up, Made(i), pair.up[i].obj = o,
             pair.up[i].do \in {"ensure", "admit"}, ~ There(o)
      PROVE  Fixed(pair.up, i) \subseteq Written(c, saw)
  <2>1. Fixed(pair.up, i) \subseteq step(c).set /\ Fixed(pair.up, i) \cap Mine = {}
    BY <1>1, <1>3, Others DEF IInv, Creating
  <2>2. Own({c}, Fixed(pair.up, i)) \subseteq Written(c, saw)
    BY <1>1, <1>3, <2>1, WriteKeeps DEF IInv, Overwriting
  <2> QED BY <2>1, <2>2, Plain
<1>4. ASSUME NEW i \in DOMAIN pair.up, i = job[c].at, Made(i)
      PROVE  Own({c}, Fixed(pair.up, i)) \subseteq Written(c, saw)
  <2>1. Own({c}, pair.up[i].clear) \cap Own({c}, Fixed(pair.up, i)) = {}
    BY <1>4, Others, Apart DEF IInv
  <2>2. Own({c}, Fixed(pair.up, i)) \subseteq Own({c}, step(c).set)
    BY <1>1, <1>4 DEF Fixed, Own
  <2> QED BY <1>1, <1>4, <2>1, <2>2 DEF Written
<1>5. dropped \subseteq dropped' => HubLasts /\ Leaves(c)
  BY <1>2, <1>3, <1>4, PutLasts DEF Succeed
<1> QED BY <1>5, SucceedsOnward

\* A call that leaves the hub as it was.
LEMMA FailLasts ==
  ASSUME IInv, LastInv, phase = "up", UNCHANGED <<name, pair, phase, hub>>,
         NEW c \in Callers, Goes(c), Failed(c)
  PROVE  LastInv'
  BY HubStays, FailsOnward, LastMoves

\* What a caller has read of an object has what was left there.
LEMMA ReadKnown ==
  ASSUME IInv, LastInv, phase = "up", NEW c \in Callers, Goes(c),
         NEW saw, There(step(c).obj) => saw = hub[step(c).obj]
  PROVE  Known(c, saw)
<1>1. job[c].at \in DOMAIN pair.up /\ step(c) = pair.up[job[c].at]
  BY Setup DEF IInv
<1> SUFFICES ASSUME step(c).do \in Overwriting, NEW i \in DOMAIN pair.up, Made(i),
                    pair.up[i].obj = step(c).obj, step(c).obj \notin dropped
             PROVE  Fixed(pair.up, i) \subseteq saw \cup step(c).set
  BY DEF Known
<1>2. (Fixed(pair.up, i) \subseteq step(c).set \/ i < job[c].at) /\ Fixed(pair.up, i) \cap Mine = {}
  BY <1>1, Others DEF IInv
<1>3. i < job[c].at => Left(c, i)
  BY DEF LastInv
<1> QED BY <1>2, <1>3, Plain DEF Left

LEMMA HoldLasts ==
  ASSUME IInv, LastInv, phase = "up", NEW c \in Callers, Goes(c), NEW content \in Reads,
         UNCHANGED <<name, pair, phase, hub, dropped>>, Go(c, Holding(c, content)),
         content = Missing \/ Known(c, content)
  PROVE  LastInv'
<1>1. Holding(c, content) \in Places
  BY Moving DEF IInv
<1>2. Holding(c, content).at = job[c].at /\ Holding(c, content).saw = content
  BY DEF Holding, Attempt
<1>4. HubLasts
  BY HubStays
<1>5. \A i \in DOMAIN pair.up : Made(i) /\ i < job[c].at => Left(c, i)'
  BY <1>4 DEF LastInv, HubLasts
<1>6. Onward(c)
  BY <1>1, <1>2, <1>5 DEF Onward
<1> QED BY <1>4, <1>6, LastMoves

\* A caller that passes a step which makes nothing, or finds it made.
LEMMA PassLasts ==
  ASSUME IInv, LastInv, phase = "up", NEW c \in Callers, Goes(c),
         UNCHANGED <<name, pair, phase, hub, dropped>>, NEW n \in {1, 1 + step(c).hop},
         Go(c, Place(c, n)),
         \/ ~ Made(job[c].at)
         \/ step(c).do \in {"ensure", "admit"} /\ There(step(c).obj)
  PROVE  LastInv'
<1>1. job[c].at \in DOMAIN pair.up /\ step(c) = pair.up[job[c].at]
  BY Setup DEF IInv
<1>2. HubLasts
  BY HubStays
<1>3. ASSUME NEW i \in DOMAIN pair.up, i = job[c].at, Made(i) PROVE Left(c, i)'
  <2>1. Left(c, i)
    BY <1>1, <1>3, Others, Plain DEF IInv, LastInv, Standing, Left
  <2> QED BY <1>2, <1>3, <2>1 DEF HubLasts
<1>4. Onward(c)
  BY <1>2, <1>3, Onwards DEF Leaves
<1> QED BY <1>2, <1>4, LastMoves

\* The attempt is over, or begins again.
LEMMA EndLasts ==
  ASSUME IInv, LastInv, phase = "up", NEW c \in Callers,
         UNCHANGED <<name, pair, phase, hub, dropped>>,
         \/ Go(c, Fresh)
         \/ Goes(c) /\ step(c).do = "quit" /\ Go(c, End)
  PROVE  LastInv'
<1>1. HubLasts
  BY HubStays
<1>2. pair.up \in Seq(StepType)
  BY Catalogue DEF IInv, Typed, IsOperation
<1>3. CASE Go(c, Fresh)
  <2>1. Fresh \in Places /\ Fresh.at = 1 /\ Fresh.saw = Unread
    BY Beginning DEF IInv, Typed, Fresh, Attempt
  <2>2. \A i \in DOMAIN pair.up : ~ i < 1
    BY <1>2
  <2>3. Onward(c)
    BY <1>3, <2>1, <2>2 DEF Onward
  <2> QED BY <1>1, <2>3, LastMoves
<1>4. CASE Goes(c) /\ step(c).do = "quit" /\ Go(c, End)
  <2>1. job[c].at \in DOMAIN pair.up /\ step(c) = pair.up[job[c].at] /\ Steps = pair.up
    BY <1>4, Setup DEF IInv
  <2>2. End \in Places /\ End.at = Len(pair.up) + 1 /\ End.saw = Unread
    BY <1>4, <2>1, Moving DEF IInv, End, Attempt
  <2>3. DOMAIN pair.up = 1 .. Len(pair.up)
    BY <1>2
  <2>4. ASSUME NEW i \in DOMAIN pair.up, Made(i) PROVE Left(c, i)'
    <3>1. i < job[c].at
      <4>1. CASE i = job[c].at
        BY <1>4, <2>1, <2>4, <4>1 DEF Made, Making
      <4>2. CASE i > job[c].at
        <5>1. job[c].at \in 1 .. i - 1
          BY <2>1, <2>3, <4>2
        <5> QED BY <1>4, <2>1, <2>4, <5>1 DEF Made, Always
      <4> QED BY <2>1, <2>3, <4>1, <4>2
    <3> QED BY <1>1, <2>4, <3>1 DEF LastInv, HubLasts
  <2>5. Onward(c)
    BY <1>4, <2>2, <2>4 DEF Onward
  <2> QED BY <1>1, <2>5, LastMoves
<1> QED BY <1>3, <1>4

-----------------------------------------------------------------------------
\* One lemma for each call of a setup.

LEMMA GetLasts ==
  ASSUME IInv, LastInv, phase = "up", NEW c \in Callers, Get(c)
  PROVE  LastInv'
<1>1. /\ Goes(c) /\ step(c).do \in Getting
      /\ job[c].at \in DOMAIN pair.up /\ step(c) = pair.up[job[c].at]
      /\ step(c).do \notin {"delete", "purge", "prune"}
  BY Setup DEF Get, Reading, IInv
<1>2. CASE Fail(c)
  BY <1>1, <1>2, FailLasts DEF Fail
<1>3. CASE There(step(c).obj) /\ step(c).do # "refuse" /\ Turns(c, Found(c))
  <2>1. UNCHANGED <<name, pair, phase, hub, dropped>> /\ Go(c, Found(c))
    BY <1>3 DEF Turns
  <2>2. CASE Found(c) = Holding(c, hub[step(c).obj])
    <3>1. hub[step(c).obj] \in Reads
      BY <1>3 DEF There, IInv, Typed, Reads
    <3>2. Known(c, hub[step(c).obj])
      BY <1>1, ReadKnown
    <3> QED BY <1>1, <2>1, <2>2, <3>1, <3>2, HoldLasts
  <2>3. CASE Found(c) = Place(c, 1 + step(c).hop) /\ step(c).do = "jump"
    <3>1. ~ Made(job[c].at)
      BY <1>1, <2>3 DEF Made, Making
    <3> QED BY <1>1, <2>1, <2>3, <3>1, PassLasts
  <2>4. CASE Found(c) = Place(c, 1) /\ step(c).do \in {"get", "quit", "when", "ensure"}
    <3>1. ~ Made(job[c].at) \/ step(c).do = "ensure"
      BY <1>1, <2>4 DEF Made, Making
    <3> QED BY <1>1, <1>3, <2>1, <2>4, <3>1, PassLasts
  <2> QED BY <1>1, <1>3, <2>2, <2>3, <2>4 DEF Found, Getting
<1>4. CASE /\ ~ There(step(c).obj) /\ step(c).do \notin {"get", "update", "amend", "rewrite"}
           /\ Turns(c, Missed(c))
  <2>1. UNCHANGED <<name, pair, phase, hub, dropped>> /\ Go(c, Missed(c))
    BY <1>4 DEF Turns
  <2>2. CASE Missed(c) = Holding(c, Missing)
    BY <1>1, <2>1, <2>2, HoldLasts DEF Reads
  <2>3. CASE Missed(c) = Holding(c, {})
    <3>1. Known(c, {})
      BY <1>1, <1>4, ReadKnown
    <3> QED BY <1>1, <2>1, <2>3, <3>1, HoldLasts DEF Reads
  <2>4. CASE Missed(c) = Place(c, 1 + step(c).hop) /\ step(c).do = "when"
    <3>1. ~ Made(job[c].at)
      BY <1>1, <2>4 DEF Made, Making
    <3> QED BY <1>1, <2>1, <2>4, <3>1, PassLasts
  <2>5. CASE Missed(c) = End /\ step(c).do = "quit"
    BY <1>1, <2>1, <2>5, EndLasts
  <2>6. CASE Missed(c) = Place(c, 1) /\ step(c).do \in {"refuse", "jump", "settle"}
    <3>1. ~ Made(job[c].at)
      BY <1>1, <2>6 DEF Made, Making
    <3> QED BY <1>1, <2>1, <2>6, <3>1, PassLasts
  <2> QED BY <1>1, <1>4, <2>2, <2>3, <2>4, <2>5, <2>6 DEF Missed, Getting
<1> QED BY <1>2, <1>3, <1>4 DEF Get

LEMMA CreateCallLasts ==
  ASSUME IInv, LastInv, phase = "up", NEW c \in Callers, CreateCall(c)
  PROVE  LastInv'
<1>1. /\ Goes(c)
      /\ step(c).do \in {"create", "admit", "upsert", "ensure", "apply", "replace"}
      /\ job[c].at \in DOMAIN pair.up /\ step(c) = pair.up[job[c].at]
  BY Setup DEF CreateCall, Reading, Writing, IInv
<1>2. CASE Fail(c)
  BY <1>1, <1>2, FailLasts DEF Fail
<1>3. CASE There(step(c).obj) /\ Turns(c, Holding(c, hub[step(c).obj]))
  <2>1. hub[step(c).obj] \in Reads
    BY <1>3 DEF There, IInv, Typed, Reads
  <2>2. Known(c, hub[step(c).obj])
    BY <1>1, ReadKnown
  <2>3. UNCHANGED <<name, pair, phase, hub, dropped>> /\ Go(c, Holding(c, hub[step(c).obj]))
    BY <1>3 DEF Turns
  <2> QED BY <1>1, <2>1, <2>2, <2>3, HoldLasts
<1>4. CASE There(step(c).obj) /\ step(c).do = "admit" /\ Turns(c, Place(c, 1))
  <2>1. UNCHANGED <<name, pair, phase, hub, dropped>> /\ Go(c, Place(c, 1))
    BY <1>4 DEF Turns
  <2> QED BY <1>1, <1>4, <2>1, PassLasts
<1>5. CASE ~ There(step(c).obj) /\ Put(step(c).obj, Own({c}, step(c).set)) /\ Succeed(c)
  BY <1>1, <1>5, CreateLasts DEF Creating
<1> QED BY <1>2, <1>3, <1>4, <1>5 DEF CreateCall

LEMMA UpdateCallLasts ==
  ASSUME IInv, LastInv, phase = "up", NEW c \in Callers, UpdateCall(c)
  PROVE  LastInv'
<1>1. Goes(c) /\ job[c].saw \notin {Unread, Missing}
  BY DEF UpdateCall, Writing
<1>2. CASE Fail(c)
  BY <1>1, <1>2, FailLasts DEF Fail
<1>3. CASE /\ step(c).do = "merge" \/ (There(step(c).obj) /\ Accepts(c))
           /\ Put(step(c).obj, Written(c, job[c].saw)) /\ Succeed(c)
  <2>1. Known(c, job[c].saw)
    BY <1>1 DEF LastInv
  <2>2. \/ There(step(c).obj) /\ job[c].saw = hub[step(c).obj]
        \/ step(c).do \in Overwriting /\ Known(c, job[c].saw)
    BY <1>3, <2>1 DEF Accepts, Overwriting
  <2> QED BY <1>1, <1>3, <2>2, WriteLasts
<1> QED BY <1>2, <1>3 DEF UpdateCall

LEMMA PatchCallLasts ==
  ASSUME IInv, LastInv, phase = "up", NEW c \in Callers, PatchCall(c)
  PROVE  LastInv'
<1>1. Goes(c)
  BY DEF PatchCall, Reading
<1>2. CASE Fail(c)
  BY <1>1, <1>2, FailLasts DEF Fail
<1>3. CASE There(step(c).obj) /\ Put(step(c).obj, Written(c, hub[step(c).obj])) /\ Succeed(c)
  BY <1>1, <1>3, WriteLasts
<1> QED BY <1>2, <1>3 DEF PatchCall

LEMMA PassCallLasts ==
  ASSUME IInv, LastInv, phase = "up", NEW c \in Callers, Pass(c)
  PROVE  LastInv'
<1>1. /\ Goes(c) /\ step(c).do \in {"list", "hop"}
      /\ job[c].at \in DOMAIN pair.up /\ step(c) = pair.up[job[c].at]
  BY Setup DEF Pass, Reading, IInv
<1>2. PICK n \in {1, 1 + step(c).hop} : Turns(c, Place(c, n))
  BY DEF Pass
<1>3. ~ Made(job[c].at)
  BY <1>1 DEF Made, Making
<1> QED BY <1>1, <1>2, <1>3, PassLasts DEF Turns

LEMMA FaultLasts ==
  ASSUME IInv, LastInv, phase = "up", NEW c \in Callers, Fault(c)
  PROVE  LastInv'
<1>1. /\ Goes(c) /\ UNCHANGED <<name, pair, phase, hub>>
      /\ job[c].at \in DOMAIN pair.up /\ step(c) = pair.up[job[c].at]
  BY Setup DEF Fault, IInv
<1>2. CASE Failed(c)
  BY <1>1, <1>2, FailLasts
<1>3. CASE step(c).blind /\ Go(c, Missed(c)) /\ UNCHANGED dropped
  <2>1. CASE Missed(c) = Holding(c, Missing)
    BY <1>1, <1>3, <2>1, HoldLasts DEF Reads
  <2>2. CASE Missed(c) = Holding(c, {}) /\ step(c).do = "merge"
    <3>1. Known(c, {})
      BY <1>1, <1>3, <2>2, Others DEF IInv, Known
    <3> QED BY <1>1, <1>3, <2>2, <3>1, HoldLasts DEF Reads
  <2>3. CASE Missed(c) = Place(c, 1 + step(c).hop) /\ step(c).do = "when"
    <3>1. ~ Made(job[c].at)
      BY <1>1, <2>3 DEF Made, Making
    <3> QED BY <1>1, <1>3, <2>3, <3>1, PassLasts
  <2>4. CASE Missed(c) = End /\ step(c).do = "quit"
    BY <1>1, <1>3, <2>4, EndLasts
  <2>5. CASE Missed(c) = Place(c, 1) /\ step(c).do \notin {"ensure", "apply", "replace"}
    <3>1. ~ Made(job[c].at)
      BY <1>1, <1>3, <2>5, Makings DEF IInv
    <3> QED BY <1>1, <1>3, <2>5, <3>1, PassLasts
  <2> QED BY <2>1, <2>2, <2>3, <2>4, <2>5 DEF Missed
<1>4. CASE step(c).unsure /\ Go(c, Place(c, 1 + step(c).hop)) /\ UNCHANGED dropped
  <2>1. ~ Made(job[c].at)
    BY <1>1, <1>4, Makings DEF IInv
  <2> QED BY <1>1, <1>4, <2>1, PassLasts
<1> QED BY <1>2, <1>3, <1>4 DEF Fault

LEMMA LastStarts ==
  ASSUME Init
  PROVE  LastInv
<1>1. Typed
  BY Starting DEF IInv
<1>2. Standing
  BY <1>1, Makings DEF Init, Standing, There
<1>3. pair.up \in Seq(StepType)
  BY <1>1, Catalogue DEF Typed, IsOperation
<1>4. \A i \in DOMAIN pair.up : ~ i < 1
  BY <1>3
<1>5. \A c \in Callers : job[c].at = 1 /\ job[c].saw = Unread
  BY DEF Init, Fresh, Attempt
<1> QED BY <1>2, <1>4, <1>5 DEF LastInv

LEMMA LastStep ==
  ASSUME IInv, LastInv, [Next]_vars
  PROVE  LastInv'
<1>1. ASSUME NEW c \in Callers, Call(c) \/ Fault(c) \/ Kill(c), phase = "up"
      PROVE  LastInv'
  <2>1. CASE DeleteCall(c)
    BY <1>1, <2>1, Setup DEF DeleteCall, Reading, Writing, IInv
  <2>2. CASE Undo(c)
    BY <1>1, <2>2 DEF Undo, IInv, Kept, Lands
  <2>3. CASE Kill(c)
    BY <1>1, <2>3, EndLasts DEF Kill
  <2>4. CASE MergeConflict(c)
    BY <1>1, <2>4, FailLasts DEF MergeConflict, Writing, Fail
  <2> QED BY <1>1, <2>1, <2>2, <2>3, <2>4, GetLasts, CreateCallLasts, UpdateCallLasts, PatchCallLasts,
             PassCallLasts, FaultLasts DEF Call
<1>2. ASSUME NEW c \in Callers, Call(c) \/ Fault(c) \/ Kill(c), phase # "up"
      PROVE  LastInv'
  <2>1. phase' = phase
    BY <1>2 DEF Call, Get, CreateCall, UpdateCall, MergeConflict, PatchCall, DeleteCall, Pass,
                Undo, Fault, Kill, Fail, Turns, Succeed
  <2> QED BY <1>2, <2>1 DEF LastInv
<1>3. CASE Turn
  BY <1>3 DEF Turn, LastInv
<1>4. CASE UNCHANGED vars
  BY <1>4 DEF vars, LastInv, Standing, Known, Left, Made, There, Goes, Done, step, Steps
<1> QED BY <1>1, <1>2, <1>3, <1>4 DEF Next

\* However the attempts of any number of callers overlap, fail and are killed, a
\* setup that has reported success has left every object that every way through
\* it makes, with every field it sets: nobody's write has lost another's
\* (Hub's SetupComplete).
THEOREM SetupsComplete == Spec => []SetupComplete
<1>1. Init => LastInv
  BY LastStarts
<1>2. IInv /\ LastInv /\ [Next]_vars => LastInv'
  BY LastStep
<1>3. IInv /\ LastInv => SetupComplete
  <2> SUFFICES ASSUME IInv, LastInv, NEW c \in Callers, phase = "up", Done(c),
                      NEW i \in DOMAIN pair.up, Made(i)
               PROVE  Left(c, i)
    BY DEF SetupComplete, Made
  <2>1. Steps = pair.up /\ pair.up \in Seq(StepType)
    BY Catalogue DEF IInv, Typed, IsOperation, Steps
  <2>2. job[c].at \in Nat
    BY <2>1 DEF IInv, Typed, Places
  <2>3. i < job[c].at
    BY <2>1, <2>2 DEF Done
  <2> QED BY <2>3 DEF LastInv
<1> QED BY <1>1, <1>2, <1>3, Invariance, PTL DEF Spec

-----------------------------------------------------------------------------
(* The last word of an operation.  It stands, or some caller has not come past    *)
(* the step that says it: who takes it back is behind, and says it again.         *)

WordInv ==
  \A i \in DOMAIN Steps : HasLastWord(Steps, i) => Stands(i) \/ \E c \in Callers : job[c].at <= i

\* A caller leaves what has been said by the steps it is past, and has said that of
\* the step it passes.
Leave(c) ==
  \A i \in DOMAIN Steps : HasLastWord(Steps, i) /\ i < job[c].at /\ Stands(i) => Stands(i)'
Speaks(c) == \A i \in DOMAIN Steps : HasLastWord(Steps, i) /\ i = job[c].at => Stands(i)'

LEMMA Ordered ==
  ASSUME IInv
  PROVE  /\ Steps \in Seq(StepType)
         /\ \A c \in Callers : job[c].at \in Nat
         /\ \A i \in DOMAIN Steps : i \in Nat \ {0} /\ i <= Len(Steps) /\ Steps[i].hop \in Nat
<1>1. Steps \in Seq(StepType)
  BY StepsTyped DEF IInv, Typed
<1>2. \A i \in DOMAIN Steps : Steps[i] \in StepType /\ i \in Nat \ {0} /\ i <= Len(Steps)
  BY <1>1
<1>3. \A c \in Callers : job[c].at \in Nat
  BY <1>1 DEF IInv, Typed, Places
<1> QED BY <1>1, <1>2, <1>3 DEF StepType

\* A caller that moves is still not past the step, or leaves what stands.
LEMMA WordKept ==
  ASSUME IInv, WordInv, UNCHANGED <<name, pair, phase>>, NEW c \in Callers, NEW p, Go(c, p),
         \A i \in DOMAIN Steps : HasLastWord(Steps, i) =>
           p.at <= i \/ Stands(i)' \/ (i < job[c].at /\ Leave(c))
  PROVE  WordInv'
<1>1. Steps' = Steps
  BY DEF Steps
<1>2. job'[c] = p /\ \A d \in Callers \ {c} : job'[d] = job[d]
  BY DEF Go, IInv, Typed
<1>3. ASSUME NEW i \in DOMAIN Steps, HasLastWord(Steps, i)
      PROVE  Stands(i)' \/ \E d \in Callers : job'[d].at <= i
  <2>1. CASE p.at <= i
    BY <1>2, <2>1
  <2>2. CASE i < job[c].at /\ Leave(c)
    <3>1. Stands(i) \/ \E d \in Callers \ {c} : job[d].at <= i
      BY <1>3, <2>2, Ordered DEF WordInv
    <3> QED BY <1>2, <1>3, <2>2, <3>1 DEF Leave
  <2> QED BY <1>3, <2>1, <2>2
<1>4. \A i \in DOMAIN Steps : HasLastWord(Steps, i)' <=> HasLastWord(Steps, i)
  BY <1>1
<1> QED BY <1>1, <1>3, <1>4 DEF WordInv

\* An attempt that begins again, or that ends because there is nothing to do.
LEMMA WordBegins ==
  ASSUME IInv, WordInv, UNCHANGED <<name, pair, phase>>, NEW c \in Callers, NEW undo,
         Go(c, Attempt(1, Unread, undo))
  PROVE  WordInv'
  BY WordKept, Ordered DEF Attempt

LEMMA WordPassed ==
  ASSUME IInv, WordInv, UNCHANGED <<name, pair, phase>>, NEW c \in Callers, Goes(c),
         Leave(c), Speaks(c), NEW n \in {1, 1 + step(c).hop}, Go(c, Place(c, n))
  PROVE  WordInv'
<1>1. Place(c, n).at = job[c].at + n
  BY DEF Place, Attempt
<1>2. job[c].at \in DOMAIN Steps /\ step(c) = Steps[job[c].at]
  BY Moving DEF IInv, step
<1>3. ASSUME NEW i \in DOMAIN Steps, HasLastWord(Steps, i), job[c].at < i
      PROVE  job[c].at + n <= i
  <2>1. job[c].at \in 1 .. i - 1
    BY <1>2, <1>3, Ordered
  <2>2. i > job[c].at + step(c).hop
    BY <1>2, <1>3, <2>1 DEF HasLastWord, Always
  <2> QED BY <1>2, <1>3, <2>2, Ordered
<1>4. \A i \in DOMAIN Steps : HasLastWord(Steps, i) =>
        job[c].at + n <= i \/ Stands(i)' \/ (i < job[c].at /\ Leave(c))
  BY <1>2, <1>3, Ordered DEF Speaks
<1> QED BY <1>1, <1>4, WordKept

\* A call that leaves the hub as it was.
LEMMA WordStays ==
  ASSUME UNCHANGED <<pair, phase, hub>>, dropped \subseteq dropped', NEW c \in Callers
  PROVE  Leave(c)
  BY DEF Leave, Stands, There, Steps

LEMMA WordFails ==
  ASSUME IInv, WordInv, UNCHANGED <<name, pair, phase>>, NEW c \in Callers, Goes(c), Failed(c),
         dropped \subseteq dropped' => Leave(c)
  PROVE  WordInv'
<1>1. CASE step(c).skip
  <2>1. dropped' = dropped \cup {step(c).obj} /\ Go(c, Place(c, 1 + step(c).hop))
    BY <1>1 DEF Failed
  <2>2. Speaks(c)
    <3>1. Steps' = Steps
      BY DEF Steps
    <3> QED BY <2>1, <3>1 DEF Speaks, Stands, step
  <2> QED BY <2>1, <2>2, WordPassed
<1>2. CASE ~ step(c).skip
  BY <1>2, WordBegins DEF Failed
<1> QED BY <1>1, <1>2

LEMMA WordSucceeds ==
  ASSUME IInv, WordInv, NEW c \in Callers, Goes(c), Succeed(c),
         dropped \subseteq dropped' => Leave(c) /\ Speaks(c)
  PROVE  WordInv'
<1>1. UNCHANGED <<name, pair, phase>>
  BY DEF Succeed
<1>2. CASE Passed(c) /\ UNCHANGED dropped
  <2>1. PICK n \in {1, 1 + step(c).hop} : Go(c, Place(c, n))
    BY <1>2 DEF Passed
  <2> QED BY <1>1, <1>2, <2>1, WordPassed
<1>3. CASE Failed(c)
  BY <1>1, <1>3, WordFails
<1> QED BY <1>2, <1>3 DEF Succeed

\* The steps that say something are Updates and Patches.
Silent(c) == step(c).do \notin {"update", "patch"} \/ step(c).blind \/ step(c).unsure

LEMMA WordTurns ==
  ASSUME IInv, WordInv, NEW c \in Callers, Goes(c), UNCHANGED <<name, pair, phase, hub, dropped>>,
         \/ Silent(c) /\ \E n \in {1, 1 + step(c).hop} : Go(c, Place(c, n))
         \/ \E saw : Go(c, Holding(c, saw))
         \/ step(c).do = "quit" /\ Go(c, End)
  PROVE  WordInv'
<1>1. Leave(c)
  BY WordStays
<1>2. job[c].at \in DOMAIN Steps /\ step(c) = Steps[job[c].at]
  BY Moving DEF IInv, step
<1>3. CASE Silent(c) /\ \E n \in {1, 1 + step(c).hop} : Go(c, Place(c, n))
  <2>1. Speaks(c)
    BY <1>2, <1>3 DEF Speaks, HasLastWord, Silent
  <2> QED BY <1>1, <1>3, <2>1, WordPassed
<1>4. ASSUME NEW saw, Go(c, Holding(c, saw))
      PROVE  WordInv'
  <2>1. Holding(c, saw).at = job[c].at
    BY DEF Holding, Attempt
  <2>2. \A i \in DOMAIN Steps : job[c].at <= i \/ i < job[c].at
    BY <1>2, Ordered
  <2> QED BY <1>1, <1>4, <2>1, <2>2, WordKept
<1>5. CASE step(c).do = "quit" /\ Go(c, End)
  <2>1. ASSUME NEW i \in DOMAIN Steps, HasLastWord(Steps, i)
        PROVE  i < job[c].at
    <3>1. i # job[c].at
      BY <1>2, <1>5, <2>1 DEF HasLastWord
    <3>2. job[c].at \notin 1 .. i - 1
      BY <1>2, <1>5, <2>1 DEF HasLastWord, Always
    <3> QED BY <1>2, <3>1, <3>2, Ordered
  <2> QED BY <1>1, <1>5, <2>1, WordKept
<1> QED BY <1>3, <1>4, <1>5

\* A write of what is there, or over it by a step that sets what was said too.
LEMMA WordPut ==
  ASSUME IInv, UNCHANGED <<name, pair, phase>>, dropped \subseteq dropped',
         NEW c \in Callers, Goes(c), NEW saw,
         \/ ~ There(step(c).obj) /\ Put(step(c).obj, Own({c}, step(c).set))
         \/ /\ Put(step(c).obj, Written(c, saw))
            /\ step(c).do \in Overwriting \/ saw = hub[step(c).obj]
  PROVE  Leave(c) /\ (Put(step(c).obj, Written(c, saw)) \/ Silent(c) => Speaks(c))
<1> DEFINE o == step(c).obj
<1>1. job[c].at \in DOMAIN Steps /\ step(c) = Steps[job[c].at] /\ Steps' = Steps
  BY Moving DEF IInv, step, Steps
<1>2. \A fields : Put(o, fields) =>
        /\ DOMAIN hub' = DOMAIN hub \cup {o} /\ hub'[o] = fields
        /\ \A x \in DOMAIN hub : x # o => hub'[x] = hub[x]
  BY DEF Put
<1>3. ASSUME NEW i \in DOMAIN Steps, HasLastWord(Steps, i), i <= job[c].at, Steps[i].obj = o
      PROVE  (Steps[i].set \ Mine) \cap Own({c}, step(c).clear) = {}
  <2>1. job[c].at \in StepsOn(Steps, o) /\ job[c].at >= i
    BY <1>1, <1>3, Ordered DEF StepsOn
  <2>2. step(c).clear \cap Steps[i].set = {}
    BY <1>1, <1>3, <2>1 DEF HasLastWord
  <2>3. c \notin Steps[i].set
    BY HubAssumption DEF IInv, Typed, Steps, Named
  <2> QED BY <2>2, <2>3 DEF Own
<1>4. ASSUME NEW i \in DOMAIN Steps, HasLastWord(Steps, i), i < job[c].at, Stands(i)
      PROVE  Stands(i)'
  <2>1. CASE Steps[i].obj = o /\ o \notin dropped
    <3>1. There(o) /\ Steps[i].set \ Mine \subseteq hub[o]
      BY <1>4, <2>1 DEF Stands
    <3>2. Put(o, Written(c, saw)) /\ (step(c).do \in Overwriting \/ saw = hub[o])
      BY <3>1
    <3>3. step(c).do \in Overwriting => Steps[i].set \subseteq step(c).set
      <4>1. job[c].at \in StepsOn(Steps, o) /\ job[c].at >= i
        BY <1>1, <1>4, <2>1, Ordered DEF StepsOn
      <4> QED BY <1>1, <1>4, <2>1, <4>1 DEF HasLastWord
    <3>4. Steps[i].set \ Mine \subseteq saw \cup Own({c}, step(c).set)
      BY <3>1, <3>2, <3>3 DEF Own
    <3>5. Steps[i].set \ Mine \subseteq Written(c, saw)
      <4>1. i <= job[c].at
        BY <1>1, <1>4, Ordered
      <4>2. (Steps[i].set \ Mine) \cap Own({c}, step(c).clear) = {}
        BY <1>3, <1>4, <2>1, <4>1
      <4> QED BY <3>4, <4>2 DEF Written
    <3> QED BY <1>1, <1>2, <2>1, <3>2, <3>5 DEF Stands, There
  <2>2. CASE Steps[i].obj # o \/ o \in dropped
    BY <1>1, <1>2, <1>4, <2>2 DEF Stands, There
  <2> QED BY <2>1, <2>2
<1>5. ASSUME NEW i \in DOMAIN Steps, HasLastWord(Steps, i), i = job[c].at
      PROVE  Put(o, Written(c, saw)) \/ Silent(c) => Stands(i)'
  <2>1. ~ Silent(c)
    BY <1>1, <1>5 DEF HasLastWord, Silent
  <2>2. Steps[i].set \ Mine \subseteq Written(c, saw)
    BY <1>1, <1>3, <1>5, Ordered DEF Written, Own
  <2> QED BY <1>1, <1>2, <1>5, <2>1, <2>2 DEF Stands, There
<1> QED BY <1>4, <1>5 DEF Leave, Speaks

LEMMA WordCall ==
  ASSUME IInv, WordInv, NEW c \in Callers, Call(c)
  PROVE  WordInv'
<1>1. CASE Get(c)
  <2>1. Goes(c) /\ step(c).do \in Getting
    BY <1>1 DEF Get, Reading
  <2>2. CASE Fail(c)
    BY <2>1, <2>2, WordFails, WordStays DEF Fail
  <2>3. CASE There(step(c).obj) /\ Turns(c, Found(c))
    <3>1. \/ Silent(c) /\ \E n \in {1, 1 + step(c).hop} : Found(c) = Place(c, n)
          \/ \E saw : Found(c) = Holding(c, saw)
      BY <2>1, <2>3 DEF Found, Silent, Getting
    <3> QED BY <2>1, <2>3, <3>1, WordTurns DEF Turns
  <2>4. CASE Turns(c, Missed(c)) /\ step(c).do \notin {"get", "update", "amend", "rewrite"}
    <3>1. \/ Silent(c) /\ \E n \in {1, 1 + step(c).hop} : Missed(c) = Place(c, n)
          \/ \E saw : Missed(c) = Holding(c, saw)
          \/ step(c).do = "quit" /\ Missed(c) = End
      BY <2>1, <2>4 DEF Missed, Silent, Getting
    <3> QED BY <2>1, <2>4, <3>1, WordTurns DEF Turns
  <2> QED BY <1>1, <2>2, <2>3, <2>4 DEF Get
<1>2. CASE CreateCall(c)
  <2>1. Goes(c) /\ step(c).do \notin {"update", "patch"}
    BY <1>2 DEF CreateCall, Reading, Writing
  <2>2. CASE Fail(c)
    BY <2>1, <2>2, WordFails, WordStays DEF Fail
  <2>3. CASE Turns(c, Holding(c, hub[step(c).obj])) \/ Turns(c, Place(c, 1))
    BY <2>1, <2>3, WordTurns DEF Turns, Silent
  <2>4. CASE ~ There(step(c).obj) /\ Put(step(c).obj, Own({c}, step(c).set)) /\ Succeed(c)
    <3>1. dropped \subseteq dropped' => Leave(c) /\ Speaks(c)
      BY <2>1, <2>4, WordPut DEF Succeed, Silent
    <3> QED BY <2>1, <2>4, <3>1, WordSucceeds
  <2> QED BY <1>2, <2>2, <2>3, <2>4 DEF CreateCall
<1>3. CASE UpdateCall(c)
  <2>1. Goes(c)
    BY <1>3 DEF UpdateCall, Writing
  <2>2. CASE Fail(c)
    BY <2>1, <2>2, WordFails, WordStays DEF Fail
  <2>3. CASE /\ Put(step(c).obj, Written(c, job[c].saw)) /\ Succeed(c)
             /\ step(c).do = "merge" \/ Accepts(c)
    <3>1. step(c).do \in Overwriting \/ job[c].saw = hub[step(c).obj]
      BY <2>3 DEF Accepts, Overwriting
    <3>2. dropped \subseteq dropped' => Leave(c) /\ Speaks(c)
      BY <2>1, <2>3, <3>1, WordPut DEF Succeed
    <3> QED BY <2>1, <2>3, <3>2, WordSucceeds
  <2> QED BY <1>3, <2>2, <2>3 DEF UpdateCall
<1>4. CASE MergeConflict(c)
  BY <1>4, WordFails, WordStays DEF MergeConflict, Writing, Fail
<1>5. CASE PatchCall(c)
  <2>1. Goes(c)
    BY <1>5 DEF PatchCall, Reading
  <2>2. CASE Fail(c)
    BY <2>1, <2>2, WordFails, WordStays DEF Fail
  <2>3. CASE Put(step(c).obj, Written(c, hub[step(c).obj])) /\ Succeed(c)
    <3>1. dropped \subseteq dropped' => Leave(c) /\ Speaks(c)
      BY <2>1, <2>3, WordPut DEF Succeed
    <3> QED BY <2>1, <2>3, <3>1, WordSucceeds
  <2> QED BY <1>5, <2>2, <2>3 DEF PatchCall
<1>6. CASE DeleteCall(c)
  <2>1. Goes(c) /\ step(c).do \in {"delete", "purge", "prune"}
    BY <1>6 DEF DeleteCall, Reading, Writing
  <2>2. CASE Fail(c)
    BY <2>1, <2>2, WordFails, WordStays DEF Fail
  <2>3. CASE Erase(step(c).obj) /\ Succeed(c)
    <3>1. job[c].at \in DOMAIN Steps /\ step(c) = Steps[job[c].at] /\ Steps' = Steps
      BY <2>1, <2>3, Moving DEF IInv, step, Steps, Succeed
    <3>2. ASSUME NEW i \in DOMAIN Steps, HasLastWord(Steps, i), i <= job[c].at
          PROVE  Steps[i].obj # step(c).obj
      <4>1. Steps[i].obj = step(c).obj => job[c].at \in StepsOn(Steps, Steps[i].obj) /\ job[c].at >= i
        BY <3>1, <3>2, Ordered DEF StepsOn
      <4> QED BY <2>1, <3>1, <3>2, <4>1 DEF HasLastWord
    <3>3. /\ DOMAIN hub' = DOMAIN hub \ {step(c).obj}
          /\ \A x \in DOMAIN hub' : hub'[x] = hub[x]
      BY <2>3 DEF Erase, Restrict
    <3>4. dropped \subseteq dropped' => Leave(c)
      BY <3>1, <3>2, <3>3, Ordered DEF Leave, Stands, There
    <3>5. Speaks(c)
      BY <3>1, <3>2, Ordered DEF Speaks
    <3> QED BY <2>1, <2>3, <3>4, <3>5, WordSucceeds
  <2> QED BY <1>6, <2>2, <2>3 DEF DeleteCall
<1>7. CASE Pass(c)
  BY <1>7, WordTurns DEF Pass, Reading, Turns, Silent
<1>8. CASE Undo(c)
  BY <1>8, WordBegins DEF Undo
<1> QED BY <1>1, <1>2, <1>3, <1>4, <1>5, <1>6, <1>7, <1>8 DEF Call

LEMMA WordStep ==
  ASSUME IInv, WordInv, [Next]_vars
  PROVE  WordInv'
<1>1. ASSUME NEW c \in Callers, Fault(c)
      PROVE  WordInv'
  <2>1. Goes(c) /\ UNCHANGED <<name, pair, phase, hub>>
    BY <1>1 DEF Fault
  <2>2. CASE Failed(c)
    BY <2>1, <2>2, WordFails, WordStays
  <2>3. CASE step(c).blind /\ Go(c, Missed(c)) /\ UNCHANGED dropped
    <3>1. \/ Silent(c) /\ \E n \in {1, 1 + step(c).hop} : Missed(c) = Place(c, n)
          \/ \E saw : Missed(c) = Holding(c, saw)
          \/ step(c).do = "quit" /\ Missed(c) = End
      BY <2>3 DEF Missed, Silent
    <3> QED BY <2>1, <2>3, <3>1, WordTurns
  <2>4. CASE step(c).unsure /\ Go(c, Place(c, 1 + step(c).hop)) /\ UNCHANGED dropped
    BY <2>1, <2>4, WordTurns DEF Silent
  <2> QED BY <1>1, <2>2, <2>3, <2>4 DEF Fault
<1>2. ASSUME NEW c \in Callers, Kill(c)
      PROVE  WordInv'
  BY <1>2, WordBegins DEF Kill, Fresh
<1>3. CASE Turn
  <2>1. \A c \in Callers : job'[c].at = 1
    BY <1>3 DEF Turn, Fresh, Attempt
  <2>2. Steps' \in Seq(StepType)
    BY <1>3, Catalogue DEF Turn, Steps, IInv, Typed, IsOperation
  <2> QED BY <2>1, <2>2, HubAssumption DEF WordInv
<1>4. CASE UNCHANGED vars
  BY <1>4 DEF vars, WordInv, Stands, There, Steps
<1> QED BY <1>1, <1>2, <1>3, <1>4, WordCall DEF Next

\* However the attempts of any number of callers overlap, fail and are killed, what
\* an operation writes last stands when all who run it have reported success, though
\* one of them alone may see it taken back by another that is behind: a migration
\* ends up in its last phase (Hub's LastWord).
THEOREM LastWordStands == Spec => []LastWord
<1>1. Init => WordInv
  <2> SUFFICES ASSUME Init PROVE WordInv
    OBVIOUS
  <2>1. \A c \in Callers : job[c].at = 1
    BY DEF Init, Fresh, Attempt
  <2>2. IInv
    BY Starting
  <2> QED BY <2>1, <2>2, Ordered, HubAssumption DEF WordInv
<1>2. IInv /\ WordInv /\ [Next]_vars => WordInv'
  BY WordStep
<1>3. IInv /\ WordInv => LastWord
  <2> SUFFICES ASSUME IInv, WordInv, \A c \in Callers : Done(c), NEW i \in DOMAIN Steps,
                      HasLastWord(Steps, i)
               PROVE  Stands(i)
    BY DEF LastWord
  <2>1. \A c \in Callers : ~ job[c].at <= i
    BY Ordered DEF Done
  <2> QED BY <2>1 DEF WordInv
<1> QED BY <1>1, <1>2, <1>3, Invariance, PTL DEF Spec

-----------------------------------------------------------------------------
(* A teardown is complete.  The hub holds only what the operations make, with    *)
(* the fields they set; of an object that one step of the teardown reverts,       *)
(* nothing is left once a caller is past that step; and when the object that      *)
(* guards a teardown is missing, nothing is left of any other.                    *)

FieldsOn(o) == Own(Callers, SetOn(pair, o))

Traced ==
  /\ DOMAIN hub \subseteq pair.held \cup Created(pair.up) \cup Created(pair.down)
  /\ \A o \in DOMAIN hub : hub[o] \subseteq FieldsOn(o)
  /\ \A c \in Callers : Goes(c) /\ job[c].saw \notin {Unread, Missing} =>
       job[c].saw \subseteq FieldsOn(step(c).obj)
  /\ \A o \in dropped : ~ Unskipped(Steps, o)

Gone(o) ==
  o \in dropped \/ IF o \in pair.held THEN hub[o] \cap Stray(pair, o) = {} ELSE ~ There(o)

Reverted(i, o) == i \in DOMAIN pair.down /\ Reverts(pair, i, o) /\ Surely(pair, i)

Guard(q) == \E i \in DOMAIN pair.down : pair.down[i].do = "quit" /\ pair.down[i].obj = q

Tearing ==
  /\ pair.held \subseteq DOMAIN hub
  /\ \A c \in Callers :
       /\ \A i \in DOMAIN pair.down, o \in Traces(pair) : i < job[c].at /\ Reverted(i, o) => Gone(o)
       /\ \A m \in DOMAIN job[c].undo :
            job[c].undo[m] \notin pair.held /\ ~ Guard(job[c].undo[m])
       /\ \A q : Guard(q) /\ ~ There(q) => \A o \in Traces(pair) \ {q} : Gone(o)

TearInv == Traced /\ (phase = "down" /\ Undoes(pair) => Tearing)

-----------------------------------------------------------------------------
\* The hub holds only what the operations make.

LEMMA OnObject ==
  ASSUME Typed, NEW c \in Callers, Goes(c)
  PROVE  /\ step(c).set \subseteq SetOn(pair, step(c).obj)
         /\ Own({c}, step(c).set) \subseteq FieldsOn(step(c).obj)
         /\ step(c).do \in Creating => step(c).obj \in Created(pair.up) \cup Created(pair.down)
<1>1. job[c].at \in DOMAIN Steps /\ step(c) = Steps[job[c].at]
  BY Moving DEF step
<1>2. step(c).set \subseteq SetOn(pair, step(c).obj)
  <2>1. CASE Steps = pair.up
    <3>1. job[c].at \in StepsOn(pair.up, step(c).obj) /\ step(c) = pair.up[job[c].at]
      BY <1>1, <2>1 DEF StepsOn
    <3>2. step(c).set \subseteq UNION {pair.up[i].set : i \in StepsOn(pair.up, step(c).obj)}
      BY <3>1
    <3> QED BY <3>2 DEF SetOn
  <2>2. CASE Steps = pair.down
    <3>1. job[c].at \in StepsOn(pair.down, step(c).obj) /\ step(c) = pair.down[job[c].at]
      BY <1>1, <2>2 DEF StepsOn
    <3>2. step(c).set \subseteq UNION {pair.down[i].set : i \in StepsOn(pair.down, step(c).obj)}
      BY <3>1
    <3> QED BY <3>2 DEF SetOn
  <2> QED BY <2>1, <2>2 DEF Steps
<1>3. Own({c}, step(c).set) \subseteq FieldsOn(step(c).obj)
  BY <1>2 DEF FieldsOn, Own
<1>4. step(c).do \in Creating => step(c).obj \in Created(pair.up) \cup Created(pair.down)
  BY <1>1 DEF Steps, Created
<1> QED BY <1>2, <1>3, <1>4

\* What one step of a caller does to the hub, and where it leads.
HubTraced(c) ==
  \/ UNCHANGED hub
  \/ \E o \in STRING : Erase(o)
  \/ \E fields \in SUBSET FieldsOn(step(c).obj) :
       Goes(c) /\ (There(step(c).obj) \/ step(c).do \in Creating) /\ Put(step(c).obj, fields)

Told(c) == \A o \in dropped' : o \in dropped \/ ~ Unskipped(Steps, o)

Leads(c, p) ==
  /\ Go(c, p)
  /\ \/ p.saw \in {Unread, Missing}
     \/ Goes(c) /\ p.at = job[c].at /\ p.saw \subseteq FieldsOn(step(c).obj)

LEMMA TracedMoves ==
  ASSUME IInv, Traced, UNCHANGED <<name, pair, phase>>, NEW c \in Callers, HubTraced(c), Told(c),
         NEW p, Leads(c, p)
  PROVE  Traced'
<1>1. /\ Steps' = Steps /\ pair' = pair
      /\ \A o : FieldsOn(o)' = FieldsOn(o)
  BY DEF Steps, FieldsOn
<1>2. job'[c] = p /\ \A d \in Callers \ {c} : job'[d] = job[d]
  BY DEF Leads, Go, IInv, Typed
<1>3. /\ DOMAIN hub' \subseteq pair.held \cup Created(pair.up) \cup Created(pair.down)
      /\ \A o \in DOMAIN hub' : hub'[o] \subseteq FieldsOn(o)
  <2>1. CASE UNCHANGED hub
    BY <2>1 DEF Traced
  <2>2. ASSUME NEW o \in STRING, Erase(o)
        PROVE  /\ DOMAIN hub' \subseteq DOMAIN hub
               /\ \A x \in DOMAIN hub' : hub'[x] = hub[x]
    BY <2>2 DEF Erase, Restrict
  <2>3. ASSUME NEW fields \in SUBSET FieldsOn(step(c).obj), Goes(c),
               There(step(c).obj) \/ step(c).do \in Creating, Put(step(c).obj, fields)
        PROVE  /\ DOMAIN hub' \subseteq pair.held \cup Created(pair.up) \cup Created(pair.down)
               /\ \A o \in DOMAIN hub' : hub'[o] \subseteq FieldsOn(o)
    <3>1. /\ DOMAIN hub' = DOMAIN hub \cup {step(c).obj} /\ hub'[step(c).obj] = fields
          /\ \A x \in DOMAIN hub : x # step(c).obj => hub'[x] = hub[x]
      BY <2>3 DEF Put
    <3>2. step(c).obj \in pair.held \cup Created(pair.up) \cup Created(pair.down)
      BY <2>3, OnObject DEF IInv, Traced, There
    <3> QED BY <3>1, <3>2 DEF Traced
  <2> QED BY <2>1, <2>2, <2>3 DEF HubTraced, Traced
<1>4. ASSUME NEW d \in Callers, Goes(d)', job'[d].saw \notin {Unread, Missing}
      PROVE  job'[d].saw \subseteq FieldsOn(step(d)'.obj)
  <2>1. CASE d = c
    <3>1. Goes(c) /\ p.at = job[c].at /\ p.saw \subseteq FieldsOn(step(c).obj)
      BY <1>2, <1>4, <2>1 DEF Leads
    <3>2. step(c)' = step(c)
      BY <1>1, <1>2, <3>1 DEF step
    <3> QED BY <1>2, <2>1, <3>1, <3>2
  <2>2. CASE d # c
    <3>1. Goes(d) /\ step(d)' = step(d) /\ job'[d] = job[d]
      BY <1>1, <1>2, <1>4, <2>2 DEF Goes, Done, step
    <3> QED BY <1>4, <3>1 DEF Traced
  <2> QED BY <2>1, <2>2
<1>5. \A o \in dropped' : ~ Unskipped(Steps, o)
  BY DEF Told, Traced
<1> QED BY <1>1, <1>3, <1>4, <1>5 DEF Traced

\* How a call may end.
LEMMA TracedEnds ==
  ASSUME IInv, NEW c \in Callers
  PROVE  /\ \A n : Go(c, Place(c, n)) => Leads(c, Place(c, n))
         /\ \A undo : Go(c, Attempt(1, Unread, undo)) => Leads(c, Attempt(1, Unread, undo))
         /\ Go(c, End) => Leads(c, End)
         /\ Go(c, Fresh) => Leads(c, Fresh)
         /\ Go(c, Holding(c, Missing)) => Leads(c, Holding(c, Missing))
         /\ Goes(c) => \A saw : Go(c, Holding(c, saw)) /\ saw \subseteq FieldsOn(step(c).obj) =>
                         Leads(c, Holding(c, saw))
  BY DEF Leads, Place, Attempt, End, Fresh, Holding

LEMMA TracedFails ==
  ASSUME IInv, NEW c \in Callers, Goes(c), Failed(c)
  PROVE  Told(c) /\ \E p : Leads(c, p)
<1>1. job[c].at \in DOMAIN Steps /\ step(c) = Steps[job[c].at]
  BY Moving DEF IInv, step
<1>2. step(c).skip => ~ Unskipped(Steps, step(c).obj)
  BY <1>1 DEF Unskipped, StepsOn
<1> QED BY <1>2, TracedEnds DEF Failed, Told

LEMMA TracedFail ==
  ASSUME IInv, Traced, UNCHANGED <<name, pair, phase, hub>>, NEW c \in Callers, Goes(c), Failed(c)
  PROVE  Traced'
  BY TracedFails, TracedMoves DEF HubTraced

LEMMA TracedTurns ==
  ASSUME IInv, Traced, UNCHANGED <<name, pair, phase, hub, dropped>>, NEW c \in Callers,
         NEW p, Leads(c, p)
  PROVE  Traced'
  BY TracedMoves DEF HubTraced, Told

LEMMA TracedSucceeds ==
  ASSUME IInv, Traced, NEW c \in Callers, Goes(c), HubTraced(c), Succeed(c)
  PROVE  Traced'
<1>1. Told(c) /\ \E p : Leads(c, p)
  BY TracedFails, TracedEnds DEF Succeed, Passed, Told
<1> QED BY <1>1, TracedMoves DEF Succeed

LEMMA TracedGet ==
  ASSUME IInv, Traced, NEW c \in Callers, Get(c)
  PROVE  Traced'
<1>1. Goes(c)
  BY DEF Get, Reading
<1>2. CASE Fail(c)
  BY <1>1, <1>2, TracedFail DEF Fail
<1>3. CASE There(step(c).obj) /\ Turns(c, Found(c))
  <2>1. hub[step(c).obj] \subseteq FieldsOn(step(c).obj)
    BY <1>3 DEF Traced, There
  <2>2. Leads(c, Found(c))
    BY <1>1, <1>3, <2>1, TracedEnds DEF Turns, Found
  <2> QED BY <1>3, <2>2, TracedTurns DEF Turns
<1>4. CASE Turns(c, Missed(c))
  <2>1. Leads(c, Missed(c))
    BY <1>1, <1>4, TracedEnds DEF Turns, Missed
  <2> QED BY <1>4, <2>1, TracedTurns DEF Turns
<1> QED BY <1>2, <1>3, <1>4 DEF Get

LEMMA TracedPut ==
  ASSUME IInv, Traced, NEW c \in Callers, Goes(c), There(step(c).obj) \/ step(c).do \in Creating,
         NEW saw, saw \subseteq FieldsOn(step(c).obj),
         \/ Put(step(c).obj, Own({c}, step(c).set))
         \/ Put(step(c).obj, Written(c, saw)),
         Succeed(c)
  PROVE  Traced'
<1>1. Own({c}, step(c).set) \subseteq FieldsOn(step(c).obj)
  BY OnObject DEF IInv
<1>2. Written(c, saw) \subseteq FieldsOn(step(c).obj)
  BY <1>1 DEF Written
<1>3. HubTraced(c)
  BY <1>1, <1>2 DEF HubTraced
<1> QED BY <1>3, TracedSucceeds

LEMMA TracedCall ==
  ASSUME IInv, Traced, NEW c \in Callers, Call(c)
  PROVE  Traced'
<1>1. CASE CreateCall(c)
  <2>1. /\ Goes(c)
        /\ step(c).do \in {"create", "admit", "upsert", "ensure", "apply", "replace"}
    BY <1>1 DEF CreateCall, Reading, Writing
  <2>2. CASE Fail(c)
    BY <2>1, <2>2, TracedFail DEF Fail
  <2>3. CASE There(step(c).obj) /\ Turns(c, Holding(c, hub[step(c).obj]))
    <3>1. hub[step(c).obj] \subseteq FieldsOn(step(c).obj)
      BY <2>3 DEF Traced, There
    <3>2. Leads(c, Holding(c, hub[step(c).obj]))
      BY <2>1, <2>3, <3>1, TracedEnds DEF Turns
    <3> QED BY <2>3, <3>2, TracedTurns DEF Turns
  <2>4. CASE Turns(c, Place(c, 1))
    BY <2>4, TracedEnds, TracedTurns DEF Turns
  <2>5. CASE Put(step(c).obj, Own({c}, step(c).set)) /\ Succeed(c)
    <3>1. step(c).do \in Creating /\ {} \subseteq FieldsOn(step(c).obj)
      BY <2>1 DEF Creating
    <3> QED BY <2>1, <2>5, <3>1, TracedPut
  <2> QED BY <1>1, <2>2, <2>3, <2>4, <2>5 DEF CreateCall
<1>2. CASE UpdateCall(c)
  <2>1. Goes(c) /\ job[c].saw \subseteq FieldsOn(step(c).obj)
    BY <1>2 DEF UpdateCall, Writing, Traced
  <2>2. CASE Fail(c)
    BY <2>1, <2>2, TracedFail DEF Fail
  <2>3. CASE /\ step(c).do = "merge" \/ There(step(c).obj)
             /\ Put(step(c).obj, Written(c, job[c].saw)) /\ Succeed(c)
    BY <2>1, <2>3, TracedPut DEF Creating
  <2> QED BY <1>2, <2>2, <2>3 DEF UpdateCall
<1>3. CASE PatchCall(c)
  <2>1. Goes(c)
    BY <1>3 DEF PatchCall, Reading
  <2>2. CASE Fail(c)
    BY <2>1, <2>2, TracedFail DEF Fail
  <2>3. CASE There(step(c).obj) /\ Put(step(c).obj, Written(c, hub[step(c).obj])) /\ Succeed(c)
    <3>1. hub[step(c).obj] \subseteq FieldsOn(step(c).obj)
      BY <2>3 DEF Traced, There
    <3> QED BY <2>1, <2>3, <3>1, TracedPut
  <2> QED BY <1>3, <2>2, <2>3 DEF PatchCall
<1>4. CASE DeleteCall(c)
  <2>1. Goes(c)
    BY <1>4 DEF DeleteCall, Reading, Writing
  <2>2. CASE Fail(c)
    BY <2>1, <2>2, TracedFail DEF Fail
  <2>3. CASE Erase(step(c).obj) /\ Succeed(c)
    <3>1. step(c).obj \in STRING
      BY <2>1, Moving DEF IInv, StepType
    <3>2. HubTraced(c)
      BY <2>3, <3>1 DEF HubTraced
    <3> QED BY <2>1, <2>3, <3>2, TracedSucceeds
  <2> QED BY <1>4, <2>2, <2>3 DEF DeleteCall
<1>5. CASE Pass(c)
  BY <1>5, TracedEnds, TracedTurns DEF Pass, Turns
<1>6. CASE Undo(c)
  <2>1. job[c].undo \in Seq(STRING) /\ job[c].undo # <<>>
    BY <1>6 DEF Undo, IInv, Typed, Places
  <2>2. Head(job[c].undo) \in STRING
    <3>1. \A q \in Seq(STRING) : q # <<>> => Head(q) \in STRING
      OBVIOUS
    <3> QED BY <2>1, <3>1
  <2>3. HubTraced(c) /\ Told(c)
    BY <1>6, <2>2 DEF Undo, HubTraced, Told
  <2> QED BY <1>6, <2>3, TracedEnds, TracedMoves DEF Undo
<1>7. CASE MergeConflict(c)
  BY <1>7, TracedFail DEF MergeConflict, Writing, Fail
<1> QED BY <1>1, <1>2, <1>3, <1>4, <1>5, <1>6, <1>7, TracedGet DEF Call

LEMMA TracedStarts ==
  ASSUME Init
  PROVE  Traced
<1>1. \A c \in Callers : job[c].saw = Unread
  BY DEF Init, Fresh, Attempt
<1> QED BY <1>1 DEF Init, Traced

LEMMA TracedStep ==
  ASSUME IInv, Traced, [Next]_vars
  PROVE  Traced'
<1>1. ASSUME NEW c \in Callers, Fault(c)
      PROVE  Traced'
  <2>1. Goes(c) /\ UNCHANGED <<name, pair, phase, hub>>
    BY <1>1 DEF Fault
  <2>2. CASE Failed(c)
    BY <2>1, <2>2, TracedFail
  <2>3. CASE Go(c, Missed(c)) /\ UNCHANGED dropped
    <3>1. Leads(c, Missed(c))
      BY <2>1, <2>3, TracedEnds DEF Missed
    <3> QED BY <2>1, <2>3, <3>1, TracedTurns
  <2>4. CASE Go(c, Place(c, 1 + step(c).hop)) /\ UNCHANGED dropped
    BY <2>1, <2>4, TracedEnds, TracedTurns
  <2> QED BY <1>1, <2>2, <2>3, <2>4 DEF Fault
<1>2. ASSUME NEW c \in Callers, Kill(c)
      PROVE  Traced'
  BY <1>2, TracedEnds, TracedTurns DEF Kill
<1>3. CASE Turn
  <2>1. \A c \in Callers : job'[c].saw = Unread
    BY <1>3 DEF Turn, Fresh, Attempt
  <2>2. pair' = pair /\ hub' = hub /\ dropped' = {} /\ \A o : FieldsOn(o)' = FieldsOn(o)
    BY <1>3 DEF Turn, FieldsOn
  <2> QED BY <2>1, <2>2 DEF Traced
<1>4. CASE UNCHANGED vars
  BY <1>4 DEF vars, Traced, FieldsOn, Goes, Done, step, Steps
<1> QED BY <1>1, <1>2, <1>3, <1>4, TracedCall DEF Next

-----------------------------------------------------------------------------
\* What is gone stays gone.

Falls ==
  /\ pair.held \subseteq DOMAIN hub'
  /\ \A o \in Traces(pair) : Gone(o) => Gone(o)'
  /\ \A c \in Callers : \A q : Guard(q) /\ ~ There(q)' => \A o \in Traces(pair) \ {q} : Gone(o)'

TearingDown == IInv /\ Traced /\ Tearing /\ Undoes(pair) /\ phase = "down"

LEMMA TornSteps ==
  ASSUME TearingDown, NEW c \in Callers, Goes(c)
  PROVE  /\ Steps = pair.down
         /\ job[c].at \in DOMAIN pair.down /\ step(c) = pair.down[job[c].at]
         /\ DOMAIN pair.down = 1 .. Len(pair.down) /\ Len(pair.down) \in Nat
         /\ step(c) \in StepType
<1>1. Steps = pair.down
  BY DEF TearingDown, Steps
<1>2. pair.down \in Seq(StepType)
  BY Catalogue DEF TearingDown, IInv, Typed, IsOperation
<1> QED BY <1>1, <1>2, Moving DEF TearingDown, IInv, step

LEMMA UntouchedFalls ==
  ASSUME TearingDown, UNCHANGED <<pair, hub>>, dropped \subseteq dropped'
  PROVE  Falls
<1>1. /\ pair' = pair /\ hub' = hub
      /\ \A o : Gone(o) => Gone(o)'
      /\ \A o : There(o)' <=> There(o)
  BY DEF Gone, There
<1> QED BY <1>1 DEF Falls, TearingDown, Tearing

LEMMA PutFalls ==
  ASSUME TearingDown, UNCHANGED pair, dropped \subseteq dropped', NEW c \in Callers, Goes(c),
         There(step(c).obj) \/ step(c).do \in Creating, NEW fields, Put(step(c).obj, fields),
         step(c).obj \in pair.held /\ hub[step(c).obj] \cap Stray(pair, step(c).obj) = {}
           => fields \cap Stray(pair, step(c).obj) = {}
  PROVE  Falls
<1> DEFINE x == step(c).obj
<1>1. /\ DOMAIN hub' = DOMAIN hub \cup {x} /\ hub'[x] = fields
      /\ \A o \in DOMAIN hub : o # x => hub'[o] = hub[o]
  BY DEF Put
<1>2. job[c].at \in DOMAIN pair.down /\ step(c) = pair.down[job[c].at]
  BY TornSteps
<1>3. pair.held \subseteq DOMAIN hub
  BY DEF TearingDown, Tearing
<1>4. ASSUME NEW o \in Traces(pair), Gone(o)
      PROVE  Gone(o)'
  <2>1. CASE o = x /\ o \notin pair.held
    <3>1. o \in Going(pair)
      BY <2>1, <1>4 DEF Traces
    <3>2. step(c).do \notin Creating
      BY <1>2, <2>1, <3>1 DEF TearingDown, Undoes
    <3> QED BY <1>4, <2>1, <3>2 DEF Gone
  <2>2. CASE o = x /\ o \in pair.held
    BY <1>1, <1>4, <2>2 DEF Gone
  <2>3. CASE o # x
    BY <1>1, <1>3, <1>4, <2>3 DEF Gone, There
  <2> QED BY <2>1, <2>2, <2>3
<1>5. ASSUME NEW d \in Callers, NEW q, Guard(q), ~ There(q)', NEW o \in Traces(pair) \ {q}
      PROVE  Gone(o)'
  <2>1. ~ There(q)
    BY <1>1, <1>5 DEF There
  <2> QED BY <1>4, <1>5, <2>1 DEF TearingDown, Tearing
<1> QED BY <1>1, <1>3, <1>4, <1>5 DEF Falls

LEMMA EraseFalls ==
  ASSUME TearingDown, UNCHANGED pair, dropped \subseteq dropped', NEW x, x \notin pair.held, Erase(x),
         Guard(x) => \A o \in Traces(pair) \ {x} : Gone(o)
  PROVE  Falls
<1>1. /\ DOMAIN hub' = DOMAIN hub \ {x}
      /\ \A o \in DOMAIN hub : o # x => hub'[o] = hub[o]
  BY DEF Erase, Restrict
<1>2. pair.held \subseteq DOMAIN hub
  BY DEF TearingDown, Tearing
<1>3. \A o \in Traces(pair) : Gone(o) => Gone(o)'
  BY <1>1, <1>2 DEF Gone, There
<1>4. ASSUME NEW d \in Callers, NEW q, Guard(q), ~ There(q)', NEW o \in Traces(pair) \ {q}
      PROVE  Gone(o)'
  <2>1. CASE q = x
    BY <1>3, <1>4, <2>1
  <2>2. CASE q # x
    <3>1. ~ There(q)
      BY <1>1, <1>4, <2>2 DEF There
    <3> QED BY <1>3, <1>4, <3>1 DEF TearingDown, Tearing
  <2> QED BY <2>1, <2>2
<1> QED BY <1>1, <1>2, <1>3, <1>4 DEF Falls

-----------------------------------------------------------------------------
\* A caller goes on, and leaves behind it what the steps have reverted.

Clears(c) == \A i, o : i = job[c].at /\ o \in Traces(pair) /\ Reverted(i, o) => Gone(o)'

Homeward(c) ==
  \E p \in Places :
    /\ Go(c, p)
    /\ \A i \in DOMAIN pair.down, o \in Traces(pair) : i < p.at /\ Reverted(i, o) => Gone(o)'
    /\ \A m \in DOMAIN p.undo : p.undo[m] \notin pair.held /\ ~ Guard(p.undo[m])

LEMMA TornMoves ==
  ASSUME TearingDown, UNCHANGED <<name, pair, phase>>, NEW c \in Callers, Falls, Homeward(c)
  PROVE  Tearing'
<1>1. /\ pair' = pair
      /\ \A i, o : Reverted(i, o)' <=> Reverted(i, o)
      /\ \A q : Guard(q)' <=> Guard(q)
  BY DEF Reverted, Guard
<1>2. PICK p \in Places :
        /\ Go(c, p)
        /\ \A i \in DOMAIN pair.down, o \in Traces(pair) : i < p.at /\ Reverted(i, o) => Gone(o)'
        /\ \A m \in DOMAIN p.undo : p.undo[m] \notin pair.held /\ ~ Guard(p.undo[m])
  BY DEF Homeward
<1>3. job'[c] = p /\ \A d \in Callers \ {c} : job'[d] = job[d]
  BY <1>2 DEF Go, TearingDown, IInv, Typed
<1>4. ASSUME NEW d \in Callers
      PROVE  /\ \A i \in DOMAIN pair.down, o \in Traces(pair) :
                  i < job'[d].at /\ Reverted(i, o) => Gone(o)'
             /\ \A m \in DOMAIN job'[d].undo :
                  job'[d].undo[m] \notin pair.held /\ ~ Guard(job'[d].undo[m])
  <2>1. CASE d = c
    BY <1>2, <1>3, <2>1
  <2>2. CASE d # c
    BY <1>3, <2>2 DEF TearingDown, Tearing, Falls
  <2> QED BY <2>1, <2>2
<1>5. pair.held' \subseteq DOMAIN hub'
  BY <1>1 DEF Falls
<1> QED BY <1>1, <1>4, <1>5 DEF Tearing, Falls

\* A branch that is not taken leads past nothing, and an error leads past no step
\* that is certain.
LEMMA Homewards ==
  ASSUME TearingDown, UNCHANGED <<name, pair, phase>>, NEW c \in Callers, Goes(c), Falls, Clears(c),
         NEW n \in {1, 1 + step(c).hop}, Go(c, Place(c, n)),
         n = 1 \/ ~ Straight(pair, job[c].at)
  PROVE  Homeward(c)
<1>1. /\ job[c].at \in DOMAIN pair.down /\ step(c) = pair.down[job[c].at]
      /\ DOMAIN pair.down = 1 .. Len(pair.down) /\ Len(pair.down) \in Nat
      /\ step(c).hop \in Nat
  BY TornSteps DEF StepType
<1>2. Place(c, n) \in Places
  BY Moving DEF TearingDown, IInv
<1>3. Place(c, n).at = job[c].at + n /\ Place(c, n).undo = <<>>
  BY DEF Place, Attempt
<1>4. ASSUME NEW i \in DOMAIN pair.down, NEW o \in Traces(pair), i < job[c].at + n, Reverted(i, o)
      PROVE  Gone(o)'
  <2>1. CASE i < job[c].at
    BY <1>4, <2>1 DEF TearingDown, Tearing, Falls
  <2>2. CASE i = job[c].at
    BY <1>4, <2>2 DEF Clears
  <2>3. CASE i > job[c].at
    <3>1. job[c].at \in 1 .. i - 1 /\ ~ i > job[c].at + step(c).hop /\ n # 1
      BY <1>1, <1>4, <2>3
    <3> QED BY <1>1, <1>4, <3>1 DEF Reverted, Surely
  <2> QED BY <1>1, <2>1, <2>2, <2>3
<1> QED BY <1>2, <1>3, <1>4 DEF Homeward

\* A caller that begins again, or looks at its step again.
LEMMA BackHomeward ==
  ASSUME TearingDown, NEW c \in Callers, NEW p \in Places, Go(c, p), p.at = 1,
         \A m \in DOMAIN p.undo : p.undo[m] \notin pair.held /\ ~ Guard(p.undo[m])
  PROVE  Homeward(c)
<1>1. pair.down \in Seq(StepType)
  BY Catalogue DEF TearingDown, IInv, Typed, IsOperation
<1>2. \A i \in DOMAIN pair.down : ~ i < 1
  BY <1>1
<1> QED BY <1>2 DEF Homeward

LEMMA HoldHomeward ==
  ASSUME TearingDown, NEW c \in Callers, Goes(c), NEW content \in Reads, Falls,
         Go(c, Holding(c, content))
  PROVE  Homeward(c)
<1>1. Holding(c, content) \in Places
  BY Moving DEF TearingDown, IInv
<1>2. Holding(c, content).at = job[c].at /\ Holding(c, content).undo = <<>>
  BY DEF Holding, Attempt
<1>3. \A i \in DOMAIN pair.down, o \in Traces(pair) :
        i < job[c].at /\ Reverted(i, o) => Gone(o)'
  BY DEF TearingDown, Tearing, Falls
<1> QED BY <1>1, <1>2, <1>3 DEF Homeward

LEMMA FailsHomeward ==
  ASSUME TearingDown, UNCHANGED <<name, pair, phase>>, NEW c \in Callers, Goes(c),
         dropped \subseteq dropped' => Falls, Failed(c)
  PROVE  Homeward(c) /\ Falls
<1>1. job[c].at \in DOMAIN pair.down /\ step(c) = pair.down[job[c].at] /\ step(c) \in StepType
  BY TornSteps
<1>2. CASE step(c).skip
  <2>1. dropped' = dropped \cup {step(c).obj} /\ Go(c, Place(c, 1 + step(c).hop))
    BY <1>2 DEF Failed
  <2>2. Clears(c)
    <3> SUFFICES ASSUME NEW o \in Traces(pair), Reverted(job[c].at, o) PROVE Gone(o)'
      BY DEF Clears
    <3> QED BY <1>1, <2>1 DEF Reverted, Reverts, Gone
  <2>3. ~ Straight(pair, job[c].at)
    BY <1>1, <1>2 DEF Straight
  <2>4. Falls
    BY <2>1
  <2> QED BY <2>1, <2>2, <2>3, <2>4, Homewards
<1>3. CASE ~ step(c).skip
  <2>1. dropped' = dropped /\ Go(c, Attempt(1, Unread, step(c).undo))
    BY <1>3 DEF Failed
  <2>2. Attempt(1, Unread, step(c).undo) \in Places
    <3>1. step(c).undo \in Seq(STRING)
      BY <1>1 DEF StepType
    <3> QED BY <3>1, Moving DEF TearingDown, IInv
  <2>3. ASSUME NEW m \in DOMAIN step(c).undo
        PROVE  step(c).undo[m] \notin pair.held /\ ~ Guard(step(c).undo[m])
    <3>1. step(c).undo[m] \notin pair.held
      BY <1>1, <2>3 DEF TearingDown, Undoes
    <3>2. ASSUME Guard(step(c).undo[m]) PROVE FALSE
      <4>1. Guards(pair, step(c).undo[m])
        BY <3>1, <3>2 DEF Guard, TearingDown, Undoes
      <4> QED BY <1>1, <2>3, <4>1 DEF Guards
    <3> QED BY <3>1, <3>2
  <2>4. Falls
    BY <2>1
  <2> QED BY <2>1, <2>2, <2>3, <2>4, BackHomeward DEF Attempt
<1> QED BY <1>2, <1>3

LEMMA TornFails ==
  ASSUME TearingDown, UNCHANGED <<name, pair, phase, hub>>, NEW c \in Callers, Goes(c), Failed(c)
  PROVE  Tearing'
  BY UntouchedFalls, FailsHomeward, TornMoves

LEMMA TornSucceeds ==
  ASSUME TearingDown, NEW c \in Callers, Goes(c), Succeed(c),
         dropped \subseteq dropped' => Falls /\ Clears(c)
  PROVE  Tearing'
<1>1. UNCHANGED <<name, pair, phase>>
  BY DEF Succeed
<1>2. CASE Passed(c) /\ UNCHANGED dropped
  <2>1. PICK n \in {1, 1 + step(c).hop} : Go(c, Place(c, n)) /\ (n = 1 \/ step(c).do = "settle")
    BY <1>2 DEF Passed
  <2>2. n = 1 \/ ~ Straight(pair, job[c].at)
    BY <2>1, TornSteps DEF Straight
  <2>3. Falls /\ Clears(c)
    BY <1>2
  <2> QED BY <1>1, <2>1, <2>2, <2>3, Homewards, TornMoves
<1>3. CASE Failed(c)
  BY <1>1, <1>3, FailsHomeward, TornMoves
<1> QED BY <1>2, <1>3 DEF Succeed

\* A step that changes nothing and reverts nothing, or has nothing to revert.
LEMMA TornPasses ==
  ASSUME TearingDown, NEW c \in Callers, Goes(c), UNCHANGED <<name, pair, phase, hub, dropped>>,
         NEW n \in {1, 1 + step(c).hop}, Go(c, Place(c, n)),
         n = 1 \/ ~ Straight(pair, job[c].at),
         \/ step(c).do \notin {"patch", "update", "amend", "delete", "purge", "prune"}
         \/ step(c).blind \/ step(c).unsure
         \/ step(c).do = "prune" /\ ~ There(step(c).obj)
  PROVE  Tearing'
<1>1. job[c].at \in DOMAIN pair.down /\ step(c) = pair.down[job[c].at]
  BY TornSteps
<1>2. Falls
  BY UntouchedFalls
<1>3. Clears(c)
  <2> SUFFICES ASSUME NEW o \in Traces(pair), Reverted(job[c].at, o) PROVE Gone(o)'
    BY DEF Clears
  <2>1. Gone(o)
    BY <1>1 DEF Reverted, Reverts, Gone
  <2> QED BY <1>2, <2>1 DEF Falls
<1> QED BY <1>2, <1>3, Homewards, TornMoves

LEMMA TornHolds ==
  ASSUME TearingDown, NEW c \in Callers, Goes(c), UNCHANGED <<name, pair, phase, hub, dropped>>,
         NEW content \in Reads, Go(c, Holding(c, content))
  PROVE  Tearing'
  BY UntouchedFalls, HoldHomeward, TornMoves

\* The attempt is over because the object that guards it is missing.
LEMMA TornQuits ==
  ASSUME TearingDown, NEW c \in Callers, Goes(c), UNCHANGED <<name, pair, phase, hub, dropped>>,
         step(c).do = "quit", ~ There(step(c).obj), Go(c, End)
  PROVE  Tearing'
<1>1. /\ job[c].at \in DOMAIN pair.down /\ step(c) = pair.down[job[c].at]
      /\ End \in Places /\ End.undo = <<>>
  BY TornSteps, Moving DEF TearingDown, IInv, End, Attempt
<1>2. Falls
  BY UntouchedFalls
<1>3. ASSUME NEW o \in Traces(pair) PROVE Gone(o)
  <2>1. Guard(step(c).obj)
    BY <1>1 DEF Guard
  <2>2. CASE o = step(c).obj
    BY <2>2 DEF Gone, There, TearingDown, Tearing
  <2>3. CASE o # step(c).obj
    BY <2>1, <2>3 DEF TearingDown, Tearing
  <2> QED BY <2>2, <2>3
<1>4. \A o \in Traces(pair) : Gone(o)'
  BY <1>2, <1>3 DEF Falls
<1>5. Homeward(c)
  BY <1>1, <1>4 DEF Homeward
<1> QED BY <1>2, <1>5, TornMoves

-----------------------------------------------------------------------------
\* One lemma for each call of a teardown.

\* What is written to an object that was there before brings nothing back, and
\* takes away what the step reverts.
LEMMA TornWrites ==
  ASSUME TearingDown, NEW c \in Callers, Goes(c), NEW saw,
         step(c).do \in Overwriting \/ (There(step(c).obj) /\ saw = hub[step(c).obj]),
         step(c).obj \in pair.held
  PROVE  /\ hub[step(c).obj] \cap Stray(pair, step(c).obj) = {} =>
              Written(c, saw) \cap Stray(pair, step(c).obj) = {}
         /\ Reverted(job[c].at, step(c).obj) => Written(c, saw) \cap Stray(pair, step(c).obj) = {}
<1> DEFINE stray == Stray(pair, step(c).obj)
<1>1. job[c].at \in DOMAIN pair.down /\ step(c) = pair.down[job[c].at]
  BY TornSteps
<1>2. /\ step(c).set \subseteq pair.kept
      /\ step(c).do \in Overwriting => stray \subseteq step(c).clear
      /\ stray \cap Mine = {}
  BY <1>1 DEF TearingDown, Undoes
<1>3. Callers \cap stray = {}
  <2>1. \A i \in DOMAIN pair.up : pair.up[i].set \subseteq Named(pair.up)
    BY DEF Named
  <2>2. \A i \in DOMAIN pair.down : pair.down[i].set \subseteq Named(pair.down)
    BY DEF Named
  <2>3. stray \subseteq Named(pair.up) \cup Named(pair.down)
    BY <2>1, <2>2 DEF Stray, SetOn, StepsOn
  <2>4. Callers \cap (Named(pair.up) \cup Named(pair.down)) = {}
    BY HubAssumption DEF TearingDown, IInv, Typed
  <2> QED BY <2>3, <2>4
<1>4. Own({c}, step(c).set) \cap stray = {}
  BY <1>2, <1>3 DEF Own, Stray
<1>5. stray \subseteq step(c).clear => stray \subseteq Own({c}, step(c).clear)
  BY <1>2 DEF Own
<1>6. stray \subseteq step(c).clear => Written(c, saw) \cap stray = {}
  BY <1>5 DEF Written
<1>7. Reverted(job[c].at, step(c).obj) => stray \subseteq step(c).clear
  BY <1>1 DEF Reverted, Reverts
<1>8. step(c).do \notin Overwriting /\ hub[step(c).obj] \cap stray = {} => Written(c, saw) \cap stray = {}
  BY <1>4 DEF Written
<1> QED BY <1>2, <1>6, <1>7, <1>8

LEMMA TornPuts ==
  ASSUME TearingDown, NEW c \in Callers, Goes(c), NEW saw,
         There(step(c).obj) \/ step(c).do \in Creating,
         step(c).do \in Overwriting \/ (There(step(c).obj) /\ saw = hub[step(c).obj]),
         step(c).do \notin {"delete", "purge", "prune"}, Put(step(c).obj, Written(c, saw)), Succeed(c)
  PROVE  Tearing'
<1>1. /\ job[c].at \in DOMAIN pair.down /\ step(c) = pair.down[job[c].at]
      /\ UNCHANGED <<name, pair, phase>>
  BY TornSteps DEF Succeed
<1>2. dropped \subseteq dropped' => Falls
  BY <1>1, TornWrites, PutFalls
<1>3. Clears(c)
  <2> SUFFICES ASSUME NEW o \in Traces(pair), Reverted(job[c].at, o) PROVE Gone(o)'
    BY DEF Clears
  <2>1. o = step(c).obj /\ o \in pair.held
    BY <1>1 DEF Reverted, Reverts
  <2>2. Written(c, saw) \cap Stray(pair, o) = {}
    BY <2>1, TornWrites
  <2>3. hub'[o] = Written(c, saw) /\ pair' = pair
    BY <1>1, <2>1 DEF Put
  <2> QED BY <2>1, <2>2, <2>3 DEF Gone
<1> QED BY <1>2, <1>3, TornSucceeds

LEMMA TornGet ==
  ASSUME TearingDown, NEW c \in Callers, Get(c)
  PROVE  Tearing'
<1>1. /\ Goes(c) /\ step(c).do \in Getting
      /\ job[c].at \in DOMAIN pair.down /\ step(c) = pair.down[job[c].at]
  BY TornSteps DEF Get, Reading
<1>2. CASE Fail(c)
  BY <1>1, <1>2, TornFails DEF Fail
<1>3. CASE There(step(c).obj) /\ step(c).do # "refuse" /\ Turns(c, Found(c))
  <2>1. UNCHANGED <<name, pair, phase, hub, dropped>> /\ Go(c, Found(c))
    BY <1>3 DEF Turns
  <2>2. CASE Found(c) = Holding(c, hub[step(c).obj])
    <3>1. hub[step(c).obj] \in Reads
      BY <1>3 DEF There, TearingDown, IInv, Typed, Reads
    <3> QED BY <1>1, <2>1, <2>2, <3>1, TornHolds
  <2>3. CASE Found(c) = Place(c, 1 + step(c).hop) /\ step(c).do = "jump"
    <3>1. ASSUME Straight(pair, job[c].at) PROVE FALSE
      <4>1. /\ step(c).obj \in Going(pair) /\ Unskipped(pair.down, step(c).obj)
            /\ \E i \in 1 .. job[c].at - 1 : Reverts(pair, i, step(c).obj) /\ Plainly(pair, i)
        BY <1>1, <2>3, <3>1 DEF Straight
      <4>2. Gone(step(c).obj)
        <5>1. PICK i \in 1 .. job[c].at - 1 : Reverts(pair, i, step(c).obj) /\ Plainly(pair, i)
          BY <4>1
        <5>2. i \in DOMAIN pair.down /\ i < job[c].at
          BY <1>1, TornSteps
        <5>3. Reverted(i, step(c).obj)
          BY <5>1, <5>2 DEF Reverted, Plainly, Surely
        <5>4. step(c).obj \in Traces(pair)
          BY <4>1 DEF Traces
        <5> QED BY <5>2, <5>3, <5>4 DEF TearingDown, Tearing
      <4>3. step(c).obj \notin dropped
        BY <1>1, <4>1, TornSteps DEF TearingDown, Traced
      <4> QED BY <1>3, <4>1, <4>2, <4>3 DEF Gone, Going
    <3> QED BY <1>1, <2>1, <2>3, <3>1, TornPasses
  <2>4. CASE Found(c) = Place(c, 1) /\ step(c).do \in {"get", "quit", "when", "ensure"}
    BY <1>1, <2>1, <2>4, TornPasses
  <2> QED BY <1>1, <1>3, <2>2, <2>3, <2>4 DEF Found, Getting
<1>4. CASE /\ ~ There(step(c).obj) /\ step(c).do \notin {"get", "update", "amend", "rewrite"}
           /\ Turns(c, Missed(c))
  <2>1. UNCHANGED <<name, pair, phase, hub, dropped>> /\ Go(c, Missed(c))
    BY <1>4 DEF Turns
  <2>2. CASE Missed(c) = Holding(c, Missing) \/ Missed(c) = Holding(c, {})
    BY <1>1, <2>1, <2>2, TornHolds DEF Reads
  <2>3. CASE Missed(c) = Place(c, 1 + step(c).hop) /\ step(c).do = "when"
    <3>1. ~ Straight(pair, job[c].at)
      BY <1>1, <1>4, <2>3 DEF Straight, There, TearingDown, Tearing
    <3> QED BY <1>1, <2>1, <2>3, <3>1, TornPasses
  <2>4. CASE Missed(c) = End /\ step(c).do = "quit"
    BY <1>1, <1>4, <2>1, <2>4, TornQuits
  <2>5. CASE Missed(c) = Place(c, 1) /\ step(c).do \in {"refuse", "jump", "settle", "prune"}
    BY <1>1, <1>4, <2>1, <2>5, TornPasses
  <2> QED BY <1>1, <1>4, <2>2, <2>3, <2>4, <2>5 DEF Missed, Getting
<1> QED BY <1>2, <1>3, <1>4 DEF Get

LEMMA TornCreate ==
  ASSUME TearingDown, NEW c \in Callers, CreateCall(c)
  PROVE  Tearing'
<1>1. /\ Goes(c)
      /\ step(c).do \in {"create", "admit", "upsert", "ensure", "apply", "replace"}
      /\ job[c].at \in DOMAIN pair.down /\ step(c) = pair.down[job[c].at]
  BY TornSteps DEF CreateCall, Reading, Writing
<1>2. CASE Fail(c)
  BY <1>1, <1>2, TornFails DEF Fail
<1>3. CASE There(step(c).obj) /\ Turns(c, Holding(c, hub[step(c).obj]))
  <2>1. hub[step(c).obj] \in Reads
    BY <1>3 DEF There, TearingDown, IInv, Typed, Reads
  <2> QED BY <1>1, <1>3, <2>1, TornHolds DEF Turns
<1>4. CASE step(c).do = "admit" /\ Turns(c, Place(c, 1))
  BY <1>1, <1>4, TornPasses DEF Turns
<1>5. CASE ~ There(step(c).obj) /\ Put(step(c).obj, Own({c}, step(c).set)) /\ Succeed(c)
  <2>1. step(c).obj \notin pair.held /\ step(c).do \in Creating
    BY <1>1, <1>5 DEF TearingDown, Tearing, There, Creating
  <2>2. dropped \subseteq dropped' => Falls
    BY <1>1, <1>5, <2>1, PutFalls DEF Succeed
  <2>3. Clears(c)
    BY <1>1 DEF Clears, Reverted, Reverts
  <2> QED BY <1>1, <1>5, <2>2, <2>3, TornSucceeds
<1> QED BY <1>2, <1>3, <1>4, <1>5 DEF CreateCall

\* A prune that writes has found what it does not clear.
LEMMA TornUpdate ==
  ASSUME TearingDown, NEW c \in Callers, UpdateCall(c)
  PROVE  Tearing'
<1>1. /\ Goes(c) /\ job[c].saw \notin {Unread, Missing}
      /\ step(c).do \notin {"delete", "purge"}
      /\ job[c].at \in DOMAIN pair.down /\ step(c) = pair.down[job[c].at]
  BY TornSteps DEF UpdateCall, Writing
<1>2. CASE Fail(c)
  BY <1>1, <1>2, TornFails DEF Fail
<1>3. CASE /\ step(c).do = "merge" \/ (There(step(c).obj) /\ Accepts(c))
           /\ Put(step(c).obj, Written(c, job[c].saw)) /\ Succeed(c)
           /\ step(c).do # "prune"
  <2>1. There(step(c).obj) \/ step(c).do \in Creating
    BY <1>3 DEF Creating
  <2>2. step(c).do \in Overwriting \/ (There(step(c).obj) /\ job[c].saw = hub[step(c).obj])
    BY <1>3 DEF Accepts, Overwriting
  <2> QED BY <1>1, <1>3, <2>1, <2>2, TornPuts
<1>4. CASE /\ There(step(c).obj) /\ Put(step(c).obj, Written(c, job[c].saw)) /\ Succeed(c)
           /\ step(c).do = "prune"
  <2>1. step(c).obj \notin pair.held
    BY <1>1, <1>4 DEF TearingDown, Undoes
  <2>2. dropped \subseteq dropped' => Falls
    BY <1>1, <1>4, <2>1, PutFalls DEF Succeed
  <2>3. Clears(c)
    <3> SUFFICES ASSUME NEW o \in Traces(pair), Reverted(job[c].at, o) PROVE FALSE
      BY DEF Clears
    <3>1. /\ o = step(c).obj
          /\ SetOn(pair, o) \subseteq step(c).clear /\ SetOn(pair, o) \cap Mine = {}
      BY <1>1, <1>4, <2>1 DEF Reverted, Reverts
    <3>2. FieldsOn(o) = SetOn(pair, o)
      BY <3>1, Plain DEF FieldsOn
    <3>3. job[c].saw \subseteq SetOn(pair, o) /\ Own({c}, step(c).set) \subseteq SetOn(pair, o)
      BY <1>1, <3>1, <3>2, OnObject DEF TearingDown, IInv, Traced
    <3>4. SetOn(pair, o) \subseteq Own({c}, step(c).clear)
      BY <3>1, Plain
    <3>5. Written(c, job[c].saw) = {}
      BY <3>3, <3>4 DEF Written
    <3> QED BY <1>4, <3>5 DEF UpdateCall
  <2> QED BY <1>1, <1>4, <2>2, <2>3, TornSucceeds
<1> QED BY <1>2, <1>3, <1>4 DEF UpdateCall

LEMMA TornPatch ==
  ASSUME TearingDown, NEW c \in Callers, PatchCall(c)
  PROVE  Tearing'
<1>1. Goes(c) /\ step(c).do = "patch"
  BY DEF PatchCall, Reading
<1>2. CASE Fail(c)
  BY <1>1, <1>2, TornFails DEF Fail
<1>3. CASE There(step(c).obj) /\ Put(step(c).obj, Written(c, hub[step(c).obj])) /\ Succeed(c)
  BY <1>1, <1>3, TornPuts
<1> QED BY <1>2, <1>3 DEF PatchCall

LEMMA TornDelete ==
  ASSUME TearingDown, NEW c \in Callers, DeleteCall(c)
  PROVE  Tearing'
<1> DEFINE x == step(c).obj
<1>1. /\ Goes(c) /\ step(c).do \in {"delete", "purge", "prune"}
      /\ job[c].at \in DOMAIN pair.down /\ step(c) = pair.down[job[c].at]
  BY TornSteps DEF DeleteCall, Reading, Writing
<1>2. CASE Fail(c)
  BY <1>1, <1>2, TornFails DEF Fail
<1>3. CASE Erase(x) /\ Succeed(c)
  <2>1. x \notin pair.held
    BY <1>1 DEF TearingDown, Undoes
  <2>2. ASSUME Guard(x), NEW o \in Traces(pair) \ {x} PROVE Gone(o)
    <3>1. Guards(pair, x)
      BY <2>1, <2>2 DEF Guard, TearingDown, Undoes
    <3>2. job[c].at \in StepsOn(pair.down, x)
      BY <1>1 DEF StepsOn
    <3>3. PICK i \in 1 .. job[c].at - 1 : Reverts(pair, i, o) /\ Surely(pair, i)
      BY <1>1, <2>2, <3>1, <3>2 DEF Guards
    <3>4. i \in DOMAIN pair.down /\ i < job[c].at
      BY <1>1, TornSteps
    <3> QED BY <2>2, <3>3, <3>4 DEF Reverted, TearingDown, Tearing
  <2>3. dropped \subseteq dropped' => Falls
    BY <1>3, <2>1, <2>2, EraseFalls DEF Succeed
  <2>4. Clears(c)
    <3> SUFFICES ASSUME NEW o \in Traces(pair), Reverted(job[c].at, o) PROVE Gone(o)'
      BY DEF Clears
    <3>1. o = x
      BY <1>1 DEF Reverted, Reverts
    <3>2. DOMAIN hub' = DOMAIN hub \ {x} /\ pair' = pair
      BY <1>3 DEF Erase, Restrict, Succeed
    <3> QED BY <2>1, <3>1, <3>2 DEF Gone, There
  <2> QED BY <1>1, <1>3, <2>3, <2>4, TornSucceeds
<1> QED BY <1>2, <1>3 DEF DeleteCall

LEMMA TornPass ==
  ASSUME TearingDown, NEW c \in Callers, Pass(c)
  PROVE  Tearing'
<1>1. /\ Goes(c) /\ step(c).do \in {"list", "hop"}
      /\ job[c].at \in DOMAIN pair.down /\ step(c) = pair.down[job[c].at]
  BY TornSteps DEF Pass, Reading
<1>2. PICK n \in {1, 1 + step(c).hop} : Turns(c, Place(c, n))
  BY DEF Pass
<1>3. ~ Straight(pair, job[c].at)
  BY <1>1 DEF Straight
<1> QED BY <1>1, <1>2, <1>3, TornPasses DEF Turns

LEMMA TornUndo ==
  ASSUME TearingDown, NEW c \in Callers, Undo(c)
  PROVE  Tearing'
<1>1. job[c].undo \in Seq(STRING) /\ job[c].undo # <<>>
  BY DEF Undo, TearingDown, IInv, Typed, Places
<1>2. \A q \in Seq(STRING) : q # <<>> =>
        /\ 1 \in DOMAIN q /\ Head(q) = q[1] /\ Tail(q) \in Seq(STRING)
        /\ \A m \in DOMAIN Tail(q) : m + 1 \in DOMAIN q /\ Tail(q)[m] = q[m + 1]
  OBVIOUS
<1>3. \A m \in DOMAIN job[c].undo : job[c].undo[m] \notin pair.held /\ ~ Guard(job[c].undo[m])
  BY DEF TearingDown, Tearing
<1>4. Attempt(1, Unread, Tail(job[c].undo)) \in Places
  <2>1. Unread \in Reads /\ 1 \in 1 .. Len(Steps) + 1
    BY StepsTyped DEF TearingDown, IInv, Typed, Reads
  <2> QED BY <1>1, <1>2, <2>1 DEF Places, Attempt
<1>5. Falls
  <2>1. Head(job[c].undo) \notin pair.held /\ ~ Guard(Head(job[c].undo))
    BY <1>1, <1>2, <1>3
  <2> QED BY <2>1, EraseFalls DEF Undo
<1>6. Homeward(c)
  <2>1. \A m \in DOMAIN Tail(job[c].undo) :
          Tail(job[c].undo)[m] \notin pair.held /\ ~ Guard(Tail(job[c].undo)[m])
    BY <1>1, <1>2, <1>3
  <2> QED BY <1>4, <2>1, BackHomeward DEF Undo, Attempt
<1> QED BY <1>5, <1>6, TornMoves DEF Undo

LEMMA TornFault ==
  ASSUME TearingDown, NEW c \in Callers, Fault(c)
  PROVE  Tearing'
<1>1. /\ Goes(c) /\ UNCHANGED <<name, pair, phase, hub>>
      /\ job[c].at \in DOMAIN pair.down /\ step(c) = pair.down[job[c].at]
  BY TornSteps DEF Fault
<1>2. CASE Failed(c)
  BY <1>1, <1>2, TornFails
<1>3. CASE step(c).blind /\ Go(c, Missed(c)) /\ UNCHANGED dropped
  <2>1. CASE Missed(c) = Holding(c, Missing) \/ Missed(c) = Holding(c, {})
    BY <1>1, <1>3, <2>1, TornHolds DEF Reads
  <2>2. CASE Missed(c) = Place(c, 1 + step(c).hop) /\ step(c).do = "when"
    <3>1. ~ Straight(pair, job[c].at)
      BY <1>1, <1>3, <2>2 DEF Straight
    <3> QED BY <1>1, <1>3, <2>2, <3>1, TornPasses
  <2>3. CASE step(c).do = "quit"
    BY <1>1, <1>3, <2>3 DEF TearingDown, Undoes
  <2>4. CASE Missed(c) = Place(c, 1)
    BY <1>1, <1>3, <2>4, TornPasses
  <2> QED BY <2>1, <2>2, <2>3, <2>4 DEF Missed
<1>4. CASE step(c).unsure /\ Go(c, Place(c, 1 + step(c).hop)) /\ UNCHANGED dropped
  <2>1. ~ Straight(pair, job[c].at)
    BY <1>1, <1>4 DEF Straight
  <2> QED BY <1>1, <1>4, <2>1, TornPasses
<1> QED BY <1>2, <1>3, <1>4 DEF Fault

LEMMA TornKill ==
  ASSUME TearingDown, NEW c \in Callers, Kill(c)
  PROVE  Tearing'
<1>1. Fresh \in Places /\ Fresh.at = 1 /\ Fresh.undo = <<>>
  BY Beginning DEF TearingDown, IInv, Typed, Fresh, Attempt
<1>2. Falls /\ Homeward(c)
  BY <1>1, UntouchedFalls, BackHomeward DEF Kill
<1> QED BY <1>2, TornMoves DEF Kill

\* When the teardown begins, the setup has made what guards it.
LEMMA TornTurn ==
  ASSUME IInv, LastInv, Traced, Undoes(pair), Turn
  PROVE  Tearing'
<1>1. /\ phase = "up" /\ pair' = pair /\ hub' = hub /\ dropped' = {}
      /\ \A c \in Callers : Done(c) /\ job'[c] = Fresh
  BY DEF Turn
<1>2. pair.down \in Seq(StepType) /\ pair.up \in Seq(StepType) /\ Steps = pair.up
  BY <1>1, Catalogue DEF IInv, Typed, IsOperation, Steps
<1>3. \A i \in DOMAIN pair.down : ~ i < 1
  BY <1>2
<1>4. Fresh.at = 1 /\ Fresh.undo = <<>>
  BY DEF Fresh, Attempt
<1>5. pair.held \subseteq DOMAIN hub
  BY <1>1 DEF IInv, Kept
<1>6. ASSUME NEW c \in Callers, NEW q, Guard(q) PROVE There(q)
  <2>1. CASE q \in pair.held
    BY <1>5, <2>1 DEF There
  <2>2. CASE q \notin pair.held
    <3>1. Guards(pair, q)
      BY <1>6, <2>2 DEF Guard, Undoes
    <3>2. PICK i \in StepsOn(pair.up, q) : pair.up[i].do \in Making /\ Always(pair.up, i)
      BY <3>1 DEF Guards
    <3>3. i \in DOMAIN pair.up /\ Made(i) /\ pair.up[i].obj = q
      BY <3>2 DEF Made, StepsOn
    <3>4. i < job[c].at
      <4>1. job[c].at \in Nat
        BY <1>2 DEF IInv, Typed, Places
      <4> QED BY <1>1, <1>2, <3>3, <4>1 DEF Done
    <3>5. Left(c, i)
      BY <1>1, <3>3, <3>4 DEF LastInv
    <3>6. q \notin dropped
      BY <1>2, <3>1 DEF Traced, Guards
    <3> QED BY <3>3, <3>5, <3>6 DEF Left
  <2> QED BY <2>1, <2>2
<1>7. \A q : (Guard(q)' <=> Guard(q)) /\ (There(q)' <=> There(q))
  BY <1>1 DEF Guard, There
<1> QED BY <1>1, <1>3, <1>4, <1>5, <1>6, <1>7 DEF Tearing

LEMMA TornStep ==
  ASSUME IInv, LastInv, TearInv, [Next]_vars
  PROVE  TearInv'
<1>1. Traced'
  BY TracedStep DEF TearInv
<1>2. ASSUME phase' = "down", Undoes(pair)' PROVE Tearing'
  <2>1. pair' = pair
    BY DEF Next, Call, Get, CreateCall, UpdateCall, MergeConflict, PatchCall, DeleteCall, Pass,
           Undo, Fault, Kill, Fail, Turns, Succeed, Turn, vars
  <2>2. Undoes(pair)
    BY <1>2, <2>1
  <2>3. CASE Turn
    BY <2>2, <2>3, TornTurn DEF TearInv
  <2>4. ASSUME NEW c \in Callers, Call(c) \/ Fault(c) \/ Kill(c)
        PROVE  Tearing'
    <3>1. phase = "down"
      BY <1>2, <2>4 DEF Call, Get, CreateCall, UpdateCall, MergeConflict, PatchCall, DeleteCall,
                        Pass, Undo, Fault, Kill, Fail, Turns, Succeed
    <3>2. TearingDown
      BY <2>2, <3>1 DEF TearingDown, TearInv
    <3>3. CASE MergeConflict(c)
      BY <3>2, <3>3, TornFails DEF MergeConflict, Writing, Fail
    <3> QED BY <2>4, <3>2, <3>3, TornGet, TornCreate, TornUpdate, TornPatch, TornDelete, TornPass,
               TornUndo, TornFault, TornKill DEF Call
  <2>5. CASE UNCHANGED vars
    <3>1. Tearing
      BY <1>2, <2>2, <2>5 DEF TearInv, vars
    <3> QED BY <2>5, <3>1 DEF vars, Tearing, Gone, Guard, Reverted, There
  <2> QED BY <2>3, <2>4, <2>5 DEF Next
<1> QED BY <1>1, <1>2 DEF TearInv

\* However the attempts of any number of callers overlap, fail and are killed, a
\* teardown that undoes its setup and has reported success has left what was there
\* before, and nothing else but what is known to stay and what it failed to remove
\* (Hub's TeardownComplete).
THEOREM TeardownsComplete == Spec => [](Undoes(pair) => TeardownComplete)
<1>1. Init => TearInv
  BY TracedStarts DEF Init, TearInv
<1>2. IInv /\ LastInv /\ TearInv /\ [Next]_vars => TearInv'
  BY TornStep
<1>3. Init => LastInv
  BY LastStarts
<1>4. IInv /\ LastInv /\ [Next]_vars => LastInv'
  BY LastStep
<1>5. IInv /\ TearInv => (Undoes(pair) => TeardownComplete)
  <2> SUFFICES ASSUME IInv, Traced, Tearing, Undoes(pair), phase = "down", NEW c \in Callers, Done(c)
               PROVE  /\ pair.held \subseteq DOMAIN hub
                      /\ DOMAIN hub \subseteq pair.held \cup pair.kept \cup dropped
                      /\ \A o \in pair.held : hub[o] \subseteq Own(Callers, pair.kept) \/ o \in dropped
    BY DEF TeardownComplete, TearInv
  <2>1. Steps = pair.down /\ pair.down \in Seq(StepType)
    BY Catalogue DEF IInv, Typed, IsOperation, Steps
  <2>2. \A i \in DOMAIN pair.down : i < job[c].at
    <3>1. job[c].at \in Nat
      BY <2>1 DEF IInv, Typed, Places
    <3> QED BY <2>1, <3>1 DEF Done
  <2>3. ASSUME NEW o \in Traces(pair) PROVE Gone(o)
    <3>1. PICK i \in DOMAIN pair.down : Reverts(pair, i, o) /\ Surely(pair, i)
      BY DEF Undoes
    <3> QED BY <2>2, <3>1 DEF Reverted, Tearing
  <2>4. pair.held \subseteq DOMAIN hub
    BY DEF Tearing
  <2>5. ASSUME NEW o \in DOMAIN hub, o \notin pair.held, o \notin pair.kept PROVE o \in dropped
    <3>1. o \in Traces(pair)
      BY <2>5 DEF Traced, Traces, Going
    <3> QED BY <2>3, <2>5, <3>1 DEF Gone, There
  <2>6. ASSUME NEW o \in pair.held, o \notin dropped PROVE hub[o] \subseteq Own(Callers, pair.kept)
    <3>1. hub[o] \subseteq Own(Callers, SetOn(pair, o))
      BY <2>4 DEF Traced, FieldsOn
    <3>2. hub[o] \cap Stray(pair, o) = {}
      <4>1. CASE Stray(pair, o) = {}
        BY <4>1
      <4>2. CASE Stray(pair, o) # {}
        BY <2>3, <2>6, <4>2 DEF Traces, Gone
      <4> QED BY <4>1, <4>2
    <3>3. Stray(pair, o) \cap Mine = {}
      BY DEF Undoes
    <3> QED BY <3>1, <3>2, <3>3 DEF Stray, Own
  <2> QED BY <2>4, <2>5, <2>6
<1> QED BY <1>1, <1>2, <1>3, <1>4, <1>5, Invariance, PTL DEF Spec

=============================================================================
