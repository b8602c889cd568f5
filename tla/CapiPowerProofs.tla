--------------------------- MODULE CapiPowerProofs ---------------------------
(***************************************************************************)
(* Proofs about CapiPower for any MachineDeployments, callers, counts and  *)
(* faults: PowerInv is inductive, and the three promises of a call that    *)
(* nothing raced with follow from it.                                      *)
(***************************************************************************)
EXTENDS CapiPower, TLAPS

\* A call may only lose todo, keeps what it saw, and is alone only if it was.
Kept(q) ==
  /\ job'[q].op = job[q].op /\ job'[q].saw = job[q].saw /\ job'[q].todo = job[q].todo
  /\ job'[q].alone => job[q].alone

\* Disturb only ever takes alone away, and takes it from the kinds it names.
LEMMA DisturbOthers ==
  ASSUME TypeOK, NEW p \in Callers, NEW j, NEW ops, j \in [Callers -> Jobs],
         \A q \in Callers \ {p} : j[q] = job[q],
         job' = Disturb(p, ops, j)
  PROVE  /\ job' \in [Callers -> Jobs]
         /\ job'[p] = j[p]
         /\ \A q \in Callers \ {p} : Kept(q) /\ (job[q].op \in ops => ~job'[q].alone)
<1>1. \A q \in Callers : job'[q] = IF q # p /\ j[q].op \in ops THEN [j[q] EXCEPT !.alone = FALSE] ELSE j[q]
  BY DEF Disturb
<1>2. \A q \in Callers : [j[q] EXCEPT !.alone = FALSE] \in Jobs
  BY DEF Jobs
<1>3. job' \in [Callers -> Jobs]
  BY <1>1, <1>2 DEF Disturb
<1>4. \A q \in Callers : j[q] \in Jobs
  OBVIOUS
<1>5. ASSUME NEW q \in Callers \ {p}
      PROVE  Kept(q) /\ (job[q].op \in ops => ~job'[q].alone)
  <2>1. CASE j[q].op \in ops
    <3>1. job'[q] = [op |-> j[q].op, saw |-> j[q].saw, todo |-> j[q].todo, alone |-> FALSE]
      BY <1>1, <1>4, <2>1 DEF Jobs
    <3> QED
      BY <3>1 DEF Kept
  <2>2. CASE j[q].op \notin ops
    BY <1>1, <2>2 DEF Kept
  <2> QED
    BY <2>1, <2>2
<1> QED
  BY <1>1, <1>3, <1>5

\* An idle caller.
LEMMA IdleJob == Idle \in Jobs /\ Idle.op = "none" /\ Idle.todo = {}
<1>1. 0 \in Counts
  BY CapiAssumption DEF Counts
<1> QED
  BY <1>1 DEF Idle, Jobs

\* A patch leaves the caller idle, or with one MachineDeployment less to do.
LEMMA PatchedJob ==
  ASSUME TypeOK, NEW p \in Callers, NEW md \in MDs, NEW ops, Patched(p, md, ops)
  PROVE  /\ job' \in [Callers -> Jobs]
         /\ \A q \in Callers \ {p} : Kept(q) /\ (job[q].op \in ops => ~job'[q].alone)
         /\ \/ job'[p] = Idle
            \/ /\ job'[p].op = job[p].op /\ job'[p].saw = job[p].saw
               /\ job'[p].alone = job[p].alone /\ job'[p].todo = job[p].todo \ {md}
<1>1. CASE job' = Disturb(p, ops, [job EXCEPT ![p].todo = @ \ {md}])
  <2> DEFINE j == [job EXCEPT ![p].todo = @ \ {md}]
  <2>1. job[p] \in Jobs
    BY DEF TypeOK
  <2>2. j[p] = [op |-> job[p].op, saw |-> job[p].saw, todo |-> job[p].todo \ {md}, alone |-> job[p].alone]
    BY <2>1 DEF TypeOK, Jobs
  <2>3. j[p] \in Jobs
    BY <2>1, <2>2 DEF Jobs
  <2>4. j \in [Callers -> Jobs] /\ \A q \in Callers \ {p} : j[q] = job[q]
    BY <2>3 DEF TypeOK
  <2>5. job' = Disturb(p, ops, j)
    BY <1>1
  <2> HIDE DEF j
  <2> QED
    BY <2>2, <2>4, <2>5, DisturbOthers
<1>2. CASE job' = Disturb(p, ops, [job EXCEPT ![p] = Idle])
  <2> DEFINE j == [job EXCEPT ![p] = Idle]
  <2>1. j \in [Callers -> Jobs] /\ j[p] = Idle /\ \A q \in Callers \ {p} : j[q] = job[q]
    BY IdleJob DEF TypeOK
  <2>2. job' = Disturb(p, ops, j)
    BY <1>2
  <2> HIDE DEF j
  <2> QED
    BY <2>1, <2>2, DisturbOthers
<1> QED
  BY <1>1, <1>2 DEF Patched

\* A woken MachineDeployment has replicas.
LEMMA TargetPositive ==
  ASSUME TypeOK, NEW p \in Callers, NEW md \in MDs
  PROVE  Target(p, md) \in Counts /\ Target(p, md) > 0
<1>1. job[p].saw[md] \in Counts
  BY DEF TypeOK, Jobs
<1> QED
  BY <1>1, CapiAssumption DEF Target, DefaultReplicas, Counts

\* A hibernation's patch keeps the invariant: whoever slept or woke before, the
\* annotation it writes is the count the MachineDeployment had.
LEMMA DownStep ==
  ASSUME PowerInv, NEW p \in Callers, NEW md \in MDs, PatchDown(p, md)
  PROVE  PowerInv'
<1> USE DEF PowerInv
<1>1. /\ job[p].op = "hibernate" /\ md \in job[p].todo /\ job[p].saw[md] # 0
      /\ saved' = [saved EXCEPT ![md] = job[p].saw[md]]
      /\ replicas' = [replicas EXCEPT ![md] = 0]
      /\ before' = [before EXCEPT ![md] =
                      IF ~job[p].alone THEN 0 ELSE IF replicas[md] > 0 THEN replicas[md] ELSE before[md]]
  BY DEF PatchDown, ToSleep
<1>2. /\ job' \in [Callers -> Jobs]
      /\ \A q \in Callers \ {p} : Kept(q) /\ (job[q].op \in {"resume"} => ~job'[q].alone)
      /\ \/ job'[p] = Idle
         \/ /\ job'[p].op = job[p].op /\ job'[p].saw = job[p].saw
            /\ job'[p].alone = job[p].alone /\ job'[p].todo = job[p].todo \ {md}
  BY PatchedJob DEF PatchDown
<1>3. /\ job[p].saw \in [MDs -> Counts] /\ 0 \in Counts
      /\ replicas[md] \in Counts /\ before[md] \in Counts
  BY CapiAssumption DEF TypeOK, Jobs, Counts
<1>4. TypeOK'
  BY <1>1, <1>2, <1>3 DEF TypeOK
<1>5. job[p].alone => before'[md] \in {0, job[p].saw[md]}
  BY <1>1, <1>3 DEF SeenOK, TypeOK, Counts
<1>6. ~job[p].alone => before'[md] = 0
  BY <1>1 DEF TypeOK
<1>7. Remembered'
  BY <1>1, <1>3, <1>5, <1>6 DEF Remembered, TypeOK, Counts
<1>8. ASSUME NEW q \in Callers, job'[q].alone, job'[q].op = "hibernate"
      PROVE  job[q].alone /\ job[q].op = "hibernate" /\ job'[q].saw = job[q].saw
             /\ (q # p => job'[q].todo = job[q].todo)
             /\ (q = p => job'[q].todo = job[q].todo \ {md})
  BY <1>1, <1>2, <1>8, IdleJob DEF Kept
<1>9. ASSUME NEW q \in Callers, job'[q].alone, job'[q].op = "hibernate"
      PROVE  \A d \in MDs : IF replicas'[d] > 0 THEN job'[q].saw[d] = replicas'[d]
                            ELSE job'[q].saw[d] > 0 => before'[d] \in {0, job'[q].saw[d]}
  <2>1. SeenOK(q) /\ job[q].alone /\ job[q].op = "hibernate" /\ job'[q].saw = job[q].saw
    BY <1>8, <1>9
  <2>2. ASSUME NEW d \in MDs, d # md
        PROVE  IF replicas'[d] > 0 THEN job'[q].saw[d] = replicas'[d]
               ELSE job'[q].saw[d] > 0 => before'[d] \in {0, job'[q].saw[d]}
    BY <1>1, <2>1, <2>2 DEF SeenOK, TypeOK
  <2>3. replicas'[md] = 0
    BY <1>1 DEF TypeOK
  <2>4. before'[md] \in {0, job[q].saw[md]} \/ ~(job[q].saw[md] > 0)
    BY <1>1, <1>3, <1>6, <2>1 DEF SeenOK, TypeOK
  <2> QED
    BY <2>1, <2>2, <2>3, <2>4
<1>10. ASSUME NEW q \in Callers PROVE ~(job'[q].alone /\ job'[q].op = "resume")
  BY <1>1, <1>2, IdleJob DEF Kept
<1>11. \A q \in Callers : SeenOK(q)'
  BY <1>9, <1>10 DEF SeenOK
<1>12. ASSUME NEW q \in Callers, job'[q].alone, job'[q].op = "hibernate", NEW d \in MDs \ job'[q].todo
       PROVE  replicas'[d] = 0
  <2>1. PassedOK(q) /\ (d = md \/ d \notin job[q].todo) /\ job[q].alone /\ job[q].op = "hibernate"
    BY <1>8, <1>12
  <2> QED
    BY <1>1, <2>1 DEF PassedOK, TypeOK
<1>13. \A q \in Callers : PassedOK(q)'
  BY <1>10, <1>12 DEF PassedOK
<1> QED
  BY <1>4, <1>7, <1>11, <1>13

\* A resume's patch keeps the invariant.
LEMMA UpStep ==
  ASSUME PowerInv, NEW p \in Callers, NEW md \in MDs, PatchUp(p, md)
  PROVE  PowerInv'
<1> USE DEF PowerInv
<1>1. /\ job[p].op = "resume" /\ md \in job[p].todo
      /\ replicas' = [replicas EXCEPT ![md] = Target(p, md)]
      /\ before' = [before EXCEPT ![md] = 0]
      /\ saved' = saved
  BY DEF PatchUp, ToWake
<1>2. /\ job' \in [Callers -> Jobs]
      /\ \A q \in Callers \ {p} : Kept(q) /\ (job[q].op \in {"hibernate"} => ~job'[q].alone)
      /\ \/ job'[p] = Idle
         \/ /\ job'[p].op = job[p].op /\ job'[p].saw = job[p].saw
            /\ job'[p].alone = job[p].alone /\ job'[p].todo = job[p].todo \ {md}
  BY PatchedJob DEF PatchUp
<1>3. Target(p, md) \in Counts /\ Target(p, md) > 0 /\ 0 \in Counts
  BY TargetPositive, CapiAssumption DEF Counts
<1>4. TypeOK'
  BY <1>1, <1>2, <1>3 DEF TypeOK
<1>5. Remembered'
  BY <1>1 DEF Remembered, TypeOK
<1>6. ASSUME NEW q \in Callers PROVE ~(job'[q].alone /\ job'[q].op = "hibernate")
  BY <1>1, <1>2, IdleJob DEF Kept
<1>7. ASSUME NEW q \in Callers, job'[q].alone, job'[q].op = "resume"
      PROVE  job[q].alone /\ job[q].op = "resume" /\ job'[q].saw = job[q].saw
             /\ (q # p => job'[q].todo = job[q].todo)
             /\ (q = p => job'[q].todo = job[q].todo \ {md})
  BY <1>1, <1>2, <1>7, IdleJob DEF Kept
<1>8. \A q \in Callers : SeenOK(q)'
  BY <1>1, <1>6, <1>7 DEF SeenOK
<1>9. ASSUME NEW q \in Callers, job'[q].alone, job'[q].op = "resume", NEW d \in MDs \ job'[q].todo
      PROVE  replicas'[d] > 0
  <2>1. PassedOK(q) /\ (d = md \/ d \notin job[q].todo) /\ job[q].alone /\ job[q].op = "resume"
    BY <1>7, <1>9
  <2> QED
    BY <1>1, <1>3, <2>1 DEF PassedOK, TypeOK
<1>10. \A q \in Callers : PassedOK(q)'
  BY <1>6, <1>9 DEF PassedOK
<1> QED
  BY <1>4, <1>5, <1>8, <1>10

\* A call that starts has its list from now.
LEMMA StartStep ==
  ASSUME PowerInv, NEW p \in Callers, StartHibernate(p) \/ StartResume(p)
  PROVE  PowerInv'
<1> USE DEF PowerInv
<1>1. PICK op \in {"hibernate", "resume"}, saw \in [MDs -> Counts] :
        /\ job' = [job EXCEPT ![p] = [op |-> op, saw |-> saw, todo |-> MDs, alone |-> TRUE]]
        /\ UNCHANGED <<replicas, saved, before>>
        /\ op = "hibernate" => saw = replicas
        /\ op = "resume" => saw = saved
  BY DEF StartHibernate, StartResume, Start, TypeOK
<1>2. [op |-> op, saw |-> saw, todo |-> MDs, alone |-> TRUE] \in Jobs
  BY DEF Jobs
<1>3. /\ job' \in [Callers -> Jobs]
      /\ job'[p].op = op /\ job'[p].saw = saw /\ job'[p].todo = MDs
      /\ \A q \in Callers \ {p} : job'[q] = job[q]
  BY <1>1, <1>2 DEF TypeOK
<1>4. TypeOK' /\ Remembered'
  BY <1>1, <1>3 DEF TypeOK, Remembered
<1>5. SeenOK(p)' /\ PassedOK(p)'
  BY <1>1, <1>3 DEF SeenOK, PassedOK, TypeOK, Counts
<1>6. \A q \in Callers \ {p} : SeenOK(q)' /\ PassedOK(q)'
  BY <1>1, <1>3 DEF SeenOK, PassedOK
<1> QED
  BY <1>4, <1>5, <1>6

\* A call that ends, with success or not.
LEMMA EndStep ==
  ASSUME PowerInv, NEW p \in Callers, Slept(p) \/ Woke(p) \/ Abort(p)
  PROVE  PowerInv'
<1> USE DEF PowerInv
<1>1. job' = [job EXCEPT ![p] = Idle] /\ UNCHANGED <<replicas, saved, before>>
  BY DEF Slept, Woke, Abort
<1>2. /\ job' \in [Callers -> Jobs]
      /\ job'[p].op = "none"
      /\ \A q \in Callers \ {p} : job'[q] = job[q]
  BY <1>1, IdleJob DEF TypeOK
<1>3. TypeOK' /\ Remembered'
  BY <1>1, <1>2 DEF TypeOK, Remembered
<1>4. SeenOK(p)' /\ PassedOK(p)'
  BY <1>2 DEF SeenOK, PassedOK
<1>5. \A q \in Callers \ {p} : SeenOK(q)' /\ PassedOK(q)'
  BY <1>1, <1>2 DEF SeenOK, PassedOK
<1> QED
  BY <1>3, <1>4, <1>5

\* Scaling: no call is alone any more.
LEMMA ScaleStep ==
  ASSUME PowerInv, NEW n \in Counts, Scale(n)
  PROVE  PowerInv'
<1> USE DEF PowerInv
<1>1. \A q \in Callers : job[q] \in Jobs
  BY DEF TypeOK
<1>2. \A q \in Callers : [job[q] EXCEPT !.alone = FALSE] \in Jobs
  BY <1>1 DEF Jobs
<1>3. /\ job' \in [Callers -> Jobs]
      /\ \A q \in Callers : job'[q].op = "none" \/ ~job'[q].alone
  BY <1>1, <1>2 DEF Scale, Jobs
<1>4. 0 \in Counts
  BY CapiAssumption DEF Counts
<1>5. TypeOK' /\ Remembered'
  BY <1>3, <1>4, CapiAssumption DEF Scale, TypeOK, Remembered
<1>6. \A q \in Callers : SeenOK(q)' /\ PassedOK(q)'
  BY <1>3 DEF SeenOK, PassedOK
<1> QED
  BY <1>5, <1>6

\* PowerInv is inductive.
LEMMA PowerStep == ASSUME PowerInv, [Next]_vars PROVE PowerInv'
<1>1. CASE UNCHANGED vars
  BY <1>1 DEF vars, PowerInv, TypeOK, Remembered, SeenOK, PassedOK
<1> QED
  BY <1>1, DownStep, UpStep, StartStep, EndStep, ScaleStep DEF Next

\* No call runs and no annotation is there at first.
LEMMA PowerInit == ASSUME Init PROVE PowerInv
<1>1. 0 \in Counts
  BY CapiAssumption DEF Counts
<1>2. job \in [Callers -> Jobs] /\ \A q \in Callers : job[q].op = "none"
  BY IdleJob DEF Init
<1> QED
  BY <1>1, <1>2 DEF Init, PowerInv, TypeOK, Remembered, SeenOK, PassedOK

\* The inductive invariant holds in every behaviour.
THEOREM PowerInvariant == Spec => []PowerInv
BY PowerInit, PowerStep, PTL DEF Spec

\* While a cluster sleeps, its annotations are the counts HibernateCAPI found:
\* neither a failed hibernation, nor its repetition, nor a second one at the
\* same time overwrites them.
THEOREM CountsRemembered == Spec => []Remembered
<1>1. PowerInv => Remembered
  BY DEF PowerInv
<1> QED
  BY <1>1, PowerInvariant, PTL

\* ResumeCAPI restores those counts, when nothing raced with it.
THEOREM CountsRestored == Spec => RestoresCount
<1>1. ASSUME PowerInv, NEW p \in Callers, NEW md \in MDs,
             PatchUp(p, md), job[p].alone, before[md] > 0
      PROVE  replicas'[md] = before[md]
  <2>1. job[p].saw[md] = saved[md] /\ saved[md] = before[md]
    BY <1>1 DEF PowerInv, SeenOK, Remembered, PatchUp
  <2>2. replicas'[md] = Target(p, md)
    BY <1>1 DEF PatchUp, PowerInv, TypeOK
  <2> QED
    BY <1>1, <2>1, <2>2 DEF Target
<1>2. PowerInv /\ [Next]_vars =>
        [\A p \in Callers, md \in MDs :
           (PatchUp(p, md) /\ job[p].alone /\ before[md] > 0) => replicas'[md] = before[md]]_vars
  BY <1>1
<1> QED
  BY <1>2, PowerInvariant, PTL DEF Spec, RestoresCount

\* A successful HibernateCAPI that nothing raced with leaves the cluster
\* Hibernating.
THEOREM SleepIsComplete == Spec => SuccessIsSleep
<1>1. ASSUME PowerInv, NEW p \in Callers, Slept(p), job[p].alone
      PROVE  PowerState = "Hibernating"
  <2>1. ASSUME NEW md \in MDs PROVE replicas[md] = 0
    <3>1. md \in job[p].todo => job[p].saw[md] = 0
      BY <1>1 DEF Slept, ToSleep
    <3>2. replicas[md] \in Counts
      BY <1>1 DEF PowerInv, TypeOK
    <3> QED
      BY <1>1, <3>1, <3>2 DEF PowerInv, SeenOK, PassedOK, Slept, Counts
  <2> QED
    BY <2>1 DEF PowerState
<1>2. PowerInv /\ [Next]_vars =>
        [\A p \in Callers : (Slept(p) /\ job[p].alone) => PowerState = "Hibernating"]_vars
  BY <1>1
<1> QED
  BY <1>2, PowerInvariant, PTL DEF Spec, SuccessIsSleep

\* A resume that reports success and that nothing raced with has woken every
\* MachineDeployment, annotated or not.
THEOREM WakingIsComplete == Spec => SuccessIsAwake
<1>1. ASSUME PowerInv, NEW p \in Callers, Woke(p), job[p].alone, NEW md \in MDs
      PROVE  replicas[md] > 0
  BY <1>1 DEF PowerInv, PassedOK, Woke, ToWake
<1>2. PowerInv /\ [Next]_vars =>
        [\A p \in Callers : (Woke(p) /\ job[p].alone) => \A md \in MDs : replicas[md] > 0]_vars
  BY <1>1
<1> QED
  BY <1>2, PowerInvariant, PTL DEF Spec, SuccessIsAwake
=============================================================================
