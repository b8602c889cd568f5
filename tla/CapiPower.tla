------------------------------ MODULE CapiPower ------------------------------
(***************************************************************************)
(* The power of one CAPI cluster: HibernateCAPI and ResumeCAPI of          *)
(* internal/lifecycle/lifecycle.go, and the scaling of its                 *)
(* MachineDeployments (SetMachineDeploymentReplicas).  A call lists the    *)
(* MachineDeployments once and patches them one by one from that list, so  *)
(* calls of several callers - one bulk command may name a cluster twice -  *)
(* interleave at the patches.                                              *)
(***************************************************************************)
EXTENDS Naturals, FiniteSets

CONSTANTS MDs,          \* MachineDeployments of the cluster
          First,        \* the one GetMachineDeployment returns, and scaling patches
          Callers,
          MaxReplicas,  \* bound on replicas
          Faults        \* "error": a patch fails, "lost": it is applied, its reply lost

ASSUME CapiAssumption ==
  /\ First \in MDs
  /\ MaxReplicas \in Nat \ {0}
  /\ Faults \subseteq {"error", "lost"}

VARIABLES
  replicas,  \* spec.replicas
  saved,     \* the pre-hibernate-replicas annotation; 0 when there is none
  job,       \* each caller's call
  before     \* replicas right before hibernation took them to 0, while they are
             \* 0 and no scaling or resume raced with that hibernation; else 0

vars == <<replicas, saved, job, before>>

Counts == 0 .. MaxReplicas
Jobs   == [op : {"none", "hibernate", "resume"}, saw : [MDs -> Counts],
           todo : SUBSET MDs, alone : BOOLEAN]
Idle   == [op |-> "none", saw |-> [md \in MDs |-> 0], todo |-> {}, alone |-> TRUE]

Init ==
  /\ replicas \in [MDs -> Counts]
  /\ saved = [md \in MDs |-> 0]
  /\ job = [p \in Callers |-> Idle]
  /\ before = [md \in MDs |-> 0]

-----------------------------------------------------------------------------
(* listCAPIMachineDeployments: a hibernation uses the replicas that it saw, a
   resume the annotations.  *)

Start(p, op, saw) ==
  /\ job[p].op = "none"
  /\ job' = [job EXCEPT ![p] = [op |-> op, saw |-> saw, todo |-> MDs, alone |-> TRUE]]
  /\ UNCHANGED <<replicas, saved, before>>

StartHibernate(p) == Start(p, "hibernate", replicas)
StartResume(p)    == Start(p, "resume", saved)

\* The calls of the given kinds, but p's own, are no longer alone since their list.
Disturb(p, ops, j) ==
  [q \in Callers |-> IF q # p /\ j[q].op \in ops THEN [j[q] EXCEPT !.alone = FALSE] ELSE j[q]]

\* The patch is done; when its reply is lost the call returns the error.
Patched(p, md, ops) ==
  \/ job' = Disturb(p, ops, [job EXCEPT ![p].todo = @ \ {md}])
  \/ "lost" \in Faults /\ job' = Disturb(p, ops, [job EXCEPT ![p] = Idle])

-----------------------------------------------------------------------------
(* HibernateCAPI *)

\* Mutant: a MachineDeployment that is at 0 is patched as well.
ToSleepAll(p) == job[p].todo

\* Those it has not passed yet, without the ones its list saw at 0.
ToSleep(p) == {md \in job[p].todo : job[p].saw[md] # 0}

\* Annotation and replicas go into one patch.
PatchDown(p, md) ==
  /\ job[p].op = "hibernate" /\ md \in ToSleep(p)
  /\ saved' = [saved EXCEPT ![md] = job[p].saw[md]]
  /\ replicas' = [replicas EXCEPT ![md] = 0]
  /\ before' = [before EXCEPT ![md] =
                  IF ~job[p].alone THEN 0 ELSE IF replicas[md] > 0 THEN replicas[md] ELSE @]
  /\ Patched(p, md, {"resume"})

Slept(p) ==
  /\ job[p].op = "hibernate" /\ ToSleep(p) = {}
  /\ job' = [job EXCEPT ![p] = Idle]
  /\ UNCHANGED <<replicas, saved, before>>

-----------------------------------------------------------------------------
(* ResumeCAPI *)

DefaultReplicas == 1

\* Mutant: the annotation is not read.
TargetDefault(p, md) == DefaultReplicas

Target(p, md) == IF job[p].saw[md] > 0 THEN job[p].saw[md] ELSE DefaultReplicas

\* Mutant: only a MachineDeployment whose annotation is there is patched.
ToWakeSaved(p) == {md \in job[p].todo : job[p].saw[md] > 0}

\* Every one is patched, running or not; the annotation stays.
ToWake(p) == job[p].todo

PatchUp(p, md) ==
  /\ job[p].op = "resume" /\ md \in ToWake(p)
  /\ replicas' = [replicas EXCEPT ![md] = Target(p, md)]
  /\ before' = [before EXCEPT ![md] = 0]
  /\ Patched(p, md, {"hibernate"})
  /\ UNCHANGED saved

Woke(p) ==
  /\ job[p].op = "resume" /\ ToWake(p) = {}
  /\ job' = [job EXCEPT ![p] = Idle]
  /\ UNCHANGED <<replicas, saved, before>>

-----------------------------------------------------------------------------
\* Mutant: the error of a patch is passed over.
PassOver(p) ==
  /\ "error" \in Faults /\ job[p].todo # {}
  /\ \E md \in job[p].todo : job' = [job EXCEPT ![p].todo = @ \ {md}]
  /\ UNCHANGED <<replicas, saved, before>>

\* The first patch that fails ends the call; what is patched stays patched.
Abort(p) ==
  /\ "error" \in Faults /\ job[p].todo # {}
  /\ job' = [job EXCEPT ![p] = Idle]
  /\ UNCHANGED <<replicas, saved, before>>

\* SetMachineDeploymentReplicas: an unconditional patch of one of them.
Scale(n) ==
  /\ replicas' = [replicas EXCEPT ![First] = n]
  /\ before' = [before EXCEPT ![First] = 0]
  /\ job' = [q \in Callers |-> IF job[q].op = "none" THEN job[q] ELSE [job[q] EXCEPT !.alone = FALSE]]
  /\ UNCHANGED saved

\* getCAPIPowerState: one MachineDeployment with replicas is enough.
PowerState == IF \E md \in MDs : replicas[md] > 0 THEN "Running" ELSE "Hibernating"

-----------------------------------------------------------------------------
Next ==
  \/ \E p \in Callers :
       \/ StartHibernate(p) \/ StartResume(p)
       \/ Slept(p) \/ Woke(p) \/ Abort(p)
       \/ \E md \in MDs : PatchDown(p, md) \/ PatchUp(p, md)
  \/ \E n \in Counts : Scale(n)

Spec == Init /\ [][Next]_vars

-----------------------------------------------------------------------------
(* Properties *)

TypeOK ==
  /\ replicas \in [MDs -> Counts]
  /\ saved \in [MDs -> Counts]
  /\ job \in [Callers -> Jobs]
  /\ before \in [MDs -> Counts]

\* While the cluster sleeps, the annotation is what its MachineDeployments had,
\* over failed, repeated and concurrent hibernations.
Remembered == \A md \in MDs : before[md] > 0 => replicas[md] = 0 /\ saved[md] = before[md]

\* What a call's list saw holds as long as nothing raced with the call: a
\* hibernation's counts, or 0 when another one came first; a resume's annotations.
SeenOK(p) ==
  job[p].alone =>
    /\ job[p].op = "hibernate" => \A md \in MDs :
         IF replicas[md] > 0 THEN job[p].saw[md] = replicas[md]
         ELSE job[p].saw[md] > 0 => before[md] \in {0, job[p].saw[md]}
    /\ job[p].op = "resume" => job[p].saw = saved

\* A call that has passed a MachineDeployment alone has put it to sleep, or has
\* woken it.
PassedOK(p) ==
  job[p].alone => \A md \in MDs \ job[p].todo :
    /\ job[p].op = "hibernate" => replicas[md] = 0
    /\ job[p].op = "resume" => replicas[md] > 0

\* The inductive invariant behind Remembered and the two action properties.
PowerInv == TypeOK /\ Remembered /\ \A p \in Callers : SeenOK(p) /\ PassedOK(p)

\* A resume that no other call raced with gives every MachineDeployment that
\* hibernation took down the count it had before, however often the hibernation
\* failed half-way, was repeated, or ran twice at once.
RestoresCount ==
  [][\A p \in Callers, md \in MDs :
       (PatchUp(p, md) /\ job[p].alone /\ before[md] > 0) => replicas'[md] = before[md]]_vars

\* A hibernation that returns success, and that no resume or scaling raced
\* with, leaves the cluster Hibernating.
SuccessIsSleep ==
  [][\A p \in Callers : (Slept(p) /\ job[p].alone) => PowerState = "Hibernating"]_vars

\* A resume that returns success, and that no hibernation or scaling raced
\* with, leaves no MachineDeployment at 0.
SuccessIsAwake ==
  [][\A p \in Callers : (Woke(p) /\ job[p].alone) => \A md \in MDs : replicas[md] > 0]_vars
=============================================================================
