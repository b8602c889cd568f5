---------------------------- MODULE Decommission ----------------------------
(***************************************************************************)
(* The decommission workflow of one cluster, internal/decommission: a      *)
(* ConfigMap in the cluster's namespace holds the phase, and commands that *)
(* run in processes of their own read it, act and write it back, without a *)
(* resourceVersion. A command may fail at any call, or be killed.          *)
(***************************************************************************)
EXTENDS Integers, Sequences

CONSTANTS Callers,  \* the processes that run commands
          Left,     \* the phases a previous version may have left a workflow in
          MaxMade   \* bound: the workflows there ever are for the cluster

\* The phases are their places in phaseOrder.
Imported == 1
AuditDone == 2
Notified == 3
BackedUp == 4
Drained  == 5
Deleted  == 6
Cleaned  == 7
Phases   == Imported .. Cleaned

ASSUME DecommissionAssumption == MaxMade \in Nat \ {0} /\ Left \subseteq Phases

\* Mutant: the last phase has a next one too.
NextPast(phase) == phase + 1

nextPhase(phase) == IF phase < Cleaned THEN phase + 1 ELSE phase

\* notified and backup stand for NotifiedAt and BackupPath, the evidence;
\* report for the audit's; history keeps the phases of its entries.
States == [phase : Phases, notified : BOOLEAN, backup : BOOLEAN, report : BOOLEAN,
           history : Seq(Phases)]

\* A state without evidence: what Start creates, and what it saves after the
\* audit.
New(phase, report, history) ==
  [phase |-> phase, notified |-> FALSE, backup |-> FALSE, report |-> report, history |-> history]

Created == New(Imported, FALSE, <<Imported>>)
Audited == New(AuditDone, TRUE, <<Imported, AuditDone>>)

Objects == {"managed", "works", "namespace"}

VARIABLES
  uid,    \* the workflow's ConfigMap, 0 when there is none
  cm,     \* its content
  made,   \* how many there have been
  mixed,  \* history: a command that began with another workflow wrote to this one
  born,   \* history: the phase a previous version left a workflow in, or 0
  hub,    \* what the hub holds of the cluster
  job     \* what each caller is doing

vars == <<uid, cm, made, mixed, born, hub, job>>

Places == {"none", "create", "audit", "saveaudit", "notify", "backup", "reread", "save",
           "works", "managed", "namespace"}

\* met is the ConfigMap the command began with, state what it will write.
Jobs == [at : Places, met : 0 .. MaxMade, target : Phases, state : States]
Idle == [at |-> "none", met |-> 0, target |-> Imported, state |-> Created]

\* What a previous version left may lack the evidence for its phase, but has none
\* that only a later phase's work would have recorded.
Legacy ==
  {[phase |-> k, notified |-> n, backup |-> b, report |-> k > Imported,
    history |-> [h \in 1 .. k |-> h]] : k \in Left, n \in BOOLEAN, b \in BOOLEAN}

Init ==
  /\ \/ uid = 0 /\ made = 0 /\ cm = Created /\ born = 0
     \/ /\ uid = 1 /\ made = 1
        /\ cm \in {s \in Legacy : /\ s.notified => s.phase >= AuditDone
                                  /\ s.backup => s.phase >= Notified}
        /\ born = cm.phase
  /\ mixed = FALSE
  /\ hub \in {Objects, Objects \ {"managed"}}
  /\ job = [p \in Callers |-> Idle]

At(p, place)   == job[p].at = place
Goto(p, place) == job' = [job EXCEPT ![p].at = place]
Leave(p)       == job' = [job EXCEPT ![p] = Idle]

SameWorkflow == UNCHANGED <<uid, cm, made, mixed>>
SameCluster  == UNCHANGED <<born, hub>>

\* A failed call ends the command where it is, and so does a kill.
Fail(p) ==
  /\ ~At(p, "none")
  /\ Leave(p) /\ SameWorkflow /\ SameCluster

\* setState: an update by name, whatever has been written since it was read.
setState(p) ==
  /\ uid # 0
  /\ cm' = job[p].state
  /\ mixed' = (mixed \/ job[p].met # uid)
  /\ Leave(p)
  /\ UNCHANGED <<uid, made>> /\ SameCluster

-----------------------------------------------------------------------------
(* Start *)

\* An existing workflow is returned as it is. Any error of the read, a failed
\* call included, is taken for its absence.
Start(p) ==
  /\ At(p, "none")
  /\ Goto(p, "create") /\ SameWorkflow /\ SameCluster

\* Mutant: a workflow there is already is overwritten.
CreateOrReset(p) ==
  /\ At(p, "create")
  /\ "namespace" \in hub /\ made < MaxMade
  /\ uid' = (IF uid = 0 THEN made + 1 ELSE uid)
  /\ made' = (IF uid = 0 THEN made + 1 ELSE made)
  /\ cm' = Created /\ mixed' = FALSE
  /\ job' = [job EXCEPT ![p] = [at |-> "audit", met |-> uid', target |-> AuditDone, state |-> Audited]]
  /\ SameCluster

\* The API server refuses a second ConfigMap of the name, and any in a
\* namespace that is gone: those end in Fail.
createState(p) ==
  /\ At(p, "create")
  /\ uid = 0 /\ "namespace" \in hub /\ made < MaxMade
  /\ uid' = made + 1 /\ made' = made + 1
  /\ cm' = Created /\ mixed' = FALSE
  /\ job' = [job EXCEPT ![p] = [at |-> "audit", met |-> made + 1, target |-> AuditDone, state |-> Audited]]
  /\ SameCluster

Audit(p) ==
  /\ At(p, "audit") /\ "managed" \in hub
  /\ Goto(p, "saveaudit") /\ SameWorkflow /\ SameCluster

SaveAudit(p) == At(p, "saveaudit") /\ setState(p)

-----------------------------------------------------------------------------
(* Advance *)

\* Mutant: Drain and the safeguards let the phase pass.
NeverRefused(target) == FALSE

\* Drain always fails, and validateSafeguards always refuses.
Refused(target) == target \in {Drained, Deleted}

\* Where the work for a phase begins; the audit is not among it.
Work(target) ==
  CASE target = Notified -> "notify"
    [] target = BackedUp -> "backup"
    [] target = Cleaned  -> "works"
    [] OTHER             -> "reread"

Advance(p) ==
  /\ At(p, "none") /\ uid # 0
  /\ LET target == nextPhase(cm.phase)
     IN  /\ target # cm.phase /\ ~Refused(target)
         /\ job' = [job EXCEPT ![p] =
                      [at |-> Work(target), met |-> uid, target |-> target, state |-> Created]]
  /\ SameWorkflow /\ SameCluster

\* Notify and Backup read the ConfigMap again, and succeed only by the evidence
\* that is in it.
Notify(p) ==
  /\ At(p, "notify") /\ uid # 0 /\ cm.notified
  /\ Goto(p, "reread") /\ SameWorkflow /\ SameCluster

Backup(p) ==
  /\ At(p, "backup") /\ uid # 0 /\ cm.backup
  /\ Goto(p, "reread") /\ SameWorkflow /\ SameCluster

\* The state with the phase set and addHistory done.
Entered(s, phase, entry) ==
  [phase |-> phase, notified |-> s.notified, backup |-> s.backup, report |-> s.report,
   history |-> Append(s.history, entry)]

ToSave(p, s) ==
  job' = [job EXCEPT ![p] = [at |-> "save", met |-> job[p].met, target |-> job[p].target, state |-> s]]

\* Mutant: the target is computed again from the phase read now.
RereadTarget(p) ==
  /\ At(p, "reread") /\ uid # 0
  /\ ToSave(p, Entered(cm, nextPhase(cm.phase), nextPhase(cm.phase)))
  /\ SameWorkflow /\ SameCluster

\* Mutant: the entry is added before the phase is set, for the phase there was.
RereadOldEntry(p) ==
  /\ At(p, "reread") /\ uid # 0
  /\ ToSave(p, Entered(cm, job[p].target, cm.phase))
  /\ SameWorkflow /\ SameCluster

\* The target is the one computed before the phase's work.
Reread(p) ==
  /\ At(p, "reread") /\ uid # 0
  /\ ToSave(p, Entered(cm, job[p].target, job[p].target))
  /\ SameWorkflow /\ SameCluster

Save(p) == At(p, "save") /\ setState(p)

-----------------------------------------------------------------------------
(* Cleanup, for a workflow in phase deleted; a failed deletion is logged *)

DeleteWorks(p) ==
  /\ At(p, "works")
  /\ hub' \in {hub, hub \ {"works"}}
  /\ Goto(p, "managed") /\ SameWorkflow /\ UNCHANGED born

DeleteManaged(p) ==
  /\ At(p, "managed")
  /\ hub' \in {hub, hub \ {"managed"}}
  /\ Goto(p, "namespace") /\ SameWorkflow /\ UNCHANGED born

\* The namespace takes the workflow's ConfigMap with it; phase cleaned is
\* returned, never saved.
DeleteNamespace(p) ==
  /\ At(p, "namespace")
  /\ hub' = hub \ {"works", "namespace"}
  /\ uid' = 0 /\ cm' = Created /\ mixed' = FALSE
  /\ Leave(p) /\ UNCHANGED <<made, born>>

-----------------------------------------------------------------------------
Cancel ==
  /\ uid # 0
  /\ uid' = 0 /\ cm' = Created /\ mixed' = FALSE
  /\ UNCHANGED <<made, job>> /\ SameCluster

StartSteps(p)   == Start(p) \/ createState(p) \/ Audit(p) \/ SaveAudit(p)
AdvanceSteps(p) == Advance(p) \/ Notify(p) \/ Backup(p) \/ Reread(p) \/ Save(p)
Cleanup(p)      == DeleteWorks(p) \/ DeleteManaged(p) \/ DeleteNamespace(p)

Next ==
  \/ Cancel
  \/ \E p \in Callers : StartSteps(p) \/ AdvanceSteps(p) \/ Cleanup(p) \/ Fail(p)

Spec == Init /\ [][Next]_vars

-----------------------------------------------------------------------------
(* Properties *)

TypeOK ==
  /\ uid \in 0 .. made /\ made \in 0 .. MaxMade
  /\ cm \in States /\ mixed \in BOOLEAN
  /\ born \in Phases \cup {0} /\ hub \subseteq Objects
  /\ job \in [Callers -> Jobs]

\* validateSafeguards: no interleaving of commands, with crashes between their
\* steps, deletes anything of a cluster unless a previous version had deleted it.
KeptUnlessDeleted == [][hub' # hub => born = Deleted]_vars

\* The phase in which the commands of this version found the workflow there is:
\* no other than the first was left by a previous one.
From == IF uid = 1 THEN born ELSE 0

\* Notify and Backup: unless a command outlived the workflow it began with, no race
\* of commands takes a workflow past either of them without its evidence, with
\* whatever evidence, or none, it was inherited.
EvidenceForPhase == uid # 0 /\ ~mixed =>
  /\ From < Notified /\ cm.phase >= Notified => cm.notified
  /\ From < BackedUp /\ cm.phase >= BackedUp => cm.backup

\* ... the phase never goes back, whatever stale state is saved,
PhaseForward == [][uid # 0 /\ uid' = uid /\ ~mixed' => cm'.phase >= cm.phase]_vars

\* ... and the history tells every phase, in order, up to the one it is in.
Tells(s) ==
  /\ s.history # <<>> /\ s.history[1] = Imported /\ s.history[Len(s.history)] = s.phase
  /\ \A k \in 2 .. Len(s.history) : s.history[k] - s.history[k - 1] \in {0, 1}

HistoryTells == uid # 0 /\ ~mixed => Tells(cm)

\* ADR-008: a workflow resumes from its last completed step, so that one that is
\* past imported has its audit.
AuditedHasReport == uid # 0 /\ cm.phase > Imported => cm.report

-----------------------------------------------------------------------------
(* The inductive invariant behind them *)

\* What a command carries from step to step; only the work for Cleaned deletes.
JobInv(p) ==
  /\ job[p].met <= made
  /\ job[p].at \in {"audit", "saveaudit"} => job[p].state = Audited
  /\ job[p].at \in {"notify", "backup", "reread", "save"} => job[p].target \in AuditDone .. BackedUp
  /\ job[p].at = "notify" => job[p].target = Notified
  /\ job[p].at = "backup" => job[p].target = BackedUp
  /\ job[p].at = "save" => job[p].state.phase = job[p].target
  /\ job[p].at \in {"works", "managed", "namespace"} => born = Deleted

\* The evidence without which Notify and Backup let nobody enter their phase.
Passed(phase) == (phase = Notified => cm.notified) /\ (phase = BackedUp => cm.backup)

\* A command of the workflow there is: its target is the workflow's phase or the
\* next one, whatever the others have saved since, for nobody can be two phases
\* ahead of it with the evidence there was when it began.
OwnInv(p) ==
  /\ job[p].at \in {"audit", "saveaudit"} =>
       ~cm.notified /\ ~cm.backup /\ cm.phase \in {Imported, AuditDone}
  /\ job[p].at \in {"notify", "backup", "reread", "save"} =>
       /\ cm.phase \in {job[p].target - 1, job[p].target}
       /\ cm.notified => job[p].target >= Notified
       /\ cm.backup => job[p].target >= BackedUp
  /\ job[p].at \in {"reread", "save"} => Passed(job[p].target)
  /\ job[p].at = "save" =>
       /\ job[p].state.notified = cm.notified /\ job[p].state.backup = cm.backup
       /\ Tells(job[p].state)

\* The workflow, as long as only its own commands have written to it.
OwnedInv ==
  /\ EvidenceForPhase /\ Tells(cm)
  /\ cm.notified => cm.phase >= AuditDone
  /\ cm.backup => cm.phase >= Notified

WorkflowInv ==
  /\ TypeOK
  /\ cm.phase = Deleted => born = Deleted
  /\ uid # 0 /\ ~mixed => OwnedInv
  /\ \A p \in Callers : JobInv(p) /\ (uid # 0 /\ ~mixed /\ job[p].met = uid => OwnInv(p))
=============================================================================
