------------------------ MODULE DecommissionProofs ------------------------
(***************************************************************************)
(* Proofs about Decommission for any callers and any number of workflows:  *)
(* WorkflowInv is inductive, and what the phase of a workflow promises     *)
(* follows from it.                                                        *)
(***************************************************************************)
EXTENDS Decommission, TLAPS

\* The phases as numbers, for the arithmetic.
LEMMA PhaseNumbers ==
  /\ Imported = 1 /\ AuditDone = 2 /\ Notified = 3 /\ BackedUp = 4
  /\ Drained = 5 /\ Deleted = 6 /\ Cleaned = 7 /\ Phases = 1 .. 7
BY DEF Imported, AuditDone, Notified, BackedUp, Drained, Deleted, Cleaned, Phases

\* The two states Start writes, and the idle caller.
LEMMA StartStates ==
  /\ Created \in States /\ Audited \in States /\ Tells(Created) /\ Tells(Audited)
  /\ Created.phase = 1 /\ ~Created.notified /\ ~Created.backup
  /\ Audited.phase = 2 /\ ~Audited.notified /\ ~Audited.backup
  /\ Idle \in Jobs /\ Idle.at = "none" /\ Idle.met = 0
<1> USE PhaseNumbers
<1>1. Created \in States /\ Created.phase = 1 /\ ~Created.notified /\ ~Created.backup /\ Created.history = <<1>>
  BY DEF Created, New, States
<1>2. Audited = [phase |-> 2, notified |-> FALSE, backup |-> FALSE, report |-> TRUE, history |-> <<1, 2>>]
  BY DEF Audited, New
<1>3. Audited \in States
  BY <1>2 DEF States
<1>4. Tells(Created)
  BY <1>1 DEF Tells
<1>5. Tells(Audited)
  BY <1>2 DEF Tells
<1>6. Idle \in Jobs /\ Idle.at = "none" /\ Idle.met = 0
  BY <1>1, DecommissionAssumption DEF Idle, Jobs, Places
<1> QED
  BY <1>1, <1>2, <1>3, <1>4, <1>5, <1>6

\* The initial states satisfy the invariant.
LEMMA InitInv == Init => WorkflowInv
<1> SUFFICES ASSUME Init PROVE WorkflowInv
  OBVIOUS
<1> USE PhaseNumbers
<1>1. cm \in States /\ Tells(cm) /\ (cm.notified => cm.phase >= 2) /\ (cm.backup => cm.phase >= 3)
  <2>1. CASE cm = Created
    BY <2>1, StartStates
  <2>2. CASE cm \in {s \in Legacy : (s.notified => s.phase >= AuditDone)
                                       /\ (s.backup => s.phase >= Notified)}
    <3>1. PICK k \in Left, n \in BOOLEAN, b \in BOOLEAN :
            cm = [phase |-> k, notified |-> n, backup |-> b, report |-> k > Imported,
                  history |-> [h \in 1 .. k |-> h]]
      BY <2>2 DEF Legacy
    <3>2. k \in 1 .. 7
      BY DecommissionAssumption
    <3>3. [h \in 1 .. k |-> h] \in Seq(1 .. 7) /\ Len([h \in 1 .. k |-> h]) = k
      BY <3>2
    <3>4. cm \in States
      BY <3>1, <3>2, <3>3 DEF States
    <3>5. Tells(cm)
      BY <3>1, <3>2, <3>3 DEF Tells
    <3> QED
      BY <2>2, <3>4, <3>5
  <2> QED
    BY <2>1, <2>2 DEF Init
<1>2. TypeOK
  <2>1. cm.phase \in 1 .. 7
    BY <1>1 DEF States
  <2>2. uid \in 0 .. made /\ made \in 0 .. MaxMade /\ born \in Phases \cup {0}
    BY <2>1, DecommissionAssumption DEF Init
  <2>3. mixed \in BOOLEAN /\ hub \subseteq Objects /\ job \in [Callers -> Jobs]
    BY StartStates DEF Init
  <2> QED
    BY <1>1, <2>2, <2>3 DEF TypeOK
<1>3. \A p \in Callers : job[p] = Idle
  BY DEF Init
<1>4. \A p \in Callers : JobInv(p) /\ (job[p].met = uid => OwnInv(p))
  <2>1. made \in Nat
    BY <1>2, DecommissionAssumption DEF TypeOK
  <2>2. ASSUME NEW p \in Callers PROVE job[p].at = "none" /\ job[p].met = 0
    BY <1>3, StartStates
  <2>3. ASSUME NEW p \in Callers PROVE JobInv(p)
    BY <2>1, <2>2 DEF JobInv
  <2>4. ASSUME NEW p \in Callers PROVE OwnInv(p)
    BY <2>2 DEF OwnInv
  <2> QED
    BY <2>3, <2>4
<1>5. cm.phase = Deleted => born = Deleted
  BY StartStates DEF Init
<1>6. EvidenceForPhase
  <2>1. CASE uid = 0
    BY <2>1 DEF EvidenceForPhase
  <2>2. CASE uid = 1 /\ born = cm.phase
    BY <1>1, <2>2 DEF EvidenceForPhase, From, States
  <2> QED
    BY <2>1, <2>2 DEF Init
<1> QED
  BY <1>1, <1>2, <1>4, <1>5, <1>6 DEF WorkflowInv, OwnedInv

\* A step that writes nothing but its caller's place keeps the invariant if the
\* place is right for the workflow.
LEMMA QuietStep ==
  ASSUME WorkflowInv, UNCHANGED <<uid, cm, made, mixed, born>>, hub' \subseteq Objects,
         NEW p \in Callers, NEW j \in Jobs, job' = [job EXCEPT ![p] = j],
         JobInv(p)', uid # 0 /\ ~mixed /\ j.met = uid => OwnInv(p)'
  PROVE  WorkflowInv'
<1>1. job \in [Callers -> Jobs] /\ job'[p] = j /\ \A q \in Callers \ {p} : job'[q] = job[q]
  BY DEF WorkflowInv, TypeOK
<1>2. TypeOK'
  BY <1>1 DEF WorkflowInv, TypeOK
<1>3. \A q \in Callers \ {p} : JobInv(q)' /\ (uid # 0 /\ ~mixed /\ job[q].met = uid => OwnInv(q)')
  BY <1>1 DEF WorkflowInv, JobInv, OwnInv, Tells, Passed
<1>4. uid # 0 /\ ~mixed => OwnedInv'
  BY DEF WorkflowInv, OwnedInv, Tells, EvidenceForPhase, From
<1> QED
  BY <1>1, <1>2, <1>3, <1>4 DEF WorkflowInv

\* The workflow goes: no command is of the workflow there is.
LEMMA GoneStep ==
  ASSUME WorkflowInv, uid' = 0, cm' = Created, mixed' = FALSE, UNCHANGED <<made, born>>,
         hub' \subseteq Objects,
         job' = job \/ \E p \in Callers : job' = [job EXCEPT ![p] = Idle]
  PROVE  WorkflowInv'
<1>1. \A q \in Callers : job'[q] \in {job[q], Idle}
  BY DEF WorkflowInv, TypeOK
<1>2. TypeOK'
  <2>1. job' \in [Callers -> Jobs]
    BY StartStates DEF WorkflowInv, TypeOK
  <2>2. uid' \in 0 .. made' /\ made' \in 0 .. MaxMade /\ born' \in Phases \cup {0}
    BY DecommissionAssumption DEF WorkflowInv, TypeOK
  <2> QED
    BY <2>1, <2>2, StartStates DEF TypeOK
<1>3. \A q \in Callers : JobInv(q)'
  BY <1>1, StartStates DEF WorkflowInv, TypeOK, JobInv
<1> QED
  BY <1>2, <1>3, StartStates, PhaseNumbers DEF WorkflowInv

\* A new workflow is nobody's but its Start's.
LEMMA CreateStep ==
  ASSUME WorkflowInv, NEW p \in Callers, createState(p)
  PROVE  WorkflowInv'
<1> USE PhaseNumbers
<1> DEFINE j == [at |-> "audit", met |-> made + 1, target |-> AuditDone, state |-> Audited]
<1>1. job' = [job EXCEPT ![p] = j] /\ uid' = made + 1 /\ made' = made + 1 /\ cm' = Created
  BY DEF createState
<1>2. made \in Nat /\ made + 1 \in 0 .. MaxMade
  BY DecommissionAssumption DEF createState, WorkflowInv, TypeOK
<1>3. j \in Jobs
  BY <1>2, StartStates DEF Jobs, Places
<1>4. job'[p] = j /\ \A q \in Callers \ {p} : job'[q] = job[q]
  BY <1>1 DEF WorkflowInv, TypeOK
<1>5. TypeOK'
  <2>1. job' \in [Callers -> Jobs]
    BY <1>1, <1>3 DEF WorkflowInv, TypeOK
  <2>2. uid' \in 0 .. made' /\ made' \in 0 .. MaxMade
    BY <1>1, <1>2
  <2>3. mixed' \in BOOLEAN /\ born' \in Phases \cup {0} /\ hub' \subseteq Objects
    BY DEF WorkflowInv, TypeOK, createState, SameCluster
  <2> QED
    BY <1>1, <2>1, <2>2, <2>3, StartStates DEF TypeOK
<1>6. JobInv(p)' /\ OwnInv(p)'
  BY <1>1, <1>2, <1>4, StartStates DEF JobInv, OwnInv
<1>7. \A q \in Callers \ {p} : JobInv(q)' /\ job'[q].met # uid'
  BY <1>1, <1>2, <1>4 DEF WorkflowInv, TypeOK, Jobs, JobInv, createState, SameCluster
<1>8. OwnedInv'
  BY <1>1, StartStates DEF OwnedInv, EvidenceForPhase
<1> QED
  BY <1>1, <1>5, <1>6, <1>7, <1>8, StartStates DEF WorkflowInv

\* Another command of the workflow stands by what a save leaves of it: the flags
\* are the same, and the phase is still its target or the one before.
LEMMA OthersStand ==
  ASSUME NEW p \in Callers, NEW q \in Callers, cm \in States, cm' \in States,
         job[q] \in Jobs, job'[q] = job[q], JobInv(q), OwnInv(q), OwnedInv,
         cm'.notified = cm.notified, cm'.backup = cm.backup,
         cm'.phase \in {cm.phase, cm.phase + 1}, cm'.phase \in 2 .. 4,
         cm'.phase # cm.phase => Passed(cm'.phase)
  PROVE  OwnInv(q)'
<1> USE PhaseNumbers
<1>1. cm.phase \in 1 .. 7 /\ cm'.phase \in 1 .. 7 /\ job[q].target \in 1 .. 7
  BY DEF States, Jobs
<1>2. ASSUME job[q].at \in {"notify", "backup", "reread", "save"}
      PROVE  cm'.phase \in {job[q].target - 1, job[q].target}
  <2>1. /\ cm.phase \in {job[q].target - 1, job[q].target} /\ job[q].target \in 2 .. 4
        /\ cm.notified => job[q].target >= 3
        /\ cm.backup => job[q].target >= 4
    BY <1>2 DEF OwnInv, JobInv
  <2>2. cm'.phase # cm.phase => (cm'.phase = 3 => cm.notified) /\ (cm'.phase = 4 => cm.backup)
    BY DEF Passed
  <2> QED
    BY <1>1, <2>1, <2>2
<1>3. ASSUME job[q].at \in {"audit", "saveaudit"}
      PROVE  ~cm'.notified /\ ~cm'.backup /\ cm'.phase \in {1, 2}
  <2>1. ~cm.notified /\ ~cm.backup /\ cm.phase \in {1, 2}
    BY <1>3 DEF OwnInv
  <2> QED
    BY <1>1, <2>1 DEF Passed
<1>4. ASSUME job[q].at \in {"reread", "save"} PROVE Passed(job[q].target)'
  BY <1>4 DEF OwnInv, Passed
<1> QED
  BY <1>2, <1>3, <1>4 DEF OwnInv, Tells

\* What an update by a command of the workflow writes: the same flags, and the
\* phase there is or the next one. It is what keeps the phase from going back.
LEMMA OwnWrite ==
  ASSUME WorkflowInv, NEW p \in Callers, job[p].at \in {"save", "saveaudit"}, setState(p),
         ~mixed'
  PROVE  /\ cm'.notified = cm.notified /\ cm'.backup = cm.backup
         /\ cm'.phase \in {cm.phase, cm.phase + 1} /\ cm'.phase \in 2 .. 4
         /\ cm'.phase # cm.phase => Passed(cm'.phase)
         /\ Tells(cm')
<1> USE PhaseNumbers
<1>1. cm' = job[p].state /\ job[p].met = uid /\ ~mixed /\ uid # 0
  BY DEF setState
<1>2. OwnInv(p) /\ JobInv(p) /\ OwnedInv /\ cm \in States /\ job[p] \in Jobs
  BY <1>1 DEF WorkflowInv, TypeOK
<1>3. cm.phase \in 1 .. 7 /\ job[p].target \in 1 .. 7
  BY <1>2 DEF States, Jobs
<1>4. CASE job[p].at = "save"
  <2>1. /\ cm'.phase = job[p].target /\ cm'.notified = cm.notified /\ cm'.backup = cm.backup
        /\ Tells(cm') /\ cm.phase \in {job[p].target - 1, job[p].target}
        /\ job[p].target \in 2 .. 4 /\ Passed(job[p].target)
    BY <1>1, <1>2, <1>4 DEF OwnInv, JobInv
  <2> QED
    BY <1>3, <2>1
<1>5. CASE job[p].at = "saveaudit"
  <2>1. cm' = Audited /\ ~cm.notified /\ ~cm.backup /\ cm.phase \in {1, 2}
    BY <1>1, <1>2, <1>5 DEF OwnInv, JobInv
  <2>2. cm.notified \in BOOLEAN /\ cm.backup \in BOOLEAN
    BY <1>2 DEF States
  <2>3. cm'.notified = FALSE /\ cm'.backup = FALSE /\ cm'.phase = 2
    BY <2>1 DEF Audited, New
  <2>4. cm'.notified = cm.notified /\ cm'.backup = cm.backup
    BY <2>1, <2>2, <2>3
  <2>5. Passed(cm'.phase) /\ Tells(cm')
    BY <2>1, <2>3, StartStates DEF Passed
  <2> QED
    BY <2>1, <2>3, <2>4, <2>5
<1> QED
  BY <1>4, <1>5

\* An update keeps the invariant; of a workflow that is not the command's own,
\* it only sets mixed.
LEMMA UpdateStep ==
  ASSUME WorkflowInv, NEW p \in Callers, job[p].at \in {"save", "saveaudit"}, setState(p)
  PROVE  WorkflowInv'
<1> USE PhaseNumbers
<1>1. /\ job \in [Callers -> Jobs] /\ job' = [job EXCEPT ![p] = Idle]
      /\ cm' = job[p].state /\ UNCHANGED <<uid, made, born, hub>> /\ uid # 0
  BY DEF setState, Leave, SameCluster, WorkflowInv, TypeOK
<1>2. job'[p] = Idle /\ \A q \in Callers \ {p} : job'[q] = job[q]
  BY <1>1
<1>3. cm \in States /\ cm' \in States /\ mixed' \in BOOLEAN
  BY <1>1 DEF setState, WorkflowInv, TypeOK, Jobs
<1>4. TypeOK'
  BY <1>1, <1>3, StartStates DEF WorkflowInv, TypeOK
<1>5. \A q \in Callers : JobInv(q)'
  BY <1>1, <1>2, <1>4, StartStates DEF WorkflowInv, JobInv, TypeOK
<1>6. cm'.phase # Deleted
  BY <1>1, <1>3, StartStates DEF WorkflowInv, JobInv
<1>7. ASSUME ~mixed' PROVE OwnedInv' /\ \A q \in Callers : job'[q].met = uid' => OwnInv(q)'
  <2>1. /\ cm'.notified = cm.notified /\ cm'.backup = cm.backup
        /\ cm'.phase \in {cm.phase, cm.phase + 1} /\ cm'.phase \in 2 .. 4
        /\ cm'.phase # cm.phase => Passed(cm'.phase)
        /\ Tells(cm')
    BY <1>7, OwnWrite
  <2>2. OwnedInv /\ ~mixed
    BY <1>1, <1>7 DEF setState, WorkflowInv
  <2>3. cm.phase \in 1 .. 7 /\ cm'.phase \in cm.phase .. 4
    BY <1>3, <2>1 DEF States
  <2>4. OwnedInv'
    <3>1. From' = From /\ EvidenceForPhase /\ From \in Int
      BY <1>1, <2>2, PhaseNumbers DEF From, OwnedInv, WorkflowInv, TypeOK
    <3>2. EvidenceForPhase'
      BY <1>1, <2>1, <2>2, <2>3, <3>1 DEF EvidenceForPhase, Passed
    <3> QED
      BY <2>1, <2>2, <2>3, <3>2 DEF OwnedInv
  <2>5. ASSUME NEW q \in Callers \ {p}, job'[q].met = uid' PROVE OwnInv(q)'
    <3>1. OwnInv(q) /\ JobInv(q) /\ job[q] \in Jobs /\ job'[q] = job[q]
      BY <1>1, <1>2, <2>2, <2>5 DEF WorkflowInv
    <3> QED
      BY <1>3, <2>1, <2>2, <2>3, <3>1, OthersStand
  <2>6. OwnInv(p)'
    BY <1>2, StartStates DEF OwnInv
  <2> QED
    BY <2>4, <2>5, <2>6
<1> QED
  BY <1>4, <1>5, <1>6, <1>7 DEF WorkflowInv

\* The steps that only move their caller on.
LEMMA MoveStep ==
  ASSUME WorkflowInv, NEW p \in Callers, NEW place \in Places, Goto(p, place), SameWorkflow,
         UNCHANGED born, hub' \subseteq Objects,
         JobInv(p)', uid # 0 /\ ~mixed /\ job[p].met = uid => OwnInv(p)'
  PROVE  WorkflowInv'
<1> DEFINE j == [job[p] EXCEPT !.at = place]
<1>1. job[p] \in Jobs
  BY DEF WorkflowInv, TypeOK
<1>2. j \in Jobs /\ j.met = job[p].met
  BY <1>1 DEF Jobs
<1>3. job' = [job EXCEPT ![p] = j]
  BY DEF Goto
<1> QED
  BY <1>2, <1>3, QuietStep DEF SameWorkflow

\* A step of a command at a place: what it carries is unchanged but the place.
LEMMA Moved ==
  ASSUME WorkflowInv, NEW p \in Callers, NEW place \in Places, Goto(p, place)
  PROVE  /\ job[p] \in Jobs /\ job'[p].at = place /\ job'[p].met = job[p].met
         /\ job'[p].target = job[p].target /\ job'[p].state = job[p].state
BY DEF WorkflowInv, TypeOK, Goto, Jobs

\* Start's steps.
LEMMA StartStep ==
  ASSUME WorkflowInv, NEW p \in Callers, StartSteps(p)
  PROVE  WorkflowInv'
<1> USE PhaseNumbers
<1>1. hub \subseteq Objects
  BY DEF WorkflowInv, TypeOK
<1>2. CASE Start(p)
  <2>1. Goto(p, "create") /\ SameWorkflow /\ SameCluster /\ "create" \in Places
    BY <1>2 DEF Start, Places
  <2>2. JobInv(p)' /\ OwnInv(p)'
    BY <2>1, Moved DEF JobInv, OwnInv, SameWorkflow, WorkflowInv
  <2> QED
    BY <1>1, <2>1, <2>2, MoveStep DEF SameCluster
<1>3. CASE createState(p)
  BY <1>3, CreateStep
<1>4. CASE Audit(p)
  <2>1. Goto(p, "saveaudit") /\ SameWorkflow /\ SameCluster /\ "saveaudit" \in Places /\ job[p].at = "audit"
    BY <1>4 DEF Audit, At, Places
  <2>2. JobInv(p)'
    BY <2>1, Moved DEF JobInv, SameWorkflow, WorkflowInv
  <2>3. uid # 0 /\ ~mixed /\ job[p].met = uid => OwnInv(p)'
    BY <2>1, Moved DEF OwnInv, SameWorkflow, WorkflowInv
  <2> QED
    BY <1>1, <2>1, <2>2, <2>3, MoveStep DEF SameCluster
<1>5. CASE SaveAudit(p)
  BY <1>5, UpdateStep DEF SaveAudit, At
<1> QED
  BY <1>2, <1>3, <1>4, <1>5 DEF StartSteps

\* An Advance begins with the phase it reads, and is within one phase of it.
LEMMA AdvanceBegins ==
  ASSUME WorkflowInv, NEW p \in Callers, Advance(p)
  PROVE  WorkflowInv'
<1> USE PhaseNumbers
<1> DEFINE target == nextPhase(cm.phase)
           j      == [at |-> Work(target), met |-> uid, target |-> target, state |-> Created]
<1>1. /\ uid # 0 /\ target # cm.phase /\ target \notin {5, 6}
      /\ job' = [job EXCEPT ![p] = j] /\ SameWorkflow /\ SameCluster
  BY DEF Advance, Refused
<1>2. cm \in States /\ cm.phase \in 1 .. 7 /\ uid \in 0 .. MaxMade /\ made \in Nat /\ uid <= made
  BY DecommissionAssumption DEF WorkflowInv, TypeOK, States
<1>3. target = cm.phase + 1 /\ target \in {2, 3, 4, 7}
  BY <1>1, <1>2 DEF nextPhase
<1>4. /\ target = 2 => Work(target) = "reread"
      /\ target = 3 => Work(target) = "notify"
      /\ target = 4 => Work(target) = "backup"
      /\ target = 7 => Work(target) = "works"
  BY DEF Work
<1>5. j \in Jobs
  BY <1>2, <1>3, <1>4, StartStates DEF Jobs, Places
<1>6. job'[p] = j
  BY <1>1 DEF WorkflowInv, TypeOK
<1>7. target = 7 => born = Deleted
  BY <1>2, <1>3 DEF WorkflowInv
<1> HIDE DEF target
<1>8. JobInv(p)'
  <2>1. /\ job'[p].at = Work(target) /\ job'[p].met = uid /\ job'[p].target = target
    BY <1>6
  <2>2. made' = made /\ born' = born
    BY <1>1 DEF SameWorkflow, SameCluster
  <2> QED
    BY <1>2, <1>3, <1>4, <1>7, <2>1, <2>2 DEF JobInv
<1>9. ASSUME ~mixed PROVE OwnInv(p)'
  <2>1. (cm.notified => cm.phase >= 2) /\ (cm.backup => cm.phase >= 3) /\ cm' = cm
    BY <1>1, <1>9 DEF WorkflowInv, OwnedInv, SameWorkflow
  <2>2. job'[p].at = Work(target) /\ job'[p].target = target
    BY <1>6
  <2>3. job'[p].at = "reread" => job'[p].target = 2
    BY <1>3, <1>4, <2>2
  <2> QED
    BY <1>2, <1>3, <1>4, <2>1, <2>2, <2>3 DEF OwnInv, Passed
<1>10. hub' \subseteq Objects
  BY <1>1 DEF WorkflowInv, TypeOK, SameCluster
<1> HIDE DEF j
<1> QED
  BY <1>1, <1>5, <1>8, <1>9, <1>10, QuietStep DEF SameWorkflow, SameCluster

\* Notify and Backup let a command pass that has the evidence for its target.
LEMMA EvidenceStep ==
  ASSUME WorkflowInv, NEW p \in Callers, Notify(p) \/ Backup(p)
  PROVE  WorkflowInv'
<1> USE PhaseNumbers
<1>1. /\ Goto(p, "reread") /\ SameWorkflow /\ SameCluster /\ "reread" \in Places
      /\ \/ job[p].at = "notify" /\ cm.notified
         \/ job[p].at = "backup" /\ cm.backup
  BY DEF Notify, Backup, At, Places
<1>2. JobInv(p) /\ hub \subseteq Objects /\ cm \in States /\ cm.phase \in 1 .. 7
  BY DEF WorkflowInv, TypeOK, States
<1>3. JobInv(p)'
  BY <1>1, <1>2, Moved DEF JobInv, SameWorkflow
<1>4. ASSUME uid # 0, ~mixed, job[p].met = uid PROVE OwnInv(p)'
  <2>1. OwnInv(p)
    BY <1>4 DEF WorkflowInv
  <2>2. cm' = cm /\ Passed(job[p].target)'
    BY <1>1, <1>2, Moved DEF Passed, JobInv, SameWorkflow
  <2> QED
    BY <1>1, <2>1, <2>2, Moved DEF OwnInv, SameWorkflow
<1> QED
  BY <1>1, <1>2, <1>3, <1>4, MoveStep DEF SameCluster

\* Appending the target to a history that tells of a phase no more than one
\* behind leaves it telling of the target.
LEMMA AppendTells ==
  ASSUME NEW s \in States, Tells(s), NEW t \in Phases, t - s.phase \in {0, 1},
         NEW u, u = Entered(s, t, t)
  PROVE  Tells(u)
<1>1. s.history \in Seq(Phases) /\ u.history = Append(s.history, t) /\ u.phase = t
  BY DEF States, Entered
<1>2. /\ Len(u.history) = Len(s.history) + 1 /\ u.history[Len(u.history)] = t
      /\ \A k \in 1 .. Len(s.history) : u.history[k] = s.history[k]
      /\ Len(s.history) \in Nat \ {0}
  BY <1>1 DEF Tells
<1>3. ASSUME NEW k \in 2 .. Len(u.history) PROVE u.history[k] - u.history[k - 1] \in {0, 1}
  <2>1. CASE k = Len(u.history)
    BY <1>2, <2>1 DEF Tells
  <2>2. CASE k # Len(u.history)
    <3>1. k \in 2 .. Len(s.history) /\ k - 1 \in 1 .. Len(s.history) /\ k \in 1 .. Len(s.history)
      BY <1>2, <2>2
    <3> QED
      BY <1>2, <3>1 DEF Tells
  <2> QED
    BY <2>1, <2>2
<1>4. u.history # <<>> /\ u.history[1] = Imported
  <2>1. 1 \in 1 .. Len(s.history) /\ Len(u.history) # 0
    BY <1>2
  <2>2. u.history[1] = s.history[1] /\ s.history[1] = Imported
    BY <1>2, <2>1 DEF Tells
  <2>3. Len(<<>>) = 0
    OBVIOUS
  <2> QED
    BY <2>1, <2>2, <2>3
<1>5. u.history[Len(u.history)] = u.phase
  BY <1>1, <1>2
<1> QED
  BY <1>3, <1>4, <1>5 DEF Tells

\* The state a command will save is one phase on from the workflow at most.
LEMMA RereadStep ==
  ASSUME WorkflowInv, NEW p \in Callers, Reread(p)
  PROVE  WorkflowInv'
<1> USE PhaseNumbers
<1> DEFINE t == job[p].target
           s == Entered(cm, t, t)
           j == [at |-> "save", met |-> job[p].met, target |-> t, state |-> s]
<1>1. /\ job[p].at = "reread" /\ uid # 0 /\ SameWorkflow /\ SameCluster
      /\ job' = [job EXCEPT ![p] = j]
  BY DEF Reread, At, ToSave
<1>2. job[p] \in Jobs /\ cm \in States /\ JobInv(p) /\ hub \subseteq Objects
  BY DEF WorkflowInv, TypeOK
<1>3. t \in 2 .. 4 /\ cm.phase \in 1 .. 7
  BY <1>1, <1>2 DEF JobInv, States
<1>4. /\ s \in States /\ s.phase = t /\ s.notified = cm.notified /\ s.backup = cm.backup
  <2>1. cm.history \in Seq(1 .. 7) /\ Append(cm.history, t) \in Seq(1 .. 7)
    BY <1>2, <1>3 DEF States
  <2> QED
    BY <1>2, <1>3, <2>1 DEF States, Entered
<1> HIDE DEF s
<1>6. j \in Jobs
  BY <1>2, <1>3, <1>4 DEF Jobs, Places
<1>7. job'[p] = j
  BY <1>1 DEF WorkflowInv, TypeOK
<1>8. JobInv(p)'
  BY <1>1, <1>2, <1>3, <1>4, <1>7 DEF JobInv, SameWorkflow, SameCluster
<1>9. ASSUME uid # 0, ~mixed, job[p].met = uid PROVE OwnInv(p)'
  <2>1. OwnInv(p) /\ Tells(cm) /\ cm' = cm
    BY <1>1, <1>9 DEF WorkflowInv, OwnedInv, SameWorkflow
  <2>2. cm.phase \in {t - 1, t}
    BY <1>1, <2>1 DEF OwnInv
  <2>3. Tells(s)
    <3>1. t - cm.phase \in {0, 1} /\ t \in Phases
      BY <1>3, <2>2
    <3>2. s = Entered(cm, t, t)
      BY DEF s
    <3> HIDE DEF t
    <3> QED
      BY <1>2, <2>1, <3>1, <3>2, AppendTells
  <2>4. /\ job'[p].at = "save" /\ job'[p].target = t /\ job'[p].state = s
    BY <1>7
  <2> QED
    BY <1>1, <1>4, <2>1, <2>2, <2>3, <2>4 DEF OwnInv, Passed
<1> HIDE DEF j
<1> QED
  BY <1>1, <1>2, <1>6, <1>8, <1>9, QuietStep DEF SameWorkflow, SameCluster, j

\* Cleanup only ever runs for a workflow that was left deleted.
LEMMA CleanupStep ==
  ASSUME WorkflowInv, NEW p \in Callers, Cleanup(p)
  PROVE  WorkflowInv' /\ born = Deleted
<1>1. JobInv(p) /\ hub \subseteq Objects
  BY DEF WorkflowInv, TypeOK
<1>2. CASE DeleteWorks(p) \/ DeleteManaged(p)
  <2>1. PICK place \in {"managed", "namespace"} :
          /\ Goto(p, place) /\ SameWorkflow /\ UNCHANGED born /\ hub' \subseteq hub
          /\ job[p].at \in {"works", "managed"}
    BY <1>2 DEF DeleteWorks, DeleteManaged, At
  <2>2. place \in Places
    BY DEF Places
  <2>3. born = Deleted
    BY <1>1, <2>1 DEF JobInv
  <2>4. JobInv(p)' /\ OwnInv(p)'
    BY <1>1, <2>1, <2>2, <2>3, Moved DEF JobInv, OwnInv, SameWorkflow
  <2> QED
    BY <1>1, <2>1, <2>2, <2>3, <2>4, MoveStep
<1>3. CASE DeleteNamespace(p)
  <2>1. /\ job[p].at = "namespace" /\ hub' \subseteq hub /\ uid' = 0 /\ cm' = Created /\ mixed' = FALSE
        /\ UNCHANGED <<made, born>> /\ job' = [job EXCEPT ![p] = Idle]
    BY <1>3 DEF DeleteNamespace, At, Leave
  <2> QED
    BY <1>1, <2>1, GoneStep DEF JobInv
<1> QED
  BY <1>2, <1>3 DEF Cleanup

\* A failed call forgets what the command carried.
LEMMA FailStep ==
  ASSUME WorkflowInv, NEW p \in Callers, Fail(p)
  PROVE  WorkflowInv'
<1>1. job' = [job EXCEPT ![p] = Idle] /\ SameWorkflow /\ SameCluster
  BY DEF Fail, Leave
<1>2. job'[p] = Idle /\ hub \subseteq Objects /\ made \in Nat
  BY <1>1, DecommissionAssumption DEF WorkflowInv, TypeOK
<1>3. JobInv(p)' /\ OwnInv(p)'
  BY <1>1, <1>2, StartStates DEF JobInv, OwnInv, SameWorkflow
<1> QED
  BY <1>1, <1>2, <1>3, StartStates, QuietStep DEF SameWorkflow, SameCluster

\* Every step of the workflow's commands keeps the invariant.
LEMMA NextInv == WorkflowInv /\ [Next]_vars => WorkflowInv'
<1> SUFFICES ASSUME WorkflowInv, [Next]_vars PROVE WorkflowInv'
  OBVIOUS
<1>1. CASE Cancel
  <2>1. hub' \subseteq Objects
    BY <1>1 DEF Cancel, SameCluster, WorkflowInv, TypeOK
  <2> QED
    BY <1>1, <2>1, GoneStep DEF Cancel, SameCluster
<1>2. ASSUME NEW p \in Callers, StartSteps(p) PROVE WorkflowInv'
  BY <1>2, StartStep
<1>3. ASSUME NEW p \in Callers, AdvanceSteps(p) PROVE WorkflowInv'
  <2>1. CASE Save(p)
    BY <2>1, UpdateStep DEF Save, At
  <2> QED
    BY <1>3, <2>1, AdvanceBegins, EvidenceStep, RereadStep DEF AdvanceSteps
<1>4. ASSUME NEW p \in Callers, Cleanup(p) PROVE WorkflowInv'
  BY <1>4, CleanupStep
<1>5. ASSUME NEW p \in Callers, Fail(p) PROVE WorkflowInv'
  BY <1>5, FailStep
<1>6. CASE UNCHANGED vars
  BY <1>6 DEF vars, WorkflowInv, TypeOK, OwnedInv, EvidenceForPhase, From, OwnInv, JobInv, Tells, Passed
<1> QED
  BY <1>1, <1>2, <1>3, <1>4, <1>5, <1>6 DEF Next

\* The invariant of the workflow, types and all, whatever the commands do.
THEOREM WorkflowInvariant == Spec => []WorkflowInv
<1> QED
  BY InitInv, NextInv, PTL DEF Spec

\* The ConfigMap and every command stay within their types.
THEOREM DecommissionTypeCorrect == Spec => []TypeOK
<1>1. WorkflowInv => TypeOK
  BY DEF WorkflowInv
<1> QED
  BY <1>1, WorkflowInvariant, PTL

\* A workflow written to by its own commands only has not been taken past Notify or
\* Backup without their record, whatever evidence it was inherited with, or without.
THEOREM PhaseIsBacked == Spec => []EvidenceForPhase
<1>1. WorkflowInv => EvidenceForPhase
  BY DEF WorkflowInv, OwnedInv, EvidenceForPhase
<1> QED
  BY <1>1, WorkflowInvariant, PTL

\* The history of such a workflow tells of the phase it is in.
THEOREM HistoryIsTold == Spec => []HistoryTells
<1>1. WorkflowInv => HistoryTells
  BY DEF WorkflowInv, OwnedInv, HistoryTells
<1> QED
  BY <1>1, WorkflowInvariant, PTL

\* Nothing is deleted unless a previous version left the workflow deleted: the
\* refusals of Drain and validateSafeguards cannot be raced past.
THEOREM SafeguardsHold == Spec => KeptUnlessDeleted
<1>1. ASSUME WorkflowInv, [Next]_vars PROVE [hub' # hub => born = Deleted]_vars
  <2>1. CASE \E p \in Callers : Cleanup(p)
    BY <1>1, <2>1, CleanupStep
  <2>2. CASE Cancel \/ \E p \in Callers : StartSteps(p) \/ AdvanceSteps(p) \/ Fail(p)
    <3>1. hub' = hub
      BY <2>2 DEF Cancel, StartSteps, AdvanceSteps, Fail, Start, createState, Audit, SaveAudit,
                  Advance, Notify, Backup, Reread, Save, setState, SameCluster
    <3> QED
      BY <3>1
  <2>3. CASE UNCHANGED vars
    BY <2>3 DEF vars
  <2> QED
    BY <1>1, <2>1, <2>2, <2>3 DEF Next
<1> QED
  BY <1>1, WorkflowInvariant, PTL DEF Spec, KeptUnlessDeleted

\* A workflow never goes back a phase: of the commands that race for it, none
\* saves a target that the others have left behind.
THEOREM PhaseNeverBack == Spec => PhaseForward
<1>1. ASSUME WorkflowInv, [Next]_vars
      PROVE  [uid # 0 /\ uid' = uid /\ ~mixed' => cm'.phase >= cm.phase]_vars
  <2> SUFFICES ASSUME uid # 0, uid' = uid, ~mixed' PROVE cm'.phase >= cm.phase
    OBVIOUS
  <2>1. cm.phase \in 1 .. 7
    BY <1>1, PhaseNumbers DEF WorkflowInv, TypeOK, States
  <2>2. CASE \E p \in Callers : Save(p) \/ SaveAudit(p)
    <3>1. cm'.phase \in {cm.phase, cm.phase + 1}
      BY <1>1, <2>2, OwnWrite DEF Save, SaveAudit, At
    <3> QED
      BY <2>1, <3>1
  <2>3. CASE cm' = cm
    BY <2>1, <2>3
  <2>4. ~ Cancel /\ \A p \in Callers : ~ createState(p) /\ ~ DeleteNamespace(p)
    BY DEF Cancel, createState, DeleteNamespace
  <2>5. \/ \E p \in Callers : Save(p) \/ SaveAudit(p)
        \/ cm' = cm
    BY <1>1, <2>4 DEF Next, vars, StartSteps, AdvanceSteps, Cleanup, Fail, Start, Audit, Advance, Notify,
       Backup, Reread, DeleteWorks, DeleteManaged, SameWorkflow
  <2> QED
    BY <2>2, <2>3, <2>5
<1> QED
  BY <1>1, WorkflowInvariant, PTL DEF Spec, PhaseForward
=============================================================================
