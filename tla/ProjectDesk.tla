------------------------------- MODULE ProjectDesk -------------------------------
(***************************************************************************)
(* Projects, members, bindings and solution approvals: the operations      *)
(* register, admit, bind, the intake of a requirement, approve and retry   *)
(* of KernelBridge.process over ProjectRegistry, BindingTable and             *)
(* SolutionApproval, each with its JSON side file, and what a restarted    *)
(* runtime and a stage worker make of those files.                         *)
(*                                                                         *)
(* PRD and architecture are one step with a gate here, the lease is the    *)
(* worker that runs, and which failures may be retried is left open        *)
(* (StageFlow and StageLease have all that in full).                       *)
(***************************************************************************)
EXTENDS Integers, FiniteSets

CONSTANTS DeskProjects,    \* project ids; "" is one the shim can send
          DeskPeople,      \* principal ids
          DeskPipelines,
          DeskEdits        \* bound on the administrative operations

VARIABLES deskReg,         \* ProjectRegistry of the runtime
          deskRegFile,     \* projects.json
          deskBound,       \* the planner role is bound, in memory
          deskBoundFile,   \* and in bindings.json
          deskGate,        \* the planning gate of each pipeline, as saved
          deskPlanned,     \* the pipeline, and its project, whose intake goes on
          deskRows,        \* KernelBridge._approvals
          deskRowsFile,    \* approvals.json
          deskApproved,    \* SolutionApproval._approved: who approved
          deskWorker,      \* the stage worker of each pipeline: its argv
          deskDev,         \* the candidate gate; "DENIED" when the principal was
          deskUp,          \* "up", "down", or "broken": the constructor raises
          deskCount,       \* administrative operations so far
          deskUnsaved,     \* history: a write of a side file failed since the start
          deskCommitted,   \* history: pipelines with a committed approval
          deskUnfit,       \* history: those with a worker for a principal who had
                           \* no right by the file, or lost it since
          deskCut          \* history: those whose intake a stop cut short

deskVars == <<deskReg, deskRegFile, deskBound, deskBoundFile, deskGate, deskRows,
              deskRowsFile, deskApproved, deskWorker, deskDev, deskUp, deskCount,
              deskUnsaved, deskCommitted, deskUnfit, deskPlanned, deskCut>>

NoOne == "no one"
NoRole == "none"
MemberRoles == {"CONTRIBUTOR", "VIEWER"}    \* ADMIN has the rights of CONTRIBUTOR
EmptyRegistry == [projects |-> {},
                  members |-> [k \in DeskProjects \X DeskPeople |-> NoRole]]
NoDecision == [status |-> "none", by |-> NoOne, project |-> "?"]
NoIntake == [pipeline |-> NoOne, project |-> "?"]
NoWorker == [on |-> FALSE, project |-> "?", by |-> NoOne]

DeskInit ==
    /\ deskReg = EmptyRegistry /\ deskRegFile = EmptyRegistry
    /\ deskBound = FALSE /\ deskBoundFile = FALSE
    /\ deskGate = [x \in DeskPipelines |-> "none"]
    /\ deskRows = [x \in DeskPipelines |-> NoDecision]
    /\ deskRowsFile = [x \in DeskPipelines |-> NoDecision]
    /\ deskApproved = [x \in DeskPipelines |-> NoOne]
    /\ deskWorker = [x \in DeskPipelines |-> NoWorker]
    /\ deskDev = [x \in DeskPipelines |-> "none"]
    /\ deskUp = "up"
    /\ deskCount = 0
    /\ deskUnsaved = FALSE
    /\ deskCommitted = {}
    /\ deskUnfit = {}
    /\ deskPlanned = NoIntake
    /\ deskCut = {}

-----------------------------------------------------------------------------
(* ProjectRegistry *)

RoleOf(reg, p, u) == IF p \in reg.projects THEN reg.members[<<p, u>>] ELSE NoRole
MayIntake(reg, p, u) == RoleOf(reg, p, u) \notin {NoRole, "VIEWER"}

\* load: a project without an id is skipped, and admit raises KeyError for a
\* member of a project that was not loaded.
LoadedProjects(file) == file.projects \ {""}
Loadable(file) ==
    \A k \in DOMAIN file.members : file.members[k] # NoRole => k[1] \in LoadedProjects(file)
LoadRegistry(file) == [file EXCEPT !.projects = LoadedProjects(file)]

\* _write_json: the file is replaced whole, or the write raises and the memory
\* of the runtime stays ahead of it.
SaveRegistry(saved) ==
    /\ deskRegFile' = IF saved THEN deskReg' ELSE deskRegFile
    /\ deskUnsaved' = (~saved \/ (deskUnsaved /\ deskRegFile' # deskReg'))

\* The runtime serves one request after the other.
Serves == deskUp = "up" /\ deskPlanned = NoIntake /\ UNCHANGED <<deskUp, deskCut>>

Administers ==
    /\ Serves /\ UNCHANGED deskPlanned
    /\ deskCount < DeskEdits /\ deskCount' = deskCount + 1

Register(p, saved) ==
    /\ Administers
    /\ deskReg' = [deskReg EXCEPT !.projects = @ \cup {p}]
    /\ SaveRegistry(saved)
    /\ UNCHANGED <<deskBound, deskBoundFile, deskGate, deskRows, deskRowsFile,
                   deskApproved, deskWorker, deskDev, deskCommitted, deskUnfit>>

Admit(p, u, role, saved) ==
    /\ Administers
    /\ p \in deskReg.projects
    /\ deskReg' = [deskReg EXCEPT !.members[<<p, u>>] = role]
    /\ SaveRegistry(saved)
    /\ deskUnfit' = deskUnfit \cup
          {x \in deskCommitted : role = "VIEWER" /\ deskWorker[x].project = p
                                                 /\ deskWorker[x].by = u}
    /\ UNCHANGED <<deskBound, deskBoundFile, deskGate, deskRows, deskRowsFile,
                   deskApproved, deskWorker, deskDev, deskCommitted>>

Bind ==
    /\ Administers
    /\ deskBound' = TRUE
    /\ deskBoundFile' = TRUE
    /\ UNCHANGED <<deskReg, deskRegFile, deskGate, deskRows, deskRowsFile, deskApproved,
                   deskWorker, deskDev, deskUnsaved, deskCommitted, deskUnfit>>

-----------------------------------------------------------------------------
(* Intake and approval *)

\* RequirementIntake.confirm, then _advance_prd and _advance_architecture up to
\* the save of the architecture: an unbound planner is DENIED, for good.
Intake(x, p, u, gate) ==
    /\ Serves
    /\ deskGate[x] = "none"
    /\ MayIntake(deskReg, p, u)
    /\ gate = "PASS" => deskBound
    /\ deskGate' = [deskGate EXCEPT ![x] = gate]
    /\ deskPlanned' = IF gate = "PASS" /\ deskRows[x] = NoDecision
                      THEN [pipeline |-> x, project |-> p] ELSE NoIntake
    /\ UNCHANGED <<deskReg, deskRegFile, deskBound, deskBoundFile, deskRows, deskRowsFile,
                   deskApproved, deskWorker, deskDev, deskCount, deskUnsaved,
                   deskCommitted, deskUnfit>>

\* Once the station is recorded, a row for the decision is saved.
AwaitDecision ==
    /\ deskUp = "up" /\ deskPlanned # NoIntake
    /\ deskRows' = [deskRows EXCEPT ![deskPlanned.pipeline] =
                        [status |-> "PENDING", by |-> NoOne, project |-> deskPlanned.project]]
    /\ deskRowsFile' = deskRows'
    /\ deskPlanned' = NoIntake
    /\ UNCHANGED <<deskReg, deskRegFile, deskBound, deskBoundFile, deskGate, deskApproved,
                   deskWorker, deskDev, deskUp, deskCount, deskUnsaved, deskCommitted,
                   deskUnfit, deskCut>>

\* SolutionApproval.dump: the approved pipelines, without their project.
Dump(approved) ==
    [x \in DeskPipelines |->
        IF approved[x] = NoOne THEN NoDecision
        ELSE [status |-> "APPROVED", by |-> approved[x], project |-> "?"]]

\* A worker is started; its command line names the project and the principal.
StartWorker(x, p, u) ==
    /\ ~deskWorker[x].on
    /\ deskWorker' = [deskWorker EXCEPT ![x] = [on |-> TRUE, project |-> p, by |-> u]]
    /\ deskUnfit' = IF MayIntake(LoadRegistry(deskRegFile), p, u)
                    THEN deskUnfit ELSE deskUnfit \cup {x}

\* _approve_baseline and _commit_approval: all rows are replaced by the dump.
ApproveBaseline(x, p, u) ==
    LET approved == [deskApproved EXCEPT ![x] = u] IN
    /\ Serves
    /\ deskGate[x] = "PASS"
    /\ MayIntake(deskReg, p, u)
    /\ deskApproved' = approved
    /\ deskRows' = [Dump(approved) EXCEPT ![x].project = p]
    /\ deskRowsFile' = deskRows'
    /\ StartWorker(x, p, u)
    /\ deskCommitted' = deskCommitted \cup {x}
    /\ UNCHANGED <<deskReg, deskRegFile, deskBound, deskBoundFile, deskGate, deskDev,
                   deskCount, deskUnsaved, deskPlanned>>

\* _retry_verify of a failed development: every member may ask, a VIEWER too.
RetryVerify(x, p, u) ==
    /\ Serves
    /\ deskDev[x] \in {"FAIL", "DENIED"}
    /\ RoleOf(deskReg, p, u) # NoRole
    /\ deskDev' = [deskDev EXCEPT ![x] = "none"]
    /\ StartWorker(x, p, u)
    /\ UNCHANGED <<deskReg, deskRegFile, deskBound, deskBoundFile, deskGate, deskRows,
                   deskRowsFile, deskApproved, deskCount, deskUnsaved, deskCommitted,
                   deskPlanned>>

\* The worker builds its own bridge from the files; it then designates and
\* approves once more for the principal of its command line.
WorkerRuns(x, gate) ==
    LET argv == deskWorker[x]
        may == MayIntake(LoadRegistry(deskRegFile), argv.project, argv.by)
    IN
    /\ argv.on
    /\ deskWorker' = [deskWorker EXCEPT ![x].on = FALSE]
    /\ deskDev' = IF ~Loadable(deskRegFile) \/ deskDev[x] # "none" THEN deskDev
                  ELSE [deskDev EXCEPT ![x] = IF may THEN gate ELSE "DENIED"]
    /\ UNCHANGED <<deskReg, deskRegFile, deskBound, deskBoundFile, deskGate, deskRows,
                   deskRowsFile, deskApproved, deskUp, deskCount, deskUnsaved,
                   deskCommitted, deskUnfit, deskPlanned, deskCut>>

-----------------------------------------------------------------------------
(* The runtime stops; KernelBridge.__init__ reads the side files again *)

\* Stopped or killed, in the middle of an intake as well.
DeskStops ==
    /\ deskUp = "up"
    /\ deskUp' = "down"
    /\ deskCut' = deskCut \cup ({deskPlanned.pipeline} \ {NoOne})
    /\ deskPlanned' = NoIntake
    /\ UNCHANGED <<deskReg, deskRegFile, deskBound, deskBoundFile, deskGate, deskRows,
                   deskRowsFile, deskApproved, deskWorker, deskDev, deskCount,
                   deskUnsaved, deskCommitted, deskUnfit>>

\* Mutant of Restored: a row without its project is passed over.
NeedsProject(rows) ==
    [x \in DeskPipelines |->
        IF rows[x].status = "APPROVED" /\ rows[x].project # "?" THEN rows[x].by ELSE NoOne]

\* restore: only a row APPROVED by someone.
Restored(rows) ==
    [x \in DeskPipelines |-> IF rows[x].status = "APPROVED" THEN rows[x].by ELSE NoOne]

DeskStarts ==
    /\ deskUp = "down"
    /\ deskCount < DeskEdits
    /\ deskCount' = deskCount + 1
    /\ deskUp' = IF Loadable(deskRegFile) THEN "up" ELSE "broken"
    /\ deskReg' = LoadRegistry(deskRegFile)
    /\ deskBound' = deskBoundFile
    /\ deskRows' = deskRowsFile
    /\ deskApproved' = Restored(deskRowsFile)
    /\ deskUnsaved' = FALSE
    /\ UNCHANGED <<deskRegFile, deskBoundFile, deskGate, deskRowsFile, deskWorker, deskDev,
                   deskCommitted, deskUnfit, deskPlanned, deskCut>>

DeskNext ==
    \/ \E p \in DeskProjects, saved \in BOOLEAN :
          \/ Register(p, saved)
          \/ \E u \in DeskPeople, role \in MemberRoles : Admit(p, u, role, saved)
    \/ Bind
    \/ \E x \in DeskPipelines, p \in DeskProjects, u \in DeskPeople :
          \/ \E gate \in {"PASS", "FAIL"} : Intake(x, p, u, gate)
          \/ ApproveBaseline(x, p, u)
          \/ RetryVerify(x, p, u)
    \/ AwaitDecision
    \/ \E x \in DeskPipelines, gate \in {"PASS", "FAIL"} : WorkerRuns(x, gate)
    \/ DeskStops
    \/ DeskStarts

DeskSpec == DeskInit /\ [][DeskNext]_deskVars

-----------------------------------------------------------------------------
(* Properties *)

DeskTypeOK ==
    /\ deskReg.projects \cup deskRegFile.projects \subseteq DeskProjects
    /\ deskGate \in [DeskPipelines -> {"none", "PASS", "FAIL"}]
    /\ \A x \in DeskPipelines : deskRows[x].status \in {"none", "PENDING", "APPROVED"}
    /\ deskDev \in [DeskPipelines -> {"none", "PASS", "FAIL", "DENIED"}]
    /\ deskPlanned.pipeline \in DeskPipelines \cup {NoOne} /\ deskCut \subseteq DeskPipelines
    /\ deskUp \in {"up", "down", "broken"}
    /\ deskCount \in 0 .. DeskEdits

\* A restart loses no project and no member: what projects.json would load is
\* what the runtime holds, unless a write failed or a project has an empty id.
RegistrySurvives ==
    (deskUp = "up" /\ ~deskUnsaved /\ "" \notin deskReg.projects) =>
        LoadRegistry(deskRegFile) = deskReg

\* The runtime can be started again: its constructor only raises on a registry
\* in which someone was admitted to the project with the empty id.
StartsAgain ==
    deskUp = "broken" =>
        \E u \in DeskPeople : deskRegFile.members[<<"", u>>] # NoRole

\* A committed approval is not lost, whatever other pipelines are approved and
\* however often the runtime restarts: approvals.json and SolutionApproval
\* agree on who approved.
ApprovalSurvives ==
    \A x \in deskCommitted :
        /\ deskRowsFile[x].status = "APPROVED"
        /\ deskUp = "up" => deskApproved[x] = deskRowsFile[x].by

\* A pipeline whose planning gate passed waits for a decision a reader can see,
\* until some approval is committed: that one replaces the rows of all others.
\* Only a runtime that stops between the two saves of an intake leaves none.
PendingUntilAnApproval ==
    \A x \in DeskPipelines :
        (deskGate[x] = "PASS" /\ deskCommitted = {} /\ x \notin deskCut \cup {deskPlanned.pipeline})
            => deskRowsFile[x].status = "PENDING"

\* The worker denies a development only to a principal without the right to
\* approve: a VIEWER who asked for the retry, one who was made a VIEWER since
\* the worker was started, or one whose admission never reached projects.json.
DeniedOnlyWithoutRight ==
    \A x \in DeskPipelines : deskDev[x] = "DENIED" => x \in deskUnfit

\* What a restart and a worker may rely on: registry and approvals are in the
\* files, the runtime can start from them, and they say the same.
DeskContract ==
    /\ RegistrySurvives /\ StartsAgain
    /\ ApprovalSurvives /\ PendingUntilAnApproval /\ DeniedOnlyWithoutRight
=============================================================================
