------------------------------ MODULE StageExecutors ------------------------------
(***************************************************************************)
(* PrdStage, ArchitectureStage and DevelopmentStage with their gates, as   *)
(* _advance_prd, _advance_architecture and _advance_development run them   *)
(* for one pipeline: an agent is launched in a folder, what it left there  *)
(* is harvested, stored in the CAS and judged, and the station's row is    *)
(* saved.  The folders outlive the worker.                                 *)
(*                                                                         *)
(* A launch is believed by the files it leaves; its status is not looked   *)
(* at.  A document is its kind of content; the worktree is a version and   *)
(* what matters of it; the self-test runs inside it and may change it.     *)
(***************************************************************************)
EXTENDS Integers, FiniteSets

CONSTANTS ExLaunches        \* bound on the launches and changes of the worktree

VARIABLES exFolder,         \* the documents in plans/<pipeline>
          exTree,           \* the worktree
          exDamaged,        \* the stored PRD does not verify any more
          exOpen,           \* the controller shows the pipeline OPEN
          exRow,            \* prd.json, architecture.json, development.json
          exStep,           \* the station at work and where in it
          exHeld,           \* what run() holds in its local variables
          exNote,           \* feedback.json
          exLaunched,       \* launches, and other changes of the worktree, so far
          exLoose           \* history: a process of the executor wrote after its run

exVars == <<exFolder, exTree, exDamaged, exOpen, exRow, exStep, exHeld, exNote,
            exLaunched, exLoose>>

Documents == {"prd", "design", "testplan"}
Contents == {"good", "shapeless", "secret"}
Absent == "absent"
NoTree == [version |-> 0, source |-> FALSE, secret |-> FALSE, passes |-> FALSE]
Trees(n) == [version : {n}, source : BOOLEAN, secret : BOOLEAN, passes : BOOLEAN]
NoExRow == [status |-> "none", gate |-> "none", ids |-> <<>>, impl |-> 0, sha |-> 0,
            tested |-> 0, grew |-> FALSE]
NothingHeld == [body |-> 0, tested |-> 0, grew |-> FALSE, again |-> FALSE, note |-> FALSE]

ExInit ==
    /\ exFolder = [d \in Documents |-> Absent]
    /\ exTree = NoTree
    /\ exDamaged = FALSE
    /\ exOpen = TRUE
    /\ exRow = [s \in {"prd", "architecture", "development"} |-> NoExRow]
    /\ exStep = "idle"
    /\ exHeld = NothingHeld
    /\ exNote = FALSE
    /\ exLaunched = 0
    /\ exLoose = FALSE

-----------------------------------------------------------------------------
(* Harvest and gates *)

\* named_file_bytes: a file that is missing or holds a secret is no harvest.
Harvested(d) == exFolder[d] \in {"good", "shapeless"}

\* PrdGate.evaluate and ArchitectureGate.evaluate.  What the station has just put
\* verifies (ArtifactStore); a design has no shape to meet.
PrdGateStatus == IF exOpen /\ exFolder["prd"] = "good" THEN "PASS" ELSE "FAIL"
ArchitectureGateStatus ==
    IF exOpen /\ ~exDamaged /\ exFolder["testplan"] = "good" THEN "PASS" ELSE "FAIL"

\* pick_implementation and leaked_secret over the worktree.
Picked == exTree.source /\ ~exTree.secret

Saves(station, row) ==
    /\ exRow' = [exRow EXCEPT ![station] = row]
    /\ exStep' = "idle"
    /\ exHeld' = NothingHeld

-----------------------------------------------------------------------------
(* Planning *)

StationBegins(station) ==
    /\ exStep = "idle"
    /\ exRow[station] = NoExRow
    /\ station = "architecture" => exRow["prd"].gate = "PASS"
    /\ station = "development" => exRow["architecture"].gate = "PASS"
    /\ exStep' = station
    /\ UNCHANGED <<exFolder, exTree, exDamaged, exOpen, exRow, exHeld, exNote,
                   exLaunched, exLoose>>

Launching == exLaunched < ExLaunches /\ exLaunched' = exLaunched + 1

\* The role is unbound; the PRD the architecture would work from does not verify;
\* the principal of the worker may not approve the baseline.
StationDenied(station) ==
    /\ exStep = station
    /\ Saves(station, [NoExRow EXCEPT !.status = "DENIED", !.gate = "FAIL"])
    /\ UNCHANGED <<exFolder, exTree, exDamaged, exOpen, exNote, exLaunched, exLoose>>

HarvestOf(station) == IF station = "prd" THEN "prd harvest" ELSE "architecture harvest"

\* The planner writes what it likes into the station's folder, or nothing.
PlannerRuns(station, written) ==
    /\ exStep = station
    /\ station = "architecture" => ~exDamaged
    /\ Launching
    /\ exFolder' = [d \in Documents |->
                       IF d \in DOMAIN written /\ written[d] # Absent
                       THEN written[d] ELSE exFolder[d]]
    /\ exStep' = HarvestOf(station)
    /\ UNCHANGED <<exTree, exDamaged, exOpen, exRow, exHeld, exNote, exLoose>>

PrdEnds ==
    /\ exStep = "prd harvest"
    /\ Saves("prd", IF Harvested("prd")
                    THEN [NoExRow EXCEPT !.status = "COMPLETED", !.gate = PrdGateStatus,
                                         !.ids = <<exFolder["prd"]>>]
                    ELSE [NoExRow EXCEPT !.status = "DENIED", !.gate = "FAIL"])
    /\ UNCHANGED <<exFolder, exTree, exDamaged, exOpen, exNote, exLaunched, exLoose>>

ArchitectureEnds ==
    /\ exStep = "architecture harvest"
    /\ Saves("architecture",
             IF Harvested("design") /\ Harvested("testplan")
             THEN [NoExRow EXCEPT !.status = "COMPLETED", !.gate = ArchitectureGateStatus,
                      !.ids = <<exRow["prd"].ids[1], exFolder["design"], exFolder["testplan"]>>]
             ELSE [NoExRow EXCEPT !.status = "DENIED", !.gate = "FAIL"])
    /\ UNCHANGED <<exFolder, exTree, exDamaged, exOpen, exNote, exLaunched, exLoose>>

-----------------------------------------------------------------------------
(* Development *)

\* With the fake runtime a fixed file is written, and nothing is tested.
FakeDevelops ==
    /\ exStep = "development"
    /\ Launching
    /\ exTree' = [version |-> exLaunched + 1, source |-> TRUE, secret |-> FALSE,
                  passes |-> exTree.passes]
    /\ exHeld' = [exHeld EXCEPT !.body = exLaunched + 1]
    /\ exStep' = "candidate"
    /\ UNCHANGED <<exFolder, exDamaged, exOpen, exRow, exNote, exLoose>>

ExecutorRuns(tree) ==
    /\ exStep \in {"development", "development again"}
    /\ Launching
    /\ exTree' \in {exTree, tree}
    /\ exStep' = "development harvest"
    /\ exHeld' = [exHeld EXCEPT !.again = exStep = "development again"]
    /\ UNCHANGED <<exFolder, exDamaged, exOpen, exRow, exNote, exLoose>>

\* Mutant of DevelopmentHarvest: the body of the first run is kept.
KeepsFirstBody ==
    /\ exStep = "development harvest"
    /\ IF Picked
       THEN /\ exHeld' = [exHeld EXCEPT !.body = IF @ # 0 THEN @ ELSE exTree.version]
            /\ exStep' = "self test"
            /\ UNCHANGED <<exRow, exNote>>
       ELSE /\ Saves("development", [NoExRow EXCEPT !.status = "DENIED", !.gate = "FAIL"])
            /\ exNote' = (exNote \/ exHeld.note)
    /\ UNCHANGED <<exFolder, exTree, exDamaged, exOpen, exLaunched, exLoose>>

\* A DENIED run carries the note of its first self-test, if there was one.
DevelopmentHarvest ==
    /\ exStep = "development harvest"
    /\ IF Picked
       THEN /\ exHeld' = [exHeld EXCEPT !.body = exTree.version]
            /\ exStep' = "self test"
            /\ UNCHANGED <<exRow, exNote>>
       ELSE /\ Saves("development", [NoExRow EXCEPT !.status = "DENIED", !.gate = "FAIL"])
            /\ exNote' = (exNote \/ exHeld.note)
    /\ UNCHANGED <<exFolder, exTree, exDamaged, exOpen, exLaunched, exLoose>>

\* run_self_test: pytest, then src/app.py, in the worktree, where they leave
\* what they write.  A first failure is fed back to the executor once, unless
\* the prompt already carries the feedback of a gate.
SelfTest(after) ==
    /\ exStep = "self test"
    /\ exTree' = after
    /\ IF after = exTree THEN UNCHANGED exLaunched ELSE Launching
    /\ IF exTree.passes
       THEN /\ exHeld' = [exHeld EXCEPT !.tested = exTree.version, !.grew = after # exTree]
            /\ exStep' = "candidate"
            /\ UNCHANGED <<exRow, exNote>>
       ELSE IF ~exNote /\ ~exHeld.again
       THEN /\ exHeld' = [exHeld EXCEPT !.note = TRUE]
            /\ exStep' = "development again"
            /\ UNCHANGED <<exRow, exNote>>
       ELSE /\ Saves("development", [NoExRow EXCEPT !.status = "DENIED", !.gate = "FAIL"])
            /\ exNote' = TRUE
    /\ UNCHANGED <<exFolder, exDamaged, exOpen, exLoose>>

\* put, candidate_sha and CandidateGate.evaluate.  A blob the CAS cannot verify
\* fails the gate.
CandidateEnds(verifies) ==
    /\ exStep = "candidate"
    /\ Saves("development",
             [NoExRow EXCEPT !.status = "COMPLETED", !.impl = exHeld.body,
                             !.sha = exTree.version, !.tested = exHeld.tested,
                             !.grew = exHeld.grew,
                             !.gate = IF verifies THEN "PASS" ELSE "FAIL"])
    /\ exNote' = FALSE
    /\ UNCHANGED <<exFolder, exTree, exDamaged, exOpen, exLaunched, exLoose>>

-----------------------------------------------------------------------------
(* What happens around a station *)

\* The worker dies: the folders stay, the row was not saved.
ExecutorsDie ==
    /\ exStep # "idle"
    /\ exStep' = "idle"
    /\ exHeld' = NothingHeld
    /\ UNCHANGED <<exFolder, exTree, exDamaged, exOpen, exRow, exNote, exLaunched, exLoose>>

\* A retry removes the development row and keeps the worktree and the feedback.
RetryDevelopment ==
    /\ exStep = "idle"
    /\ exRow["development"] # NoExRow
    /\ exLaunched < ExLaunches
    /\ exRow' = [exRow EXCEPT !["development"] = NoExRow]
    /\ UNCHANGED <<exFolder, exTree, exDamaged, exOpen, exStep, exHeld, exNote,
                   exLaunched, exLoose>>

\* A process of the executor that left its group still writes (see BrokerRun).
LooseWrites(tree) ==
    /\ exStep \in {"development harvest", "self test", "candidate"}
    /\ Launching
    /\ exTree' = tree
    /\ exLoose' = TRUE
    /\ UNCHANGED <<exFolder, exDamaged, exOpen, exRow, exStep, exHeld, exNote>>

PrdDamaged ==
    /\ exRow["prd"].status = "COMPLETED"
    /\ ~exDamaged
    /\ exDamaged' = TRUE
    /\ UNCHANGED <<exFolder, exTree, exOpen, exRow, exStep, exHeld, exNote,
                   exLaunched, exLoose>>

PipelineCloses ==
    /\ exOpen
    /\ exOpen' = FALSE
    /\ UNCHANGED <<exFolder, exTree, exDamaged, exRow, exStep, exHeld, exNote,
                   exLaunched, exLoose>>

ExNext ==
    \/ \E s \in {"prd", "architecture", "development"} :
          StationBegins(s) \/ StationDenied(s)
    \/ \E w \in [{"prd"} -> Contents \cup {Absent}] : PlannerRuns("prd", w)
    \/ \E w \in [{"design", "testplan"} -> Contents \cup {Absent}] :
          PlannerRuns("architecture", w)
    \/ PrdEnds \/ ArchitectureEnds
    \/ DevelopmentHarvest \/ SelfTest(exTree) \/ FakeDevelops
    \/ \E t \in Trees(exLaunched + 1) : ExecutorRuns(t) \/ SelfTest(t) \/ LooseWrites(t)
    \/ \E verifies \in BOOLEAN : CandidateEnds(verifies)
    \/ ExecutorsDie \/ RetryDevelopment \/ PipelineCloses \/ PrdDamaged

ExSpec == ExInit /\ [][ExNext]_exVars

-----------------------------------------------------------------------------
(* Properties *)

ExTypeOK ==
    /\ exFolder \in [Documents -> Contents \cup {Absent}]
    /\ exTree \in UNION {Trees(n) : n \in 1 .. ExLaunches} \cup {NoTree}
    /\ \A s \in DOMAIN exRow : exRow[s].gate \in {"none", "PASS", "FAIL"}
    /\ exHeld.body \in 0 .. ExLaunches /\ exHeld.tested \in 0 .. ExLaunches /\ exHeld.grew \in BOOLEAN
    /\ exLaunched \in 0 .. ExLaunches

\* What a PASS of a development says, also after a second run of the executor:
\* its sha is that of the worktree it leaves; the implementation artifact was
\* read from the tree that passed the self-test; and the sha is of that same
\* tree or of what the self-test itself made of it.  With the fake runtime
\* nothing is tested.  Only a process that escaped the fence breaks this.
CandidateIsTested ==
    LET row == exRow["development"]
        fake == row.tested = 0
    IN  (row.gate = "PASS" /\ ~exLoose) =>
            /\ exStep = "idle" => exTree.version = row.sha
            /\ fake \/ row.tested = row.impl
            /\ row.grew \/ row.sha = row.impl

\* A baseline whose gates passed rests on documents the station itself judged:
\* no secret, a PRD and a test plan with a shape, and the same PRD in both rows.
BaselineIsJudged ==
    exRow["architecture"].gate = "PASS" =>
        /\ exRow["prd"].gate = "PASS"
        /\ exRow["architecture"].ids[1] = "good" /\ exRow["architecture"].ids[3] = "good"
        /\ exRow["architecture"].ids[2] # "secret"
        /\ exRow["architecture"].ids[1] = exRow["prd"].ids[1]

\* What a PASS of the stations means: judged documents and a candidate that is
\* what was tested, but for what the test left behind.
StationContract == CandidateIsTested /\ BaselineIsJudged
=============================================================================
