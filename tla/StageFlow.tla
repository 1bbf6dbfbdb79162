------------------------------ MODULE StageFlow ------------------------------
(***************************************************************************)
(* The stations of one pipeline: KernelBridge (transport/kernel_bridge.py) *)
(* in the sidecar and in the stage worker.                                 *)
(*                                                                         *)
(* Each bridge keeps the pipeline's station rows in memory.  A finished    *)
(* station is written to the station's JSON file and then recorded as an   *)
(* event of the controller.  A bridge that starts loads the JSON files;    *)
(* before a station it hydrates rows it lacks from the fold of the events. *)
(* With SpawnWorker the stages run in a worker process, otherwise in the   *)
(* sidecar itself (inline).                                                *)
(*                                                                         *)
(* A process may crash between any two steps, the kernel may refuse or     *)
(* fail to take an event, and the sidecar may be stopped and started.      *)
(* Every save writes the table of all pipelines as the process has it, so  *)
(* a process at work on another pipeline may put an old row of this one    *)
(* back: copy is what a worker of another pipeline has loaded.             *)
(*                                                                         *)
(* The verdict DENIED also stands for DRIFT: neither is retried.            *)
(* A candidate is the number of the development run that produced it, 0    *)
(* for the empty sha.  The stage lease is the flag busy: StageLease models *)
(* it in detail; what delivery.json holds is in DeliveryRecords.           *)
(***************************************************************************)
EXTENDS Integers, Sequences, FiniteSets, FiniteSetsExt

CONSTANTS
    Installs,      \* the installations an instance covers
    MaxDev,        \* bound on development runs
    MaxVerify,     \* bound on verification runs
    MaxApprovals   \* bound on recorded approvals

\* A process dies; the sidecar is stopped and started; the kernel or a file
\* fails; a save for another pipeline puts an old row back.
FaultKinds == {"crash", "restart", "store", "stale"}

ASSUME BoundsAssumption ==
    /\ Installs \subseteq [worker : BOOLEAN, legacy : BOOLEAN, faults : [FaultKinds -> Nat]]
    /\ {MaxDev, MaxVerify, MaxApprovals} \subseteq Nat

VARIABLES
    pc,         \* bridge -> what it does next
    mem,        \* bridge -> its rows
    todo,       \* bridge -> stations it still has to import
    job,        \* the retry the sidecar runs inline, or NoJob
    disk,       \* the rows in the JSON files
    confirmed,  \* the requirement is confirmed in the kernel
    log,        \* the station events
    outbox,     \* indexes of the READY events whose PUBLISH_PR is pending
    published,  \* candidates handed to the delivery by the outbox
    offered,    \* candidates handed to the delivery by the verification itself
    copy,       \* the rows a worker of another pipeline has loaded, if one runs
    busy,       \* the stage lease is held
    tree,       \* the development run that last wrote the worktree
    runs,       \* development and verification runs so far
    faults,     \* faults so far, per kind (history)
    install     \* worker: the sidecar spawns a worker for the stages;
                \* legacy: the JSON files predate the event log;
                \* faults: a bound for each kind of fault (constant)

SpawnWorker == install.worker
Legacy == install.legacy

kernel == <<confirmed, log, outbox, published>>
rest == <<offered, copy, tree, runs, install>>
vars == <<pc, mem, todo, job, disk, confirmed, log, outbox, published, busy,
          offered, copy, tree, runs, install, faults>>

Bridges == {"sidecar", "worker"}

-----------------------------------------------------------------------------
(* Rows, events and their fold *)

Gates == {"PASS", "FAIL"}
Verdicts == {"READY", "REWORK", "INFRA", "DENIED"}

NoDev == [gate |-> "none", cand |-> 0, rework |-> 0]
NoVer == [status |-> "none", attempts |-> 0, infra |-> 0]
NoRows == [prd |-> "none", arch |-> "none", appr |-> "none",
           dev |-> NoDev, ver |-> NoVer]

DevRow == [gate : Gates \cup {"none"}, cand : 0..MaxDev, rework : 0..1]
VerRow == [status : Verdicts \cup {"none"}, attempts : 0..1, infra : 0..3]
Rows == [prd : Gates \cup {"none"}, arch : Gates \cup {"none"},
         appr : {"none", "PENDING", "APPROVED"}, dev : DevRow, ver : VerRow]

\* An event: the station, its gate or status, and the candidate its payload
\* carries.  The retry counts in the payload are never read for a decision.
Event(station, result, cand) ==
    [station |-> station, result |-> result, cand |-> cand]

StationEvents(station) == {i \in DOMAIN log : log[i].station = station}

\* fold_stage_projection: each key has the value of the last event with it.
Latest(stations, event, default) ==
    LET I == UNION {StationEvents(s) : s \in stations}
    IN  IF I = {} THEN default ELSE event[Max(I)]

FoldedResult(station) ==
    Latest({station}, [i \in DOMAIN log |-> log[i].result], "none")
FoldedCandidate ==
    Latest({"development", "verify"}, [i \in DOMAIN log |-> log[i].cand], 0)

\* _hydrate_from_events: fills in what is missing; of development and verify
\* only a PASS and a READY.
Hydrated(m) ==
    [prd  |-> IF m.prd = "none" THEN FoldedResult("prd") ELSE m.prd,
     arch |-> IF m.arch = "none" THEN FoldedResult("architecture") ELSE m.arch,
     appr |-> IF m.appr = "none" /\ FoldedResult("approval") = "APPROVED"
              THEN "APPROVED" ELSE m.appr,
     dev  |-> IF m.dev = NoDev /\ FoldedResult("development") = "PASS"
              THEN [gate |-> "PASS", cand |-> FoldedCandidate, rework |-> 0]
              ELSE m.dev,
     ver  |-> IF m.ver = NoVer /\ FoldedResult("verify") = "READY"
              THEN [status |-> "READY", attempts |-> 0, infra |-> 0]
              ELSE m.ver]

-----------------------------------------------------------------------------
TypeOK ==
    /\ pc \in [Bridges -> {"off", "boot", "import", "idle", "prd", "prd_rec",
                           "arch", "arch_rec", "pending", "commit", "approve_rec",
                           "spawn", "dev", "dev_run", "dev_rec", "ver", "hung",
                           "ver_save", "ver_rec", "drain", "done", "release"}]
    /\ mem \in [Bridges -> Rows] /\ disk \in Rows
    /\ todo \in [Bridges -> Seq({"prd", "architecture", "development", "verify",
                                 "drain", "approval"})]
    /\ job \in [kind : {"none", "rework", "failed", "infra"}, used : 0..1, infra : 0..3]
    /\ confirmed \in BOOLEAN /\ busy \in BOOLEAN
    /\ \A i \in DOMAIN log : log[i].cand \in 0..MaxDev
    /\ outbox \subseteq DOMAIN log /\ published \subseteq 0..MaxDev
    /\ tree \in 0..MaxDev
    /\ runs \in [dev : 0..MaxDev, ver : 0..MaxVerify]
    /\ offered \subseteq 0..MaxDev
    /\ \A m \in copy : m \in [dev : DevRow, ver : VerRow]
    /\ install \in Installs
    /\ \A kind \in FaultKinds : faults[kind] \in 0..install.faults[kind]

NoJob == [kind |-> "none", used |-> 0, infra |-> 0]

\* What a release that kept only JSON files left of a pipeline: planned and
\* waiting for its approval, developed, or verified.
LegacyRows ==
    LET planned == [NoRows EXCEPT !.prd = "PASS", !.arch = "PASS", !.appr = "PENDING"]
        developed == [planned EXCEPT !.appr = "APPROVED",
                        !.dev = [gate |-> "PASS", cand |-> 1, rework |-> 0]]
    IN  {planned, developed} \cup
        {[developed EXCEPT !.ver = [status |-> v, attempts |-> 0, infra |-> 0]] :
            v \in {"READY", "REWORK"}}

Init ==
    /\ pc = [b \in Bridges |-> IF b = "sidecar" THEN "boot" ELSE "off"]
    /\ mem = [b \in Bridges |-> NoRows]
    /\ todo = [b \in Bridges |-> <<>>]
    /\ job = NoJob
    /\ install \in Installs
    /\ disk \in IF Legacy THEN LegacyRows ELSE {NoRows}
    /\ confirmed = Legacy
    /\ log = <<>> /\ outbox = {} /\ published = {}
    /\ busy = FALSE
    /\ tree = disk.dev.cand
    /\ runs = [dev |-> tree, ver |-> tree]
    /\ offered = {} /\ copy = {}
    /\ faults = [kind \in FaultKinds |-> 0]

\* Room for one more run of the stages.
InBounds == runs.dev < MaxDev /\ runs.ver < MaxVerify

Goto(b, label) == pc' = [pc EXCEPT ![b] = label]
Remember(b, m) == mem' = [mem EXCEPT ![b] = m]

\* One more fault of a kind.
Fault(kind) ==
    /\ faults[kind] < install.faults[kind]
    /\ faults' = [faults EXCEPT ![kind] = @ + 1]

\* Mutant of Record: the effect refers to the event after this one.
RecordOffByOne(event) ==
    /\ log' = Append(log, event)
    /\ outbox' = IF event.station = "verify" /\ event.result = "READY"
                 THEN outbox \cup {Len(log) + 2} ELSE outbox
    /\ UNCHANGED <<confirmed, published, faults>>

\* _record_station: an event, and for a READY verification its PUBLISH_PR in
\* the outbox in the same transaction.  The receipt is not looked at: when the
\* controller rejects the command or fails, the caller goes on without event.
Record(event) ==
    \/ /\ log' = Append(log, event)
       /\ outbox' = IF event.station = "verify" /\ event.result = "READY"
                    THEN outbox \cup {Len(log) + 1} ELSE outbox
       /\ UNCHANGED <<confirmed, published, faults>>
    \/ Fault("store") /\ UNCHANGED kernel

\* _drain_outbox: every pending PUBLISH_PR is handed to the delivery, or
\* skipped when it has no sha, and gets its receipt.  No record has a pr_url:
\* nothing enables GitHub in the sidecar (DeliveryRecords has that case).
Drained ==
    /\ outbox' = {}
    /\ published' = published \cup ({log[i].cand : i \in outbox} \ {0})
    /\ UNCHANGED <<confirmed, log>>

-----------------------------------------------------------------------------
(* A bridge starts: KernelBridge.__init__ *)

Present(m) ==
    SelectSeq(<<"prd", "architecture", "development", "verify", "drain", "approval">>,
        LAMBDA s : CASE s = "prd" -> m.prd # "none"
                     [] s = "architecture" -> m.arch # "none"
                     [] s = "development" -> m.dev # NoDev
                     [] s \in {"verify", "drain"} -> m.ver # NoVer
                     [] s = "approval" -> m.appr # "none")

\* Mutant of Boot: the files are imported whatever the log holds.
BootImportsAgain(b) ==
    /\ pc[b] = "boot"
    /\ Remember(b, disk)
    /\ todo' = [todo EXCEPT ![b] = IF confirmed THEN Present(disk) ELSE <<>>]
    /\ Goto(b, "import")
    /\ UNCHANGED <<job, disk, kernel, busy, rest, faults>>

\* Rows come from the files.  Rows of an open pipeline without any station
\* event are imported into the log, one event after the other.
Boot(b) ==
    /\ pc[b] = "boot"
    /\ Remember(b, disk)
    /\ todo' = [todo EXCEPT ![b] = IF confirmed /\ log = <<>> THEN Present(disk) ELSE <<>>]
    /\ Goto(b, "import")
    /\ UNCHANGED <<job, disk, kernel, busy, rest, faults>>

RowEvent(m, station) ==
    CASE station = "prd" -> Event("prd", m.prd, 0)
      [] station = "architecture" -> Event("architecture", m.arch, 0)
      [] station = "development" -> Event("development", m.dev.gate, m.dev.cand)
      [] station = "verify" -> Event("verify", m.ver.status, m.dev.cand)
      [] station = "approval" -> Event("approval", m.appr, 0)

\* _import_json_stations: a verification is followed by a drain of the outbox.
ImportStation(b) ==
    /\ pc[b] = "import" /\ todo[b] # <<>>
    /\ IF Head(todo[b]) = "drain" THEN Drained /\ UNCHANGED faults
       ELSE Record(RowEvent(mem[b], Head(todo[b])))
    /\ todo' = [todo EXCEPT ![b] = Tail(@)]
    /\ UNCHANGED <<pc, mem, job, disk, busy, rest>>

ImportDone(b) ==
    /\ pc[b] = "import" /\ todo[b] = <<>>
    /\ Goto(b, IF b = "worker" THEN "dev" ELSE "idle")
    /\ UNCHANGED <<mem, todo, job, disk, kernel, busy, rest, faults>>

-----------------------------------------------------------------------------
(* The sidecar: confirm, _advance_prd, _advance_architecture *)

Sidecar(label) == pc["sidecar"] = label

\* A confirmation that was accepted, now or earlier.
Confirm ==
    /\ Sidecar("idle")
    /\ confirmed' = TRUE
    /\ Goto("sidecar", "prd")
    /\ UNCHANGED <<mem, todo, job, disk, log, outbox, published, busy, rest, faults>>

AdvancePrd ==
    LET m == Hydrated(mem["sidecar"])
    IN  /\ Sidecar("prd")
        /\ IF m.prd # "none"
           THEN Remember("sidecar", m) /\ Goto("sidecar", "arch") /\ UNCHANGED disk
           ELSE \E gate \in Gates :
                  /\ Remember("sidecar", [m EXCEPT !.prd = gate])
                  /\ disk' = [disk EXCEPT !.prd = gate]
                  /\ Goto("sidecar", "prd_rec")
        /\ UNCHANGED <<todo, job, kernel, busy, rest, faults>>

RecordPrd ==
    /\ Sidecar("prd_rec")
    /\ Record(RowEvent(mem["sidecar"], "prd"))
    /\ Goto("sidecar", "arch")
    /\ UNCHANGED <<mem, todo, job, disk, busy, rest>>

AdvanceArchitecture ==
    LET m == Hydrated(mem["sidecar"])
    IN  /\ Sidecar("arch")
        /\ IF m.arch # "none" \/ m.prd # "PASS"
           THEN Remember("sidecar", m) /\ Goto("sidecar", "idle") /\ UNCHANGED disk
           ELSE \E gate \in Gates :
                  /\ Remember("sidecar", [m EXCEPT !.arch = gate])
                  /\ disk' = [disk EXCEPT !.arch = gate]
                  /\ Goto("sidecar", "arch_rec")
        /\ UNCHANGED <<todo, job, kernel, busy, rest, faults>>

RecordArchitecture ==
    LET m == mem["sidecar"]
    IN  /\ Sidecar("arch_rec")
        /\ Record(RowEvent(m, "architecture"))
        /\ Goto("sidecar",
                IF m.arch = "PASS" /\ m.appr = "none" THEN "pending" ELSE "idle")
        /\ UNCHANGED <<mem, todo, job, disk, busy, rest>>

AwaitApproval ==
    /\ Sidecar("pending")
    /\ Remember("sidecar", [mem["sidecar"] EXCEPT !.appr = "PENDING"])
    /\ disk' = [disk EXCEPT !.appr = "PENDING"]
    /\ Goto("sidecar", "idle")
    /\ UNCHANGED <<todo, job, kernel, busy, rest, faults>>

\* The planner raises: the request fails, nothing was saved.
PlannerRaises ==
    /\ Sidecar("prd") \/ Sidecar("arch")
    /\ Goto("sidecar", "idle")
    /\ UNCHANGED <<mem, todo, job, disk, kernel, busy, rest, faults>>

\* So it does when the event store or a file raises, after a save as well.
PlanningRaises ==
    /\ pc["sidecar"] \in {"prd_rec", "arch_rec", "pending"}
    /\ Fault("store")
    /\ Goto("sidecar", "idle")
    /\ UNCHANGED <<mem, todo, job, disk, kernel, busy, rest>>

-----------------------------------------------------------------------------
(* The sidecar: _approve_baseline *)

\* The lease is acquired for a baseline whose gates have passed.
Approve ==
    LET m == Hydrated(mem["sidecar"])
    IN  /\ Sidecar("idle") /\ ~busy
        /\ Cardinality(StationEvents("approval")) < MaxApprovals /\ InBounds
        /\ Remember("sidecar", m)
        /\ m.prd = "PASS" /\ m.arch = "PASS"
        /\ busy' = TRUE
        /\ Goto("sidecar", "commit")
        /\ UNCHANGED <<todo, job, disk, kernel, rest, faults>>

\* _commit_approval: the principal may not approve and the lease is
\* cancelled, or the approval is saved and then recorded.
ApprovalDenied ==
    /\ Sidecar("commit")
    /\ busy' = FALSE
    /\ Goto("sidecar", "idle")
    /\ UNCHANGED <<mem, todo, job, disk, kernel, rest, faults>>

SaveApproval ==
    /\ Sidecar("commit")
    /\ Remember("sidecar", [mem["sidecar"] EXCEPT !.appr = "APPROVED"])
    /\ disk' = [disk EXCEPT !.appr = "APPROVED"]
    /\ Goto("sidecar", "approve_rec")
    /\ UNCHANGED <<todo, job, kernel, busy, rest, faults>>

RecordApproval ==
    /\ Sidecar("approve_rec")
    /\ Record(RowEvent(mem["sidecar"], "approval"))
    /\ Goto("sidecar", IF SpawnWorker THEN "spawn" ELSE "dev")
    /\ UNCHANGED <<mem, todo, job, disk, busy, rest>>

SpawnStageWorker ==
    /\ Sidecar("spawn") /\ pc["worker"] = "off"
    /\ pc' = [sidecar |-> "idle", worker |-> "boot"]
    /\ UNCHANGED <<mem, todo, job, disk, kernel, busy, rest, faults>>

\* An approval, or a retry that spawns, raises: only the approval that runs
\* the stages itself cancels the lease, the others leave it to expire.
ApproveRaises ==
    /\ pc["sidecar"] \in {"commit", "approve_rec", "spawn"}
    /\ Fault("store")
    /\ busy' = SpawnWorker
    /\ Goto("sidecar", "idle")
    /\ UNCHANGED <<mem, todo, job, disk, kernel, rest>>

-----------------------------------------------------------------------------
(* The stages: run_leased_stages *)

\* _advance_development: a row, hydrated or not, or a gate that has not
\* passed skips it; otherwise the executor starts to write the worktree.
AdvanceDevelopment(b) ==
    LET m == Hydrated(mem[b])
    IN  /\ pc[b] = "dev"
        /\ Remember(b, m)
        /\ IF m.dev # NoDev \/ m.prd # "PASS" \/ m.arch # "PASS"
           THEN Goto(b, "ver") /\ UNCHANGED <<tree, runs>>
           ELSE /\ runs' = [runs EXCEPT !.dev = @ + 1]
                /\ tree' = runs.dev + 1
                /\ Goto(b, "dev_run")
        /\ UNCHANGED <<todo, job, disk, kernel, busy, offered, copy, install, faults>>

\* The principal of the approval may no longer approve: a failed row.
DenyDevelopment(b) ==
    LET m == Hydrated(mem[b])
        row == [gate |-> "FAIL", cand |-> 0, rework |-> 0]
    IN  /\ pc[b] = "dev"
        /\ m.dev = NoDev /\ m.prd = "PASS" /\ m.arch = "PASS"
        /\ Remember(b, [m EXCEPT !.dev = row])
        /\ disk' = [disk EXCEPT !.dev = row]
        /\ Goto(b, "dev_rec")
        /\ UNCHANGED <<todo, job, kernel, busy, rest, faults>>

\* Mutant of FinishDevelopment: the sha of the worktree before the run.
FinishDevelopmentStale(b) ==
    /\ pc[b] = "dev_run"
    /\ \E gate \in Gates :
          LET row == [gate |-> gate, rework |-> 0,
                      cand |-> IF gate = "PASS" THEN tree - 1 ELSE 0]
          IN  /\ Remember(b, [mem[b] EXCEPT !.dev = row])
              /\ disk' = [disk EXCEPT !.dev = row]
    /\ Goto(b, "dev_rec")
    /\ UNCHANGED <<todo, job, kernel, busy, rest, faults>>

\* The candidate passes its gate, or the stage is denied or fails.
FinishDevelopment(b) ==
    /\ pc[b] = "dev_run"
    /\ \E gate \in Gates :
          LET row == [gate |-> gate, rework |-> 0,
                      cand |-> IF gate = "PASS" THEN tree ELSE 0]
          IN  /\ Remember(b, [mem[b] EXCEPT !.dev = row])
              /\ disk' = [disk EXCEPT !.dev = row]
    /\ Goto(b, "dev_rec")
    /\ UNCHANGED <<todo, job, kernel, busy, rest, faults>>

\* Mutant of RecordDevelopment: a failed development leaves no event.
RecordDevelopmentIfPassed(b) ==
    /\ pc[b] = "dev_rec"
    /\ IF mem[b].dev.gate = "PASS" THEN Record(RowEvent(mem[b], "development"))
       ELSE UNCHANGED <<kernel, faults>>
    /\ Goto(b, "ver")
    /\ UNCHANGED <<mem, todo, job, disk, busy, rest>>

RecordDevelopment(b) ==
    /\ pc[b] = "dev_rec"
    /\ Record(RowEvent(mem[b], "development"))
    /\ Goto(b, "ver")
    /\ UNCHANGED <<mem, todo, job, disk, busy, rest>>

\* Only an approval and a worker hold the lease at the end.
Finish(b) == Goto(b, IF job = NoJob THEN "release" ELSE "idle")

\* The runtime raises: run_leased_stages is left and the lease released.
ExecutorRaises(b) ==
    /\ pc[b] = "dev_run"
    /\ job' = NoJob
    /\ Finish(b)
    /\ UNCHANGED <<mem, todo, disk, kernel, busy, rest, faults>>

\* So it is when the event store or a file raises.
StageRaises(b) ==
    /\ pc[b] \in {"dev_rec", "ver", "ver_save", "ver_rec", "drain"}
    /\ Fault("store")
    /\ job' = NoJob
    /\ Finish(b)
    /\ UNCHANGED <<mem, todo, disk, kernel, busy, rest>>

\* _advance_verify: a row skips it, and so does a candidate that did not
\* pass; otherwise VerifyFlow verifies the candidate, and one that is READY is
\* published and delivery.json saved before anything else.
AdvanceVerify(b) ==
    LET m == Hydrated(mem[b])
    IN  /\ pc[b] = "ver"
        /\ IF m.ver # NoVer \/ m.dev.gate # "PASS"
           THEN Remember(b, m) /\ Goto(b, "done") /\ UNCHANGED <<offered, runs>>
           ELSE \E status \in Verdicts :
                  /\ runs' = [runs EXCEPT !.ver = @ + 1]
                  /\ Remember(b, [m EXCEPT !.ver =
                                   [status |-> status, attempts |-> 0, infra |-> 0]])
                  /\ offered' = IF status = "READY" THEN offered \cup {m.dev.cand}
                                ELSE offered
                  /\ Goto(b, "ver_save")
        /\ UNCHANGED <<todo, job, disk, kernel, busy, copy, tree, install, faults>>

\* The browser server of the verification never answers.
VerifyHangs(b) ==
    LET m == Hydrated(mem[b])
    IN  /\ pc[b] = "ver" /\ m.ver = NoVer /\ m.dev.gate = "PASS"
        /\ Goto(b, "hung")
        /\ UNCHANGED <<mem, todo, job, disk, kernel, busy, rest, faults>>

\* It waits until it is killed.
HungWaits(b) == pc[b] = "hung" /\ UNCHANGED vars

\* _save_verify
SaveVerify(b) ==
    /\ pc[b] = "ver_save"
    /\ disk' = [disk EXCEPT !.ver = mem[b].ver]
    /\ Goto(b, "ver_rec")
    /\ UNCHANGED <<mem, todo, job, kernel, busy, rest, faults>>

\* _record_verify: the candidate's sha, empty when the verification raised.
RecordVerify(b) ==
    LET status == mem[b].ver.status
    IN  /\ pc[b] = "ver_rec"
        /\ Record(Event("verify", status,
                        IF status = "INFRA" THEN 0 ELSE mem[b].dev.cand))
        /\ Goto(b, "drain")
        /\ UNCHANGED <<mem, todo, job, disk, busy, rest>>

DrainOutbox(b) ==
    /\ pc[b] = "drain"
    /\ Drained
    /\ Goto(b, "done")
    /\ UNCHANGED <<mem, todo, job, disk, busy, rest, faults>>

\* After an inline retry the counts are put into the row and saved.
CountRetry(b) ==
    LET row == mem[b].ver
        counted == IF job.kind # "infra" THEN [row EXCEPT !.attempts = 1]
                   ELSE [row EXCEPT !.attempts = job.used,
                           !.infra = IF row.status = "INFRA" THEN job.infra + 1
                                     ELSE job.infra]
        leftover == [mem[b].dev EXCEPT !.rework = 1]
    IN  /\ pc[b] = "done"
        /\ IF job = NoJob THEN UNCHANGED <<mem, disk>>
           ELSE IF row # NoVer
           THEN /\ Remember(b, [mem[b] EXCEPT !.ver = counted])
                /\ disk' = [disk EXCEPT !.ver = counted]
           ELSE /\ Remember(b, [mem[b] EXCEPT !.dev = leftover])
                /\ disk' = [disk EXCEPT !.dev = leftover]
        /\ job' = NoJob
        /\ Finish(b)
        /\ UNCHANGED <<todo, kernel, busy, rest, faults>>

\* The lease is deleted; the worker ends, the sidecar has answered.
ReleaseLease(b) ==
    /\ pc[b] = "release"
    /\ busy' = FALSE
    /\ Goto(b, IF b = "worker" THEN "off" ELSE "idle")
    /\ Remember(b, IF b = "worker" THEN NoRows ELSE mem[b])
    /\ UNCHANGED <<todo, job, disk, kernel, rest, faults>>

-----------------------------------------------------------------------------
(* The sidecar: _retry_verify and read *)

\* The rework retries the rows count.
Used(m) == IF m.ver # NoVer THEN m.ver.attempts ELSE m.dev.rework

\* Why a retry is refused, in the order of the code's checks.
RetryRefused(m) ==
    LET infra == m.ver.status = "INFRA"
    IN  IF ~infra /\ m.ver.status # "REWORK" /\ m.dev.gate # "FAIL" THEN "not rework"
        ELSE IF (infra /\ m.ver.infra >= 3) \/ (~infra /\ Used(m) >= 1) THEN "exhausted"
        ELSE IF SpawnWorker /\ busy THEN "busy"
        ELSE "none"

\* Granted, a retry forgets the development and verify rows and saves the
\* development file.  Only a retry that spawns a worker takes the lease.
Retry ==
    LET m == Hydrated(mem["sidecar"])
        reason == CASE m.ver.status = "INFRA" -> "infra"
                    [] m.ver.status = "REWORK" -> "rework"
                    [] OTHER -> "failed"
    IN  /\ Sidecar("idle") /\ InBounds
        /\ IF RetryRefused(m) # "none"
           THEN /\ Remember("sidecar", m)
                /\ UNCHANGED <<pc, job, disk, busy>>
           ELSE /\ Remember("sidecar", [m EXCEPT !.dev = NoDev, !.ver = NoVer])
                /\ disk' = [disk EXCEPT !.dev = NoDev]
                /\ busy' = IF SpawnWorker THEN TRUE ELSE busy
                /\ job' = IF SpawnWorker THEN NoJob
                          ELSE [kind |-> reason, used |-> Used(m), infra |-> m.ver.infra]
                /\ Goto("sidecar", IF SpawnWorker THEN "spawn" ELSE "dev")
        /\ UNCHANGED <<todo, kernel, rest, faults>>

\* Mutant of Read: the outbox is left to the worker.
ReadOnly == Sidecar("idle") /\ outbox # {} /\ UNCHANGED vars

\* read drains the outbox and answers from the rows and the fold.
Read ==
    /\ Sidecar("idle") /\ outbox # {}
    /\ Drained
    /\ UNCHANGED <<pc, mem, todo, job, disk, busy, rest, faults>>

-----------------------------------------------------------------------------
(* Other pipelines: _save_dev and _save_verify write the rows of all pipelines *)

\* A process saves, for another pipeline, a table in which it has these rows
\* of this one.
SavesOther(rows, tables) ==
    /\ \E table \in tables :
          disk' = [disk EXCEPT ![table] = rows[table]] /\ disk' # disk
    /\ Fault("stale")
    /\ UNCHANGED <<pc, mem, todo, job, kernel, busy, rest>>

\* A sidecar that spawns workers saves no verify rows.
SidecarSavesOther ==
    /\ Sidecar("idle")
    /\ SavesOther(mem["sidecar"], IF SpawnWorker THEN {"dev"} ELSE {"dev", "ver"})

\* A worker of another pipeline has the rows of its start until it ends.
OtherWorkerLoads ==
    /\ SpawnWorker /\ copy = {} /\ faults["stale"] < install.faults["stale"]
    /\ copy' = {[dev |-> disk.dev, ver |-> disk.ver]}
    /\ UNCHANGED <<pc, mem, todo, job, disk, kernel, busy, offered, tree, runs,
                   install, faults>>

OtherWorkerSaves == \E m \in copy : SavesOther(m, {"dev", "ver"})

-----------------------------------------------------------------------------
(* Crashes and restarts *)

\* A sidecar is started again by the next command; a worker is not.
Crash(b) ==
    /\ pc[b] \notin {"off", "boot"} /\ Fault("crash")
    /\ Goto(b, IF b = "sidecar" THEN "boot" ELSE "off")
    /\ Remember(b, NoRows)
    /\ todo' = [todo EXCEPT ![b] = <<>>]
    /\ job' = IF b = "sidecar" THEN NoJob ELSE job
    /\ UNCHANGED <<disk, kernel, busy, rest>>

\* The runtime is stopped between two requests and started again.
Restart ==
    /\ Sidecar("idle") /\ Fault("restart")
    /\ Goto("sidecar", "boot")
    /\ Remember("sidecar", NoRows)
    /\ UNCHANGED <<todo, job, disk, kernel, busy, rest>>

\* The sidecar is in no step it takes with the lease held.
NotHolding ==
    \/ job # NoJob
    \/ pc["sidecar"] \in {"boot", "import", "idle", "prd", "prd_rec", "arch",
                          "arch_rec", "pending", "hung"}

\* Mutant of LeaseExpires: only a release frees the lease.
LeaseNeverExpires == busy /\ UNCHANGED vars

\* The lease of a holder that died expires, and that of a sidecar that hangs:
\* only a worker renews it.
LeaseExpires ==
    /\ busy /\ pc["worker"] = "off" /\ NotHolding
    /\ busy' = FALSE
    /\ UNCHANGED <<pc, mem, todo, job, disk, kernel, rest, faults>>

-----------------------------------------------------------------------------
Client == Confirm \/ Approve \/ Retry \/ Read

Planning ==
    \/ AdvancePrd \/ RecordPrd \/ AdvanceArchitecture \/ RecordArchitecture
    \/ AwaitApproval \/ PlannerRaises \/ PlanningRaises \/ ApproveRaises
    \/ ApprovalDenied \/ SaveApproval \/ RecordApproval \/ SpawnStageWorker

Bridge(b) ==
    \/ Boot(b) \/ ImportStation(b) \/ ImportDone(b)
    \/ AdvanceDevelopment(b) \/ DenyDevelopment(b) \/ FinishDevelopment(b)
    \/ ExecutorRaises(b) \/ RecordDevelopment(b)
    \/ StageRaises(b)
    \/ AdvanceVerify(b) \/ SaveVerify(b) \/ RecordVerify(b) \/ DrainOutbox(b)
    \/ CountRetry(b) \/ ReleaseLease(b)

Next ==
    \/ Client \/ Planning \/ LeaseExpires
    \/ Restart \/ SidecarSavesOther \/ OtherWorkerLoads \/ OtherWorkerSaves
    \/ \E b \in Bridges : Bridge(b) \/ VerifyHangs(b) \/ HungWaits(b) \/ Crash(b)

Spec == Init /\ [][Next]_vars

\* A process that neither waits for a request nor hangs in a verification goes
\* on, the CLI polls read, and an abandoned lease expires.
FairSpec ==
    /\ Spec /\ WF_vars(Planning) /\ SF_vars(Read) /\ WF_vars(LeaseExpires)
    /\ \A b \in Bridges : WF_vars(Bridge(b))

-----------------------------------------------------------------------------
IsReady(e) == e.station = "verify" /\ e.result = "READY"
IsPass(e) == e.station = "development" /\ e.result = "PASS"

\* No fault of these kinds has happened.
Without(kinds) == \A kind \in kinds : faults[kind] = 0

\* Development is recorded only after a recorded approval (an import writes
\* the approval last).
DevelopmentAfterApproval ==
    ~Legacy => \A i \in StationEvents("development") :
                  \E j \in StationEvents("approval") : j < i

\* A verification is recorded only after a development that passed.
VerifyAfterPass ==
    \A i \in StationEvents("verify") : \E j \in 1..(i - 1) : IsPass(log[j])

\* Each planning station is recorded once, although a bridge that starts
\* imports the files of a pipeline without events.
PlannedOnce ==
    \A station \in {"prd", "architecture"} : Cardinality(StationEvents(station)) <= 1

\* The log tells the stations in their order, across restarts and saves for
\* other pipelines, as long as the event store takes what it is given; a crash
\* may cost the event of a development that is verified all the same.
StationsInOrder ==
    /\ Without({"store"}) => DevelopmentAfterApproval /\ PlannedOnce
    /\ Without({"store", "crash"}) => VerifyAfterPass

\* READY is final: nothing is developed or verified after it.
ReadyIsFinal ==
    \A i \in DOMAIN log : IsReady(log[i]) =>
        \A j \in StationEvents("development") \cup StationEvents("verify") : j <= i

\* A READY event that names a candidate names the content of the worktree,
\* which is what the verification ran and what the host will publish.
ReadyMatchesWorktree ==
    \A i \in DOMAIN log : IsReady(log[i]) => log[i].cand \in {0, tree}

\* A READY event names its candidate, without which nothing is published.
ReadyNamesCandidate ==
    \A i \in DOMAIN log : IsReady(log[i]) => log[i].cand # 0

\* These candidates are the one whose verification, the latest, is READY.
AreReady(cands) ==
    cands # {} => FoldedResult("verify") = "READY" /\ cands = {FoldedCandidate}

\* What the outbox publishes is READY, always.  What the verification itself
\* publishes, before its row is saved and recorded, is READY once it has been
\* recorded, if the process lives to record it.
PublishedIsReady ==
    /\ AreReady(published)
    /\ (Without({"crash"}) /\ \A b \in Bridges : pc[b] \notin {"ver_save", "ver_rec"})
          => AreReady(offered)

\* READY speaks of one candidate: the one in the worktree, which is the one that
\* is published, and no other work follows it, as long as the event store takes
\* what it is given.
ReadyStands ==
    Without({"store"}) => ReadyIsFinal /\ ReadyMatchesWorktree /\ PublishedIsReady

\* A READY verification that was recorded is handed to the delivery by the
\* outbox, whatever fails in between.
ReadyIsPublished ==
    \A c \in 1..MaxDev :
        (\E i \in DOMAIN log : IsReady(log[i]) /\ log[i].cand = c) ~> (c \in published)

\* Every request and every worker ends and leaves the lease free, unless the
\* worker hangs in its verification: it keeps the lease as long as it lives.
LeaseIsReleased == busy ~> (~busy \/ pc["worker"] = "hung")

Quiet == pc["sidecar"] = "idle" /\ pc["worker"] = "off" /\ ~busy

\* When nothing runs, the station files say what the log says: a finished
\* station appends, failures included.
EveryStationAppends ==
    Quiet =>
        /\ disk.prd = FoldedResult("prd") /\ disk.arch = FoldedResult("architecture")
        /\ disk.dev # NoDev => disk.dev.gate = FoldedResult("development")
        /\ disk.ver.status = FoldedResult("verify")

\* A REWORK is verified again at most once, over restarts of the sidecar too.
ReworkCapped ==
    Cardinality({i \in StationEvents("verify") :
        log[i].result = "REWORK" /\ \E j \in StationEvents("verify") : i < j}) <= 1

\* _retry_verify decides from the rows in memory.  A sidecar that runs the
\* stages itself decides as one that has just loaded the files would.  (One that
\* spawns workers does not: it is never told of a REWORK, and answers "not
\* rework" until it is started again.)
RetryIsInformed ==
    (Quiet /\ ~SpawnWorker) =>
        RetryRefused(Hydrated(mem["sidecar"])) = RetryRefused(Hydrated(disk))

\* With no fault but restarts, files, log, memory and the retries taken agree.
CalmRunIsExact ==
    Without({"crash", "store", "stale"}) =>
        EveryStationAppends /\ ReworkCapped /\ RetryIsInformed

\* A retry of a REWORK develops again before it verifies again.
RetryRedevelops ==
    \A i, j \in StationEvents("verify") : i < j /\ log[i].result = "REWORK" =>
        \E k \in StationEvents("development") : i < k /\ k < j

=============================================================================
