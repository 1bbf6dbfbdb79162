----------------------------- MODULE StageLease -----------------------------
(***************************************************************************)
(* The stage lease of one pipeline: acquire_lease, heartbeat_lease, cancel *)
(* and cleanup of KernelController, as the sidecar (KernelBridge approve   *)
(* and retry) and the stage workers it spawns (stage_worker.py) use them.  *)
(*                                                                         *)
(* The sidecar answers one request at a time.  Workers are detached        *)
(* processes: each runs its stages on the main thread and renews its lease *)
(* on a heartbeat thread.  All holders of a pipeline's lease have the same *)
(* name, worker-<pipeline>, so a lease row is its generation and the time  *)
(* it has left.                                                            *)
(*                                                                         *)
(* Time is counted in ticks: expires_at - now is kept instead of the two,  *)
(* with -1 for every expired lease.                                        *)
(***************************************************************************)
EXTENDS Integers

CONSTANTS
    Workers,    \* worker processes that may be alive at once (a bound)
    Period,     \* ticks between two heartbeats (30 s)
    RenewTTL,   \* ticks a heartbeat grants (180 s)
    FirstTTL,   \* ticks an acquisition grants (1800 s)
    Stations,   \* stations a worker records (2: development and verify)
    MaxGen      \* bound on the generations an instance reaches

ASSUME TimingAssumption ==
    /\ Period \in Nat \ {0} /\ RenewTTL \in Nat /\ FirstTTL \in Nat
    /\ Period < RenewTTL /\ RenewTTL <= FirstTTL
    /\ Stations \in Nat /\ MaxGen \in Nat

VARIABLES
    lease,      \* the row; NoLease when there is none
    sidecar,    \* where the sidecar's approve or retry request is
    grant,      \* the row its acquire_lease is about to save
    mode,       \* worker -> off, running its stages, hung in one, or exiting
    gen,        \* worker -> the generation it was started with
    beat,       \* worker -> state of its heartbeat thread
    since,      \* worker -> ticks since its last heartbeat, up to Period
    pending,    \* worker -> time left in the row a stalled heartbeat saves
    recorded,   \* worker -> stations it has recorded
    health      \* what has happened to heartbeats and requests (history):
                \* all punctual, one heartbeat raised, or some step was late
                \* or interrupted

workerVars == <<mode, gen, beat, since, pending, recorded>>
vars == <<lease, sidecar, grant, mode, gen, beat, since, pending,
          recorded, health>>

Left == -1..FirstTTL
LeaseRecord == [generation : Nat, left : Left]
NoLease == [generation |-> 0, left |-> -1]

TypeOK ==
    /\ lease \in LeaseRecord /\ grant \in LeaseRecord
    /\ sidecar \in {"idle", "acquiring", "granted"}
    /\ mode \in [Workers -> {"off", "running", "hung", "exiting"}]
    /\ gen \in [Workers -> Nat]
    /\ beat \in [Workers -> {"waiting", "stalled", "dead"}]
    /\ since \in [Workers -> 0..Period]
    /\ pending \in [Workers -> Left]
    /\ recorded \in [Workers -> 0..Stations]
    /\ health \in {"punctual", "raised", "disturbed"}

Init ==
    /\ lease = NoLease /\ grant = NoLease
    /\ sidecar = "idle"
    /\ mode = [w \in Workers |-> "off"]
    /\ gen = [w \in Workers |-> 0]
    /\ beat = [w \in Workers |-> "dead"]
    /\ since = [w \in Workers |-> 0]
    /\ pending = [w \in Workers |-> -1]
    /\ recorded = [w \in Workers |-> 0]
    /\ health = "punctual"

\* Mutant of Held: a row counts as a lease although it has expired.
HeldThoughExpired == lease # NoLease

Held == lease.left >= 0

\* _lease_is_current, for the worker's holder name and generation.
Current(w) == Held /\ lease.generation = gen[w]

-----------------------------------------------------------------------------
(* The sidecar: approve and retry, acquire_lease with replace=False *)

\* Mutant of AcquireLoad: a lease that has not expired is replaced.
AcquireLoadReplacing ==
    /\ sidecar = "idle" /\ lease.generation < MaxGen
    /\ sidecar' = "acquiring"
    /\ grant' = [generation |-> lease.generation + 1, left |-> FirstTTL]
    /\ UNCHANGED <<lease, workerVars, health>>

\* acquire_lease reads the row: a lease that has not expired is "busy".
AcquireLoad ==
    /\ sidecar = "idle" /\ ~Held /\ lease.generation < MaxGen
    /\ sidecar' = "acquiring"
    /\ grant' = [generation |-> lease.generation + 1, left |-> FirstTTL]
    /\ UNCHANGED <<lease, workerVars, health>>

\* It saves the new row whatever the row is by now.
AcquireSave ==
    /\ sidecar = "acquiring"
    /\ sidecar' = "granted" /\ lease' = grant
    /\ UNCHANGED <<grant, workerVars, health>>

\* The approval is denied and the lease cancelled.
ApprovalDenied ==
    /\ sidecar = "granted"
    /\ sidecar' = "idle" /\ lease' = NoLease /\ grant' = NoLease
    /\ UNCHANGED <<workerVars, health>>

\* A detached process gets the generation and starts its heartbeat thread.
SpawnStageWorker(w) ==
    /\ sidecar = "granted" /\ mode[w] = "off"
    /\ sidecar' = "idle" /\ grant' = NoLease
    /\ mode' = [mode EXCEPT ![w] = "running"]
    /\ gen' = [gen EXCEPT ![w] = grant.generation]
    /\ beat' = [beat EXCEPT ![w] = "waiting"]
    /\ since' = [since EXCEPT ![w] = 0]
    /\ recorded' = [recorded EXCEPT ![w] = 0]
    /\ UNCHANGED <<lease, pending, health>>

SidecarCrash ==
    /\ sidecar # "idle"
    /\ sidecar' = "idle" /\ grant' = NoLease
    /\ UNCHANGED <<lease, workerVars, health>>

\* cleanup: rows whose expires_at is past are deleted.
Cleanup ==
    /\ sidecar = "idle" /\ ~Held
    /\ lease' = NoLease
    /\ UNCHANGED <<sidecar, grant, workerVars, health>>

-----------------------------------------------------------------------------
(* Stage workers *)

Stopped(w) ==
    /\ beat' = [beat EXCEPT ![w] = "dead"]
    /\ since' = [since EXCEPT ![w] = 0]
    /\ pending' = [pending EXCEPT ![w] = -1]

\* The worker is in its stages, so its heartbeat thread has not been stopped.
Running == {w \in Workers : mode[w] \in {"running", "hung"}}

HeartbeatDue(w) ==
    w \in Running /\ beat[w] = "waiting" /\ since[w] = Period

\* Mutant of Heartbeat: expires_at is left as it is.
HeartbeatWithoutRenewal(w) ==
    /\ HeartbeatDue(w)
    /\ IF Current(w)
       THEN since' = [since EXCEPT ![w] = 0] /\ UNCHANGED <<beat, pending>>
       ELSE Stopped(w)
    /\ UNCHANGED <<lease, sidecar, grant, mode, gen, recorded, health>>

\* heartbeat_lease: a lease that is no longer current ends the thread, and
\* only the thread.
Heartbeat(w) ==
    /\ HeartbeatDue(w)
    /\ IF Current(w)
       THEN /\ lease' = [generation |-> lease.generation, left |-> RenewTTL]
            /\ since' = [since EXCEPT ![w] = 0]
            /\ UNCHANGED <<beat, pending>>
       ELSE Stopped(w) /\ UNCHANGED lease
    /\ UNCHANGED <<sidecar, grant, mode, gen, recorded, health>>

HeartbeatRaises(w) ==
    /\ HeartbeatDue(w)
    /\ Stopped(w)
    /\ health' = IF health = "disturbed" THEN health ELSE "raised"
    /\ UNCHANGED <<lease, sidecar, grant, mode, gen, recorded>>

\* The row is read and found current; the write comes later, and is an
\* upsert without a condition.
HeartbeatStalls(w) ==
    /\ HeartbeatDue(w) /\ Current(w) /\ health' = "disturbed"
    /\ beat' = [beat EXCEPT ![w] = "stalled"]
    /\ pending' = [pending EXCEPT ![w] = RenewTTL]
    /\ UNCHANGED <<lease, sidecar, grant, mode, gen, since, recorded>>

HeartbeatSaves(w) ==
    /\ beat[w] = "stalled"
    /\ lease' = [generation |-> gen[w], left |-> pending[w]]
    /\ beat' = [beat EXCEPT ![w] = "waiting"]
    /\ since' = [since EXCEPT ![w] = 0]
    /\ pending' = [pending EXCEPT ![w] = -1]
    /\ UNCHANGED <<sidecar, grant, mode, gen, recorded, health>>

\* _record_station calls submit(), which does not look at the lease.
RecordStation(w) ==
    /\ mode[w] = "running" /\ recorded[w] < Stations
    /\ recorded' = [recorded EXCEPT ![w] = @ + 1]
    /\ UNCHANGED <<lease, sidecar, grant, mode, gen, beat, since, pending, health>>

\* The last station never comes back: drive_stdio_mcp leaves its pool only once
\* the thread that reads from the browser server has ended, whatever timeout_s
\* is, and a server that stays silent keeps that thread.  The heartbeats go on.
StageHangs(w) ==
    /\ mode[w] = "running" /\ recorded[w] < Stations
    /\ mode' = [mode EXCEPT ![w] = "hung"]
    /\ UNCHANGED <<lease, sidecar, grant, gen, beat, since, pending, recorded, health>>

\* The stages are over, or raised: release_lease deletes the row of the
\* pipeline.  The heartbeat thread may be in the middle of a renewal.
ReleaseLease(w) ==
    /\ mode[w] = "running"
    /\ mode' = [mode EXCEPT ![w] = "exiting"]
    /\ lease' = NoLease
    /\ UNCHANGED <<sidecar, grant, gen, beat, since, pending, recorded, health>>

\* The process ends, having released its lease or not.
WorkerEnds(w) ==
    /\ mode' = [mode EXCEPT ![w] = "off"]
    /\ gen' = [gen EXCEPT ![w] = 0]
    /\ recorded' = [recorded EXCEPT ![w] = 0]
    /\ Stopped(w)
    /\ UNCHANGED <<lease, sidecar, grant, health>>

WorkerExits(w) == mode[w] = "exiting" /\ WorkerEnds(w)

WorkerCrash(w) == w \in Running /\ WorkerEnds(w)

-----------------------------------------------------------------------------
\* Mutant of Down: the time left of an expired lease keeps falling.
DownFurther(n) == n - 1

Down(n) == IF n = -1 THEN -1 ELSE n - 1

\* A request or a heartbeat that takes a tick is not punctual.
Tick ==
    /\ health' = IF sidecar = "idle" /\ \A w \in Workers : ~HeartbeatDue(w)
                 THEN health ELSE "disturbed"
    /\ lease' = [generation |-> lease.generation, left |-> Down(lease.left)]
    /\ grant' = [generation |-> grant.generation, left |-> Down(grant.left)]
    /\ pending' = [w \in Workers |-> Down(pending[w])]
    /\ since' = [w \in Workers |->
                   IF w \in Running /\ beat[w] = "waiting" /\ since[w] < Period
                   THEN since[w] + 1 ELSE since[w]]
    /\ UNCHANGED <<sidecar, mode, gen, beat, recorded>>

Sidecar ==
    \/ AcquireLoad \/ AcquireSave \/ ApprovalDenied
    \/ \E w \in Workers : SpawnStageWorker(w)
    \/ SidecarCrash \/ Cleanup

Worker(w) ==
    \/ Heartbeat(w) \/ HeartbeatRaises(w)
    \/ HeartbeatStalls(w) \/ HeartbeatSaves(w)
    \/ RecordStation(w) \/ StageHangs(w) \/ ReleaseLease(w)
    \/ WorkerExits(w) \/ WorkerCrash(w)

Next == Tick \/ Sidecar \/ \E w \in Workers : Worker(w)

Spec == Init /\ [][Next]_vars

(***************************************************************************)
(* Time passes; a heartbeat thread whose wait is over runs; a request is   *)
(* answered; a stage that does not hang ends, the other subprocesses it    *)
(* starts having a time limit that is kept.  A hung stage owes nothing.    *)
(***************************************************************************)
Fairness ==
    /\ WF_vars(Tick)
    /\ WF_vars(AcquireSave)
    /\ WF_vars(\E w \in Workers : SpawnStageWorker(w))
    /\ \A w \in Workers :
          WF_vars(Heartbeat(w)) /\ WF_vars(ReleaseLease(w)) /\ WF_vars(WorkerExits(w))

FairSpec == Spec /\ Fairness

-----------------------------------------------------------------------------
\* At most one worker runs the stages of a pipeline, and so uses its
\* worktree, as long as the heartbeats are punctual: the lease excludes a
\* second one through crashes of the sidecar and of workers, refused approvals
\* and expiry.
OneExecutor == health = "punctual" => \A v, w \in Running : v = w

Fenced == \A w \in Workers : recorded'[w] > recorded[w] => Current(w)

\* A station is recorded only by the worker whose lease is current, as long as
\* the heartbeats are punctual, although submit() does not look at the lease.
FencedWhilePunctual == [][health = "punctual" => Fenced]_vars

\* A station is recorded only by the worker whose lease is current, also when
\* a heartbeat raised.
FencedResults == [][health # "disturbed" => Fenced]_vars

\* The pipeline is busy for good only with a worker that hangs: otherwise a
\* lease is released by its worker or, when the worker or the sidecar died with
\* it or the heartbeats stopped, expires.
LeaseEventuallyFree ==
    []<>(~Held \/ \E w \in Workers : mode[w] = "hung" /\ Current(w))

=============================================================================
