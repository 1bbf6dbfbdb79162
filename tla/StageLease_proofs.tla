-------------------------- MODULE StageLease_proofs --------------------------
(***************************************************************************)
(* As long as heartbeats are punctual, the lease excludes a second         *)
(* executor and every station is recorded under a current lease, for any   *)
(* number of workers, any generations and any times with                   *)
(* Period < RenewTTL <= FirstTTL.                                          *)
(***************************************************************************)
EXTENDS StageLease, TLAPS

\* The type invariant, for every value of the constants and all faults.
THEOREM LeaseTypeCorrect == Spec => []TypeOK
<1> USE TimingAssumption DEF LeaseRecord, Left
<1>1. Init => TypeOK
  BY DEF Init, TypeOK, NoLease
<1>2. TypeOK /\ [Next]_vars => TypeOK'
  <2> SUFFICES ASSUME TypeOK, [Next]_vars PROVE TypeOK'
    OBVIOUS
  <2> USE DEF TypeOK
  <2>1. CASE AcquireLoad \/ AcquireSave
    BY <2>1 DEF AcquireLoad, AcquireSave, workerVars
  <2>2. CASE ApprovalDenied \/ SidecarCrash \/ Cleanup
    BY <2>2 DEF ApprovalDenied, SidecarCrash, Cleanup, workerVars, NoLease
  <2>3. ASSUME NEW w \in Workers, SpawnStageWorker(w) PROVE TypeOK'
    BY <2>3 DEF SpawnStageWorker, NoLease
  <2>4. ASSUME NEW w \in Workers, Heartbeat(w) PROVE TypeOK'
    BY <2>4 DEF Heartbeat, Stopped
  <2>5. ASSUME NEW w \in Workers, HeartbeatRaises(w) \/ HeartbeatStalls(w)
        PROVE  TypeOK'
    BY <2>5 DEF HeartbeatRaises, HeartbeatStalls, Stopped
  <2>6. ASSUME NEW w \in Workers, HeartbeatSaves(w) PROVE TypeOK'
    BY <2>6 DEF HeartbeatSaves
  <2>7. ASSUME NEW w \in Workers, RecordStation(w) \/ StageHangs(w) \/ ReleaseLease(w)
        PROVE  TypeOK'
    BY <2>7 DEF RecordStation, StageHangs, ReleaseLease, NoLease
  <2>8. ASSUME NEW w \in Workers, WorkerExits(w) \/ WorkerCrash(w)
        PROVE  TypeOK'
    BY <2>8 DEF WorkerExits, WorkerCrash, WorkerEnds, Stopped
  <2>9. CASE Tick
    BY <2>9 DEF Tick, Down
  <2>10. CASE UNCHANGED vars
    BY <2>10 DEF vars
  <2> QED
    BY <2>1, <2>2, <2>3, <2>4, <2>5, <2>6, <2>7, <2>8, <2>9, <2>10
    DEF Next, Sidecar, Worker
<1> QED BY <1>1, <1>2, PTL DEF Spec

-----------------------------------------------------------------------------
(***************************************************************************)
(* The inductive invariant.  A running worker's heartbeat thread is alive, *)
(* and its lease has at least the time left that the last renewal granted, *)
(* less the time since; so it cannot expire before the next heartbeat.     *)
(* While a request is between its read of the free lease and the start of  *)
(* the worker, nobody runs.                                                *)
(***************************************************************************)
Renewing(w) ==
    /\ lease.generation = gen[w] /\ beat[w] = "waiting"
    /\ lease.left >= RenewTTL - since[w]

LeaseInv ==
    /\ \A v, w \in Running : v = w
    /\ \A w \in Workers : beat[w] # "stalled"
    /\ \A w \in Running : Renewing(w) /\ sidecar = "idle"
    /\ sidecar # "idle" => grant.left = FirstTTL
    /\ sidecar = "granted" => lease = grant

\* While LeaseInv holds, the lease of a running worker is current.
LEMMA RunningIsCurrent ==
  ASSUME TypeOK, LeaseInv, NEW w \in Running
  PROVE  Current(w)
<1>1. since[w] <= Period /\ since[w] \in Nat
  BY TimingAssumption DEF TypeOK, Running
<1> QED
  BY <1>1, TimingAssumption
  DEF TypeOK, Running, LeaseInv, Renewing, Current, Held, LeaseRecord, Left

\* No worker runs at the start.
LEMMA LeaseInvInit == Init => LeaseInv
  BY DEF Init, LeaseInv, Running

\* Every punctual step keeps LeaseInv.
LEMMA LeaseInvStep ==
  ASSUME TypeOK, LeaseInv, [Next]_vars, health' = "punctual"
  PROVE  LeaseInv'
<1> USE TimingAssumption DEF TypeOK, LeaseRecord, Left, Running
<1>1. CASE AcquireLoad
  <2>1. Running = {}
    BY <1>1, RunningIsCurrent DEF AcquireLoad, Current
  <2> QED BY <1>1, <2>1 DEF AcquireLoad, workerVars, LeaseInv
<1>2. CASE AcquireSave
  BY <1>2 DEF AcquireSave, workerVars, LeaseInv
<1>3. CASE ApprovalDenied \/ SidecarCrash
  BY <1>3 DEF ApprovalDenied, SidecarCrash, workerVars, LeaseInv
<1>4. CASE Cleanup
  <2>1. Running = {}
    BY <1>4, RunningIsCurrent DEF Cleanup, Current
  <2> QED BY <1>4, <2>1 DEF Cleanup, workerVars, LeaseInv
<1>5. ASSUME NEW w \in Workers, SpawnStageWorker(w) PROVE LeaseInv'
  <2>1. Running = {}
    BY <1>5 DEF SpawnStageWorker, LeaseInv
  <2>2. Renewing(w)'
    BY <1>5 DEF SpawnStageWorker, LeaseInv, Renewing
  <2> QED BY <1>5, <2>1, <2>2 DEF SpawnStageWorker, LeaseInv
<1>6. ASSUME NEW w \in Workers, Heartbeat(w) PROVE LeaseInv'
  <2>1. w \in Running /\ Current(w)
    BY <1>6, RunningIsCurrent DEF Heartbeat, HeartbeatDue
  <2>2. /\ lease' = [generation |-> lease.generation, left |-> RenewTTL]
        /\ since' = [since EXCEPT ![w] = 0]
        /\ UNCHANGED <<beat, pending, sidecar, grant, mode, gen, recorded>>
    BY <1>6, <2>1 DEF Heartbeat
  <2>3. \A v \in Running : v = w
    BY <2>1 DEF LeaseInv
  <2> QED BY <2>1, <2>2, <2>3 DEF LeaseInv, Renewing
<1>7. ASSUME NEW w \in Workers,
             HeartbeatRaises(w) \/ HeartbeatStalls(w) \/ HeartbeatSaves(w)
      PROVE  FALSE
  BY <1>7 DEF HeartbeatRaises, HeartbeatStalls, HeartbeatSaves, LeaseInv
<1>8. ASSUME NEW w \in Workers, RecordStation(w) \/ StageHangs(w) PROVE LeaseInv'
  BY <1>8 DEF RecordStation, StageHangs, LeaseInv, Renewing
<1>9. ASSUME NEW w \in Workers, ReleaseLease(w) PROVE LeaseInv'
  BY <1>9 DEF ReleaseLease, LeaseInv
<1>10. ASSUME NEW w \in Workers, WorkerExits(w) \/ WorkerCrash(w) PROVE LeaseInv'
  BY <1>10 DEF WorkerExits, WorkerCrash, WorkerEnds, Stopped, LeaseInv, Renewing
<1>11. CASE Tick
  <2>1. sidecar = "idle" /\ \A w \in Workers : ~HeartbeatDue(w)
    BY <1>11 DEF Tick
  <2>2. ASSUME NEW w \in Running PROVE Renewing(w)'
    <3>1. beat[w] = "waiting" /\ since[w] < Period /\ lease.left >= 0
      BY <2>1, <2>2, RunningIsCurrent
      DEF HeartbeatDue, LeaseInv, Renewing, Current, Held
    <3> QED BY <1>11, <2>2, <3>1 DEF Tick, Down, LeaseInv, Renewing
  <2> QED BY <1>11, <2>1, <2>2 DEF Tick, LeaseInv
<1>12. CASE UNCHANGED vars
  BY <1>12 DEF vars, LeaseInv, Renewing
<1> QED
  BY <1>1, <1>2, <1>3, <1>4, <1>5, <1>6, <1>7, <1>8, <1>9, <1>10, <1>11, <1>12
  DEF Next, Sidecar, Worker

\* Once disturbed, the heartbeats count as disturbed for good.
LEMMA HealthIsLost ==
  ASSUME [Next]_vars, health' = "punctual"
  PROVE  health = "punctual"
BY DEF Next, Sidecar, Worker, Tick, AcquireLoad, AcquireSave, ApprovalDenied,
       SpawnStageWorker, SidecarCrash, Cleanup, workerVars, Heartbeat,
       HeartbeatRaises, HeartbeatStalls, HeartbeatSaves, RecordStation,
       StageHangs, ReleaseLease, WorkerExits, WorkerCrash, WorkerEnds, vars

PunctualInv == health = "punctual" => LeaseInv

\* Every step keeps LeaseInv for as long as all was punctual.
LEMMA PunctualInvStep == TypeOK /\ PunctualInv /\ [Next]_vars => PunctualInv'
BY LeaseInvStep, HealthIsLost DEF PunctualInv

\* With punctual heartbeats at most one worker runs a pipeline's stages,
\* whatever crashes, refusals and takeovers happen.
THEOREM OneExecutorHolds == Spec => []OneExecutor
<1>1. Init => PunctualInv
  BY LeaseInvInit DEF PunctualInv
<1>2. PunctualInv => OneExecutor
  BY DEF PunctualInv, LeaseInv, OneExecutor
<1> QED BY <1>1, <1>2, PunctualInvStep, LeaseTypeCorrect, PTL DEF Spec

\* With punctual heartbeats every station is recorded under a current lease,
\* although submit() does not look at the lease.
THEOREM FencedWhilePunctualHolds == Spec => FencedWhilePunctual
<1>1. Init => PunctualInv
  BY LeaseInvInit DEF PunctualInv
<1>2. TypeOK /\ PunctualInv /\ [Next]_vars => [health = "punctual" => Fenced]_vars
  <2> SUFFICES ASSUME TypeOK, LeaseInv, Next PROVE Fenced
    BY DEF PunctualInv
  <2> USE DEF Fenced
  <2>1. ASSUME NEW w \in Workers, RecordStation(w) PROVE Fenced
    <3>1. Current(w)
      BY <2>1, RunningIsCurrent DEF RecordStation, Running
    <3>2. \A v \in Workers : v # w => recorded'[v] = recorded[v]
      BY <2>1 DEF RecordStation, TypeOK
    <3> QED BY <3>1, <3>2, TimingAssumption DEF TypeOK
  <2>2. ASSUME NEW w \in Workers,
               SpawnStageWorker(w) \/ WorkerExits(w) \/ WorkerCrash(w)
        PROVE  Fenced
    BY <2>2, TimingAssumption
    DEF SpawnStageWorker, WorkerExits, WorkerCrash, WorkerEnds, TypeOK
  <2>3. ASSUME UNCHANGED recorded PROVE Fenced
    BY <2>3, TimingAssumption DEF TypeOK
  <2> QED
    BY <2>1, <2>2, <2>3
    DEF Next, Sidecar, Worker, Tick, AcquireLoad, AcquireSave, ApprovalDenied,
        SidecarCrash, Cleanup, workerVars, Heartbeat, HeartbeatRaises,
        HeartbeatStalls, HeartbeatSaves, StageHangs, ReleaseLease
<1> QED
  BY <1>1, <1>2, PunctualInvStep, LeaseTypeCorrect, PTL DEF Spec, FencedWhilePunctual

=============================================================================
