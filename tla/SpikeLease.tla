----------------------------- MODULE SpikeLease -----------------------------
(***************************************************************************)
(* LeaseStore of the persistence spike: one named lease, holders that      *)
(* acquire it and submit results under the generation they were given.     *)
(* acquire is one BEGIN IMMEDIATE transaction and submit_result one read;  *)
(* either may fail and then changes nothing.  The injected clock moves on. *)
(***************************************************************************)
EXTENDS Integers

CONSTANTS
  FenceHolders,
  FenceDuration,    \* LEASE_DURATION_SECONDS, in ticks
  FenceClockMax,    \* bound on the clock
  FenceGrants       \* bound on the generations granted

VARIABLES
  fenceRow,       \* the row of spike_leases, generation 0 while there is none
  fenceClock,     \* the injected clock
  fenceAccepted,  \* results submit_result accepted: [holder, generation, at]
  fenceExpired    \* generations it found expired

fenceVars == <<fenceRow, fenceClock, fenceAccepted, fenceExpired>>

FenceInit ==
    /\ fenceRow = [holder |-> "none", generation |-> 0, expires |-> 0]
    /\ fenceClock = 0
    /\ fenceAccepted = {}
    /\ fenceExpired = {}

NoLease == fenceRow.generation = 0

\* acquire.  Held by this holder and valid: the same generation, no extension.
\* Otherwise a first lease or a takeover, also of another holder's valid lease.
StillHolds(h) == fenceRow.holder = h /\ fenceRow.expires > fenceClock

FenceAcquire(h) ==
    /\ fenceRow' = IF StillHolds(h) THEN fenceRow
                   ELSE [holder |-> h, generation |-> fenceRow.generation + 1,
                         expires |-> fenceClock + FenceDuration]
    /\ UNCHANGED <<fenceClock, fenceAccepted, fenceExpired>>

\* submit_result with any generation the holder was ever given or makes up.
FenceStale(h, g) == fenceRow.holder # h \/ g # fenceRow.generation

FenceSubmit(h, g) ==
    /\ ~NoLease /\ ~FenceStale(h, g)
    /\ IF fenceRow.expires <= fenceClock
       THEN /\ fenceExpired' = fenceExpired \cup {g}
            /\ UNCHANGED fenceAccepted
       ELSE /\ fenceAccepted' = fenceAccepted \cup
                                  {[holder |-> h, generation |-> g, at |-> fenceClock]}
            /\ UNCHANGED fenceExpired
    /\ UNCHANGED <<fenceRow, fenceClock>>

FenceTick ==
    /\ fenceClock < FenceClockMax
    /\ fenceClock' = fenceClock + 1
    /\ UNCHANGED <<fenceRow, fenceAccepted, fenceExpired>>

FenceNext ==
    \/ FenceTick
    \/ \E h \in FenceHolders :
         \/ fenceRow.generation < FenceGrants /\ FenceAcquire(h)
         \/ \E g \in 1 .. FenceGrants : FenceSubmit(h, g)

FenceSpec == FenceInit /\ [][FenceNext]_fenceVars

-----------------------------------------------------------------------------
FenceTypeOK ==
    /\ fenceRow \in [holder : FenceHolders \cup {"none"}, generation : Nat, expires : Nat]
    /\ fenceClock \in 0 .. FenceClockMax
    /\ \A a \in fenceAccepted : a.holder \in FenceHolders

\* submit_result fences: results are accepted in the order of generations (one
\* accepted later in time never has an older generation), and all results of a
\* generation come from one holder, the one it was granted to.
ResultsInGenerationOrder ==
    \A a, b \in fenceAccepted :
        /\ a.at < b.at => a.generation <= b.generation
        /\ a.generation = b.generation => a.holder = b.holder

\* A generation's time is fixed when it is granted: no result of it is accepted
\* longer than the lease duration after another one, and none at all once it
\* was found expired, even if its holder calls acquire again.
ExpiryIsFinal ==
    /\ [][\A a \in fenceAccepted' \ fenceAccepted :
            a.generation \notin fenceExpired]_fenceVars
    /\ [](\A a, b \in fenceAccepted :
            a.generation = b.generation => b.at - a.at < FenceDuration)

\* What the lease promises: a result is accepted from the current holder only,
\* and only in its time.
FenceContract == []ResultsInGenerationOrder /\ ExpiryIsFinal
=============================================================================
