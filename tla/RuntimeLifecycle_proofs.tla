----------------------- MODULE RuntimeLifecycle_proofs -----------------------
(***************************************************************************)
(* One runtime owns a state root, for any number of runtimes and commands. *)
(* TypeOK and ServerOwnsRoot are inductive together: a runtime that is     *)
(* past AcquireLock holds the lock, so that only one is, and nobody else   *)
(* writes the descriptor; a shim can only remove it.                       *)
(***************************************************************************)
EXTENDS RuntimeLifecycle, TLAPS

OwnInv == TypeOK /\ ServerOwnsRoot

\* Initially nothing runs.
LEMMA OwnInit == Init => OwnInv
BY LifecycleAssumption DEF Init, OwnInv, TypeOK, ServerOwnsRoot, Owning, Labels

\* A step of a runtime keeps the state root in one hand.
LEMMA RuntimeKeepsOwn ==
    ASSUME OwnInv, NEW r \in Runtimes, Runtime(r)
    PROVE  OwnInv'
<1> USE LifecycleAssumption DEF OwnInv, ServerOwnsRoot, TypeOK, Owning, Labels,
        shimVars, Become
<1>1. CASE AcquireLock(r)
  BY <1>1 DEF AcquireLock
<1>2. CASE RemoveStaleDescriptor(r)
  BY <1>2 DEF RemoveStaleDescriptor, Stale
<1>3. CASE WriteDescriptor(r)
  BY <1>3 DEF WriteDescriptor
<1>4. CASE WriteDescriptorFails(r)
  BY <1>4 DEF WriteDescriptorFails
<1>5. CASE Bind(r)
  BY <1>5 DEF Bind
<1>6. CASE BindFails(r)
  BY <1>6 DEF BindFails
<1>7. CASE ServeReturns(r)
  BY <1>7 DEF ServeReturns
<1>8. CASE RuntimeEnds(r)
  BY <1>8 DEF RuntimeEnds, Alive
<1>9. CASE PortsExhausted(r)
  BY <1>9 DEF PortsExhausted
<1> QED
  BY <1>1, <1>2, <1>3, <1>4, <1>5, <1>6, <1>7, <1>8, <1>9 DEF Runtime

\* The part of a shim's step that concerns its own variables keeps their type.
LEMMA ShimLocalType ==
    ASSUME TypeOK, NEW s \in Shims, NEW label \in Labels,
           NEW outcome \in {"none", "ok", "failed"},
           Goto(s, label) \/ Return(s, outcome),
           ReadDescriptor(s) \/ UNCHANGED doc
    PROVE  /\ pc' \in [Shims -> Labels]
           /\ cmd' \in [Shims -> {"none", "start", "stop", "submit", "deliver"}]
           /\ doc' \in [Shims -> Runtimes \cup {None}]
           /\ result' \in [Shims -> {"none", "ok", "failed"}]
           /\ overlap' \in {"never", "once"}
BY DEF TypeOK, Goto, Return, ReadDescriptor, Labels

\* A step of a shim removes the descriptor, launches or signals a runtime, and
\* takes neither the lock nor the descriptor for anyone.
LEMMA ShimKeepsOwn ==
    ASSUME OwnInv, NEW s \in Shims, Shim(s)
    PROVE  OwnInv'
<1> USE LifecycleAssumption DEF OwnInv, ServerOwnsRoot, runtimeVars
<1>1. /\ \E label \in Labels, outcome \in {"none", "ok", "failed"} :
            Goto(s, label) \/ Return(s, outcome)
      /\ ReadDescriptor(s) \/ UNCHANGED doc
  BY DEF Shim, StartRead, StartCheck, StartRemove, Launch, StartFails, WaitRead,
         WaitProbe, WaitTimesOut, Started, StopRead, StopCheck, Kill, AwaitEnd,
         AwaitTimesOut, StopRemove, EnsureRuntime, SendRead, Send, Labels
<1>2. /\ pc' \in [Shims -> Labels]
      /\ cmd' \in [Shims -> {"none", "start", "stop", "submit", "deliver"}]
      /\ doc' \in [Shims -> Runtimes \cup {None}]
      /\ result' \in [Shims -> {"none", "ok", "failed"}]
      /\ overlap' \in {"never", "once"}
  BY <1>1, ShimLocalType
<1>3. CASE UNCHANGED runtimeVars
  BY <1>2, <1>3 DEF TypeOK
<1>4. CASE StartRemove(s) \/ StopRemove(s)
  BY <1>2, <1>4 DEF StartRemove, StopRemove, TypeOK
<1>5. ASSUME NEW r \in Runtimes, Launch(s, r)
      PROVE  OwnInv'
  BY <1>2, <1>5 DEF Launch, Become, TypeOK, Owning
<1>6. CASE Kill(s)
  BY <1>2, <1>6 DEF Kill, Become, TypeOK, Owning
<1> QED
  BY <1>3, <1>4, <1>5, <1>6
     DEF Shim, StartRead, StartCheck, StartFails, WaitRead, WaitProbe, WaitTimesOut,
         Started, StopRead, StopCheck, AwaitEnd, AwaitTimesOut, EnsureRuntime,
         SendRead, Send

\* Every step keeps the state root in one hand.
LEMMA OwnStep ==
    ASSUME OwnInv, Next
    PROVE  OwnInv'
<1>1. ASSUME NEW s \in Shims, NEW c \in {"start", "stop", "submit", "deliver"},
             Begin(s, c)
      PROVE  OwnInv'
  <2>1. pc' \in [Shims -> Labels]
    BY <1>1 DEF Begin, OwnInv, TypeOK, Labels
  <2>2. overlap' \in {"never", "once"}
    BY <1>1 DEF Begin, OwnInv, TypeOK
  <2> QED
    BY <1>1, <2>1, <2>2 DEF Begin, OwnInv, TypeOK, ServerOwnsRoot, runtimeVars
<1> QED
  BY <1>1, RuntimeKeepsOwn, ShimKeepsOwn DEF Next

\* The type invariant, and that only the holder of the state-root lock serves
\* while the descriptor names no other runtime (StateRootLock.acquire in main,
\* write_descriptor in _serve, remove_descriptor in start and stop).
THEOREM OneServer == Spec => [](TypeOK /\ ServerOwnsRoot)
<1>1. Init => OwnInv
  BY OwnInit
<1>2. OwnInv /\ [Next]_vars => OwnInv'
  BY OwnStep DEF vars, OwnInv, TypeOK, ServerOwnsRoot
<1>3. OwnInv => TypeOK /\ ServerOwnsRoot
  BY DEF OwnInv
<1> QED
  BY <1>1, <1>2, <1>3, PTL DEF Spec

-----------------------------------------------------------------------------
(* Commands that do not overlap.  While a runtime is starting the only      *)
(* command under way is the one that waits for it, and when a command is    *)
(* about to remove the descriptor no runtime owns the root.                 *)

\* The lock has an owner.
LockHeld == lock # None => rt[lock] \in Owning

\* A stop only stops.
StopLabels ==
    \A s \in Shims : cmd[s] = "stop" =>
        pc[s] \in {"idle", "stop", "stop_check", "kill", "await", "stop_remove"}

\* At most one command is under way.
OneCommand == \A s, t \in Shims : ~At(s, "idle") /\ ~At(t, "idle") => s = t

Harmless == {"idle", "wait_read", "wait_probe", "started", "join_read", "join_probe",
             "joined", "send_read", "send"}

\* A starting runtime is met only by a command that waits or sends.
StartIsAwaited ==
    \A r \in Runtimes, s \in Shims :
        rt[r] \in Starting => pc[s] \in Harmless

\* A command that is about to remove the descriptor has no owner to hurt.
RemovesNothingLive ==
    \A r \in Runtimes, s \in Shims :
        pc[s] \in {"start_remove", "stop_remove"} => rt[r] \notin Owning

\* From the write of its descriptor on, a runtime is described.
OwnerIsDescribed ==
    \A r \in Runtimes : rt[r] \in {"described", "serving", "draining"} => desc = r

Calm == OneCommand /\ StartIsAwaited /\ RemovesNothingLive /\ OwnerIsDescribed

ReachInv == OwnInv /\ LockHeld /\ StopLabels /\ (overlap = "never" => Calm)

\* Initially no command is under way.
LEMMA ReachInit == Init => ReachInv
<1> SUFFICES ASSUME Init PROVE ReachInv
  OBVIOUS
<1>1. OwnInv
  BY OwnInit
<1>2. LockHeld /\ StopLabels /\ Calm
  BY DEF Init, LockHeld, StopLabels, Calm, OneCommand, StartIsAwaited, RemovesNothingLive,
         OwnerIsDescribed, At, Starting, Harmless
<1> QED
  BY <1>1, <1>2 DEF ReachInv

\* The lock is held by an owner after every step.
LEMMA LockStaysHeld ==
    ASSUME OwnInv, LockHeld, Next
    PROVE  LockHeld'
<1> USE LifecycleAssumption DEF OwnInv, TypeOK, ServerOwnsRoot, LockHeld, Owning, Become
<1>1. ASSUME NEW r \in Runtimes, Runtime(r) PROVE LockHeld'
  BY <1>1 DEF Runtime, AcquireLock, RemoveStaleDescriptor, WriteDescriptor,
              WriteDescriptorFails, Bind, BindFails, PortsExhausted, ServeReturns,
              RuntimeEnds, Alive
<1>2. ASSUME NEW s \in Shims, Shim(s) PROVE LockHeld'
  <2>1. ASSUME NEW r \in Runtimes, Launch(s, r) PROVE LockHeld'
    BY <2>1 DEF Launch
  <2>2. CASE Kill(s)
    BY <2>2 DEF Kill
  <2>3. CASE UNCHANGED <<rt, lock>>
    BY <2>3
  <2> QED
    BY <1>2, <2>1, <2>2, <2>3
       DEF Shim, StartRead, StartCheck, StartRemove, StartFails, WaitRead, WaitProbe,
           WaitTimesOut, Started, StopRead, StopCheck, AwaitEnd, AwaitTimesOut,
           StopRemove, EnsureRuntime, SendRead, Send, runtimeVars
<1>3. ASSUME NEW s \in Shims, NEW c \in {"start", "stop", "submit", "deliver"},
             Begin(s, c)
      PROVE  LockHeld'
  BY <1>3 DEF Begin, runtimeVars
<1> QED
  BY <1>1, <1>2, <1>3 DEF Next

\* A stop stays among its own labels.
LEMMA StopStays ==
    ASSUME OwnInv, StopLabels, Next
    PROVE  StopLabels'
<1> USE DEF OwnInv, TypeOK, StopLabels
<1>1. ASSUME NEW r \in Runtimes, Runtime(r) PROVE UNCHANGED <<pc, cmd>>
  BY <1>1 DEF Runtime, AcquireLock, RemoveStaleDescriptor, WriteDescriptor,
              WriteDescriptorFails, Bind, BindFails, PortsExhausted, ServeReturns,
              RuntimeEnds, shimVars
<1>2. ASSUME NEW s \in Shims, Shim(s) PROVE StopLabels'
  BY <1>2 DEF Shim, StartRead, StartCheck, StartRemove, Launch, StartFails, WaitRead,
         WaitProbe, WaitTimesOut, Started, StopRead, StopCheck, Kill, AwaitEnd,
         AwaitTimesOut, StopRemove, EnsureRuntime, SendRead, Send, At, Goto, Return
<1>3. ASSUME NEW s \in Shims, NEW c \in {"start", "stop", "submit", "deliver"},
             Begin(s, c)
      PROVE  StopLabels'
  BY <1>3 DEF Begin
<1> QED
  BY <1>1, <1>2, <1>3 DEF Next

\* A step of a runtime disturbs no command.
LEMMA RuntimeKeepsCalm ==
    ASSUME OwnInv, Calm, NEW r \in Runtimes, Runtime(r)
    PROVE  Calm'
<1> USE LifecycleAssumption DEF OwnInv, TypeOK, ServerOwnsRoot, Owning, Become, Calm,
        shimVars, Starting, Harmless
<1>1. OneCommand'
  BY DEF Runtime, AcquireLock, RemoveStaleDescriptor, WriteDescriptor,
         WriteDescriptorFails, Bind, BindFails, PortsExhausted, ServeReturns,
         RuntimeEnds, OneCommand, At
<1>2. StartIsAwaited'
  BY DEF Runtime, AcquireLock, RemoveStaleDescriptor, WriteDescriptor,
         WriteDescriptorFails, Bind, BindFails, PortsExhausted, ServeReturns,
         RuntimeEnds, StartIsAwaited
<1>3. RemovesNothingLive'
  BY DEF Runtime, AcquireLock, RemoveStaleDescriptor, WriteDescriptor,
         WriteDescriptorFails, Bind, BindFails, PortsExhausted, ServeReturns, RuntimeEnds,
         RemovesNothingLive, StartIsAwaited
<1>4. OwnerIsDescribed'
  BY DEF Runtime, AcquireLock, RemoveStaleDescriptor, WriteDescriptor,
         WriteDescriptorFails, Bind, BindFails, PortsExhausted, ServeReturns, RuntimeEnds,
         OwnerIsDescribed
<1> QED
  BY <1>1, <1>2, <1>3, <1>4

\* The command under way checks before it removes, and launches only when it
\* found no runtime.
LEMMA ShimKeepsCalm ==
    ASSUME OwnInv, Calm, NEW s \in Shims, Shim(s)
    PROVE  Calm'
<1> USE LifecycleAssumption DEF Calm, runtimeVars, Harmless
<1>1. \E label \in Labels : pc' = [pc EXCEPT ![s] = label]
  BY DEF Shim, StartRead, StartCheck, StartRemove, Launch, StartFails, WaitRead,
         WaitProbe, WaitTimesOut, Started, StopRead, StopCheck, Kill, AwaitEnd,
         AwaitTimesOut, StopRemove, EnsureRuntime, SendRead, Send, Goto, Return, Labels
<1>2. pc[s] # "idle"
  BY DEF Shim, StartRead, StartCheck, StartRemove, Launch, StartFails, WaitRead,
         WaitProbe, WaitTimesOut, Started, StopRead, StopCheck, Kill, AwaitEnd,
         AwaitTimesOut, StopRemove, EnsureRuntime, SendRead, Send, At
<1>3. /\ pc \in [Shims -> Labels]
      /\ rt \in [Runtimes -> Owning \cup {"none", "booting", "leaving", "gone"}]
  BY DEF OwnInv, TypeOK
<1>4. \A t \in Shims : t # s => pc[t] = "idle" /\ pc'[t] = "idle"
  BY <1>1, <1>2, <1>3 DEF OneCommand, At
<1>5. OneCommand'
  BY <1>4 DEF OneCommand, At
<1>6. ASSUME UNCHANGED runtimeVars,
             pc'[s] \notin {"start_remove", "stop_remove"},
             \/ pc'[s] \in Harmless
             \/ pc[s] \notin Harmless
      PROVE  Calm'
  BY <1>1, <1>3, <1>4, <1>5, <1>6
     DEF StartIsAwaited, RemovesNothingLive, OwnerIsDescribed
<1>7. ASSUME UNCHANGED runtimeVars, Stale,
             pc[s] \notin Harmless
      PROVE  Calm'
  <2>1. \A r \in Runtimes : rt[r] \notin Owning
    BY <1>3, <1>7 DEF StartIsAwaited, OwnerIsDescribed, Stale, Alive, Owning, Starting
  <2> QED
    BY <1>1, <1>3, <1>4, <1>5, <1>7, <2>1
       DEF StartIsAwaited, RemovesNothingLive, OwnerIsDescribed
<1>8. CASE StartRemove(s) \/ StopRemove(s)
  BY <1>3, <1>4, <1>5, <1>8
     DEF StartRemove, StopRemove, StartIsAwaited, RemovesNothingLive,
         OwnerIsDescribed, At, Goto, Return, Owning, Starting
<1>9. ASSUME NEW r \in Runtimes, Launch(s, r) PROVE Calm'
  BY <1>3, <1>4, <1>5, <1>9
     DEF Launch, StartIsAwaited, RemovesNothingLive, OwnerIsDescribed, At, Goto,
         Become, Owning, Starting
<1>10. CASE Kill(s)
  BY <1>3, <1>4, <1>5, <1>10
     DEF Kill, StartIsAwaited, RemovesNothingLive, OwnerIsDescribed, At, Goto,
         Become, Owning, Starting
<1>11. CASE StartRead(s) \/ StartFails(s) \/ WaitRead(s) \/ WaitProbe(s)
            \/ WaitTimesOut(s) \/ Started(s) \/ StopRead(s) \/ EnsureRuntime(s)
            \/ SendRead(s) \/ Send(s)
  BY <1>3, <1>6, <1>11
     DEF StartRead, StartFails, WaitRead, WaitProbe, WaitTimesOut, Started, StopRead,
         EnsureRuntime, SendRead, Send, At, Goto, Return
<1>12. CASE StartCheck(s) \/ StopCheck(s) \/ AwaitEnd(s) \/ AwaitTimesOut(s)
  BY <1>3, <1>6, <1>7, <1>12
     DEF StartCheck, StopCheck, AwaitEnd, AwaitTimesOut, At, Goto, Return
<1> QED
  BY <1>8, <1>9, <1>10, <1>11, <1>12 DEF Shim

\* A command begins while no other is under way and no runtime starts, or
\* makes an overlap.
LEMMA BeginKeepsCalm ==
    ASSUME OwnInv, Calm, NEW s \in Shims,
           NEW c \in {"start", "stop", "submit", "deliver"}, Begin(s, c),
           overlap' = "never"
    PROVE  Calm'
<1>1. /\ \A t \in Shims : pc[t] = "idle"
      /\ \A r \in Runtimes : rt[r] \notin Starting
  BY DEF Begin, At
<1>2. /\ \A t \in Shims : t # s => pc'[t] = "idle"
      /\ pc'[s] \notin {"start_remove", "stop_remove"}
  BY <1>1 DEF Begin, OwnInv, TypeOK
<1> QED
  BY <1>1, <1>2 DEF Begin, Calm, OneCommand, StartIsAwaited, RemovesNothingLive,
                    OwnerIsDescribed, At, runtimeVars

\* A step never undoes an overlap.
LEMMA OverlapIsKept ==
    ASSUME OwnInv, Next, overlap' = "never"
    PROVE  overlap = "never"
<1>1. ASSUME NEW r \in Runtimes, Runtime(r) PROVE overlap' = overlap
  BY <1>1 DEF Runtime, AcquireLock, RemoveStaleDescriptor, WriteDescriptor,
              WriteDescriptorFails, Bind, BindFails, PortsExhausted, ServeReturns,
              RuntimeEnds, shimVars
<1>2. ASSUME NEW s \in Shims, Shim(s) PROVE overlap' = overlap
  BY <1>2 DEF Shim, StartRead, StartCheck, StartRemove, Launch, StartFails, WaitRead,
         WaitProbe, WaitTimesOut, Started, StopRead, StopCheck, Kill, AwaitEnd,
         AwaitTimesOut, StopRemove, EnsureRuntime, SendRead, Send, Goto, Return
<1>3. ASSUME NEW s \in Shims, NEW c \in {"start", "stop", "submit", "deliver"},
             Begin(s, c)
      PROVE  overlap = "never"
  BY <1>3 DEF Begin
<1> QED
  BY <1>1, <1>2, <1>3 DEF Next

\* The inductive invariant holds in every reachable state.
LEMMA ReachAlways == Spec => []ReachInv
<1>1. ReachInv /\ [Next]_vars => ReachInv'
  <2> SUFFICES ASSUME ReachInv, [Next]_vars PROVE ReachInv'
    OBVIOUS
  <2>1. CASE Next
    <3>1. OwnInv'
      BY <2>1, OwnStep DEF ReachInv
    <3>2. LockHeld' /\ StopLabels'
      BY <2>1, LockStaysHeld, StopStays DEF ReachInv
    <3>3. ASSUME overlap' = "never" PROVE Calm'
      BY <2>1, <3>3, OverlapIsKept, RuntimeKeepsCalm, ShimKeepsCalm, BeginKeepsCalm
         DEF Next, ReachInv
    <3> QED
      BY <3>1, <3>2, <3>3 DEF ReachInv
  <2>2. CASE UNCHANGED vars
    BY <2>2 DEF vars, ReachInv, OwnInv, TypeOK, ServerOwnsRoot, LockHeld, StopLabels,
                Calm, OneCommand, StartIsAwaited, RemovesNothingLive, OwnerIsDescribed, At
  <2> QED
    BY <2>1, <2>2
<1> QED
  BY <1>1, ReachInit, PTL DEF Spec

\* While commands do not overlap, the runtime that serves is the one the
\* descriptor names (start_command, stop_command and _serve).
THEOREM Reachable == Spec => []ServerIsReachable
<1>1. ReachInv => ServerIsReachable
  BY DEF ReachInv, ServerIsReachable, Calm, OwnerIsDescribed
<1> QED
  BY <1>1, ReachAlways, PTL

\* While commands do not overlap, a stop that reports RUNTIME_STOPPED leaves
\* the state-root lock free (stop_command).
THEOREM StopFrees == Spec => StopFreesRoot
<1>1. ReachInv /\ [Next]_vars =>
        [\A s \in Shims :
            (/\ overlap = "never" /\ cmd[s] = "stop"
             /\ result[s] = "none" /\ result'[s] = "ok")
                => lock = None]_vars
  <2> SUFFICES ASSUME ReachInv, Next, NEW s \in Shims, overlap = "never",
                      cmd[s] = "stop", result[s] = "none", result'[s] = "ok"
               PROVE  lock = None
    BY DEF vars
  <2>1. Calm /\ OwnInv /\ LockHeld /\ StopLabels
    BY DEF ReachInv
  <2>2. PICK t \in Shims : Shim(t)
    <3>1. ASSUME NEW r \in Runtimes, Runtime(r) PROVE result' = result
      BY <3>1 DEF Runtime, AcquireLock, RemoveStaleDescriptor, WriteDescriptor,
              WriteDescriptorFails, Bind, BindFails, PortsExhausted, ServeReturns,
              RuntimeEnds, shimVars
    <3>2. ASSUME NEW t \in Shims, NEW c \in {"start", "stop", "submit", "deliver"},
                 Begin(t, c)
          PROVE  result'[s] \in {"none", result[s]}
      BY <2>1, <3>2 DEF Begin, OwnInv, TypeOK
    <3> QED
      BY <3>1, <3>2 DEF Next
  <2>3. (StopRead(s) /\ desc = None) \/ StopRemove(s)
    <3>1. \E outcome : result' = [result EXCEPT ![t] = outcome] \/ result' = result
      BY <2>2 DEF Shim, StartRead, StartCheck, StartRemove, Launch, StartFails,
         WaitRead, WaitProbe, WaitTimesOut, Started, StopRead, StopCheck, Kill, AwaitEnd,
         AwaitTimesOut, StopRemove, EnsureRuntime, SendRead, Send, Goto, Return
    <3>2. t = s
      BY <2>1, <3>1 DEF OwnInv, TypeOK
    <3>3. pc[s] \in {"idle", "stop", "stop_check", "kill", "await", "stop_remove"}
      BY <2>1 DEF StopLabels
    <3> QED
      BY <2>1, <2>2, <3>2, <3>3
         DEF Shim, StartRead, StartCheck, StartRemove, Launch, StartFails, WaitRead,
             WaitProbe, WaitTimesOut, Started, StopRead, StopCheck, Kill, AwaitEnd,
             AwaitTimesOut, StopRemove, EnsureRuntime, SendRead, Send, At, Goto, Return,
             OwnInv, TypeOK
  <2>4. \A r \in Runtimes : rt[r] \notin Owning
    BY <2>1, <2>3, LifecycleAssumption
       DEF StopRead, StopRemove, At, Calm, StartIsAwaited, RemovesNothingLive,
           OwnerIsDescribed, Owning, Starting, Harmless
  <2> QED
    BY <2>1, <2>4 DEF LockHeld, OwnInv, TypeOK
<1> QED
  BY <1>1, ReachAlways, PTL DEF Spec, StopFreesRoot

=============================================================================
