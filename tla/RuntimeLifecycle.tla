-------------------------- MODULE RuntimeLifecycle --------------------------
(***************************************************************************)
(* Managed runtimes (transport/_main.py) and the shim commands that start, *)
(* stop and use them (hermes_shim/_lifecycle.py), on one state root.       *)
(*                                                                         *)
(* They meet in two files.  The singleton lock is an operating-system lock *)
(* that ends with its process.  The descriptor names a runtime: pid and    *)
(* start marker, port and token, which here are all the runtime itself.    *)
(* A shim reads the descriptor, asks whether its process lives and removes *)
(* the file in separate steps, and several shims may be at it at once.     *)
(*                                                                         *)
(* Processes are not reused: the start marker tells a reused pid apart.    *)
(***************************************************************************)
EXTENDS Integers

CONSTANTS
    Runtimes,     \* processes that can be launched (a bound)
    Shims,        \* commands that may run at once (a bound)
    None,         \* no runtime
    MaxAttempts   \* MAX_PORT_ATTEMPTS

ASSUME LifecycleAssumption ==
    MaxAttempts \in Nat \ {0} /\ None \notin Runtimes

VARIABLES
    rt,       \* runtime -> how far it is
    tries,    \* runtime -> binding attempts it has made
    lock,     \* the runtime that holds the state-root lock, or None
    desc,     \* the runtime the descriptor file names, or None
    pc,       \* shim -> what it does next
    cmd,      \* shim -> its command, the latest one when it is idle
    doc,      \* shim -> the descriptor it read
    result,   \* shim -> how its latest command ended
    overlap   \* whether a command ever began while another command or the
              \* start of a runtime was under way (history)

runtimeVars == <<rt, tries, lock, desc>>
shimVars == <<pc, cmd, doc, result, overlap>>
vars == <<rt, tries, lock, desc, pc, cmd, doc, result, overlap>>

Owning == {"locked", "binding", "described", "serving", "draining", "ending"}
Starting == {"booting", "locked", "binding", "described", "ending"}
Labels == {"idle", "start", "start_check", "start_remove", "launch", "wait_read",
           "wait_probe", "started", "join_read", "join_probe", "joined", "stop",
           "stop_check", "kill", "await", "stop_remove", "ensure", "send_read", "send"}

TypeOK ==
    /\ rt \in [Runtimes -> Owning \cup {"none", "booting", "leaving", "gone"}]
    /\ tries \in [Runtimes -> 0..MaxAttempts]
    /\ lock \in Runtimes \cup {None} /\ desc \in Runtimes \cup {None}
    /\ pc \in [Shims -> Labels]
    /\ cmd \in [Shims -> {"none", "start", "stop", "submit", "deliver"}]
    /\ doc \in [Shims -> Runtimes \cup {None}]
    /\ result \in [Shims -> {"none", "ok", "failed"}]
    /\ overlap \in {"never", "once"}

Init ==
    /\ rt = [r \in Runtimes |-> "none"]
    /\ tries = [r \in Runtimes |-> 0]
    /\ lock = None /\ desc = None
    /\ pc = [s \in Shims |-> "idle"]
    /\ cmd = [s \in Shims |-> "none"]
    /\ doc = [s \in Shims |-> None]
    /\ result = [s \in Shims |-> "none"]
    /\ overlap = "never"

\* process_matches_identity, for what a descriptor can name.
Alive(r) == r # None /\ rt[r] \notin {"none", "gone"}

\* is_stale: the descriptor is absent or names no live process.
Stale == ~Alive(desc)

-----------------------------------------------------------------------------
(* A managed runtime: main and _serve *)

Become(r, stage) == rt' = [rt EXCEPT ![r] = stage]

\* Mutant of AcquireLock: a lock that is held is taken over.
AcquireLockAnyway(r) ==
    /\ rt[r] = "booting" /\ lock' = r /\ Become(r, "locked")
    /\ UNCHANGED <<tries, desc, shimVars>>

\* A second runtime fails closed: it exits without touching the descriptor.
AcquireLock(r) ==
    /\ rt[r] = "booting"
    /\ IF lock = None THEN lock' = r /\ Become(r, "locked")
       ELSE Become(r, "gone") /\ UNCHANGED lock
    /\ UNCHANGED <<tries, desc, shimVars>>

\* _remove_stale_descriptor, under the lock.
RemoveStaleDescriptor(r) ==
    /\ rt[r] = "locked"
    /\ Become(r, "binding")
    /\ desc' = IF Stale THEN None ELSE desc
    /\ UNCHANGED <<tries, lock, shimVars>>

\* Mutant of WriteDescriptor: the attempts are not counted against the limit.
WriteDescriptorAgain(r) ==
    /\ rt[r] = "binding"
    /\ Become(r, "described")
    /\ tries' = [tries EXCEPT ![r] = @ + 1]
    /\ desc' = r
    /\ UNCHANGED <<lock, shimVars>>

\* Each attempt probes a port and writes the descriptor before uvicorn binds.
WriteDescriptor(r) ==
    /\ rt[r] = "binding" /\ tries[r] < MaxAttempts
    /\ Become(r, "described")
    /\ tries' = [tries EXCEPT ![r] = @ + 1]
    /\ desc' = r
    /\ UNCHANGED <<lock, shimVars>>

\* The file cannot be written: it is removed, and the runtime gives up.
WriteDescriptorFails(r) ==
    /\ rt[r] = "binding" /\ tries[r] < MaxAttempts
    /\ Become(r, "ending") /\ desc' = None
    /\ UNCHANGED <<tries, lock, shimVars>>

Bind(r) ==
    /\ rt[r] = "described"
    /\ Become(r, "serving")
    /\ UNCHANGED <<tries, lock, desc, shimVars>>

\* The port is taken: the descriptor is removed and another port tried.
BindFails(r) ==
    /\ rt[r] = "described"
    /\ Become(r, "binding") /\ desc' = None
    /\ UNCHANGED <<tries, lock, shimVars>>

\* After MAX_PORT_ATTEMPTS collisions the runtime gives up.
PortsExhausted(r) ==
    /\ rt[r] = "binding" /\ tries[r] = MaxAttempts
    /\ Become(r, "ending")
    /\ UNCHANGED <<tries, lock, desc, shimVars>>

\* _serve returns, by itself or after a signal and its last request: the
\* lock is released, the descriptor stays.
ServeReturns(r) ==
    /\ rt[r] \in {"serving", "draining", "ending"}
    /\ Become(r, "leaving")
    /\ lock' = None
    /\ UNCHANGED <<tries, desc, shimVars>>

\* The process ends, after its release, on a signal, on an exit that _serve
\* does not take for a collision, or by a crash at any point; the operating
\* system drops its lock.
RuntimeEnds(r) ==
    /\ Alive(r)
    /\ Become(r, "gone")
    /\ lock' = IF lock = r THEN None ELSE lock
    /\ UNCHANGED <<tries, desc, shimVars>>

Runtime(r) ==
    \/ AcquireLock(r) \/ RemoveStaleDescriptor(r)
    \/ WriteDescriptor(r) \/ WriteDescriptorFails(r) \/ Bind(r) \/ BindFails(r)
    \/ PortsExhausted(r) \/ ServeReturns(r) \/ RuntimeEnds(r)

-----------------------------------------------------------------------------
(* Shim commands *)

At(s, label) == pc[s] = label
Goto(s, label) == pc' = [pc EXCEPT ![s] = label] /\ UNCHANGED <<cmd, result, overlap>>
Return(s, outcome) ==
    /\ pc' = [pc EXCEPT ![s] = "idle"]
    /\ result' = [result EXCEPT ![s] = outcome]
    /\ UNCHANGED <<cmd, overlap>>
ReadDescriptor(s) == doc' = [doc EXCEPT ![s] = desc]

\* submit stands for the commands that begin with _ensure_runtime (submit,
\* read, approve, retry), deliver for those that do not (deliver, admin).
Begin(s, c) ==
    /\ At(s, "idle")
    /\ pc' = [pc EXCEPT ![s] = CASE c = "submit" -> "ensure"
                                 [] c = "deliver" -> "send_read" [] OTHER -> c]
    /\ cmd' = [cmd EXCEPT ![s] = c]
    /\ result' = [result EXCEPT ![s] = "none"]
    /\ doc' = [doc EXCEPT ![s] = None]
    /\ overlap' = IF \/ \E t \in Shims : ~At(t, "idle")
                     \/ \E r \in Runtimes : rt[r] \in Starting
                  THEN "once" ELSE overlap
    /\ UNCHANGED runtimeVars

StartRead(s) ==
    /\ At(s, "start")
    /\ ReadDescriptor(s)
    /\ Goto(s, IF desc = None THEN "launch" ELSE "start_check")
    /\ UNCHANGED runtimeVars

\* Mutant of StartCheck: the descriptor is removed whatever it names.
StartCheckNothing(s) ==
    At(s, "start_check") /\ Goto(s, "start_remove") /\ UNCHANGED <<doc, runtimeVars>>

\* A described live runtime is waited for, a stale descriptor removed.
StartCheck(s) ==
    /\ At(s, "start_check")
    /\ Goto(s, IF Stale THEN "start_remove" ELSE "join_read")
    /\ UNCHANGED <<doc, runtimeVars>>

\* remove_descriptor unlinks the file that is there by now.
StartRemove(s) ==
    /\ At(s, "start_remove")
    /\ desc' = None
    /\ Goto(s, "launch")
    /\ UNCHANGED <<doc, rt, tries, lock>>

Launch(s, r) ==
    /\ At(s, "launch") /\ rt[r] = "none"
    /\ Become(r, "booting")
    /\ Goto(s, "wait_read")
    /\ UNCHANGED <<doc, tries, lock, desc>>

\* The state root cannot be laid out, the environment not provisioned, or the
\* process not started.
StartFails(s) ==
    /\ At(s, "start") \/ At(s, "launch")
    /\ Return(s, "failed")
    /\ UNCHANGED <<doc, runtimeVars>>

\* _wait_for_ready polls the descriptor and then /readyz, for the runtime that
\* was launched or for the live one that was found.
WaitRead(s) ==
    /\ At(s, "wait_read") \/ At(s, "join_read")
    /\ desc # None
    /\ ReadDescriptor(s)
    /\ Goto(s, IF At(s, "wait_read") THEN "wait_probe" ELSE "join_probe")
    /\ UNCHANGED runtimeVars

WaitProbe(s) ==
    /\ At(s, "wait_probe") \/ At(s, "join_probe")
    /\ LET ready == ~Stale /\ rt[doc[s]] = "serving"
       IN  Goto(s, IF At(s, "wait_probe")
                   THEN IF ready THEN "started" ELSE "wait_read"
                   ELSE IF ready THEN "joined" ELSE "join_read")
    /\ UNCHANGED <<doc, runtimeVars>>

WaitTimesOut(s) ==
    /\ At(s, "wait_read") \/ At(s, "join_read")
    /\ Return(s, "failed")
    /\ UNCHANGED <<doc, runtimeVars>>

\* A start that launched a runtime succeeds when there is a descriptor to show,
\* one that found a runtime at once; a command that needed it goes on.
Started(s) ==
    /\ At(s, "started") \/ At(s, "joined")
    /\ IF At(s, "started") /\ desc = None THEN Return(s, "failed")
       ELSE IF cmd[s] = "submit" THEN Goto(s, "send_read") ELSE Return(s, "ok")
    /\ UNCHANGED <<doc, runtimeVars>>

StopRead(s) ==
    /\ At(s, "stop")
    /\ ReadDescriptor(s)
    /\ IF desc = None THEN Return(s, "ok") ELSE Goto(s, "stop_check")
    /\ UNCHANGED runtimeVars

StopCheck(s) ==
    /\ At(s, "stop_check")
    /\ Goto(s, IF Stale THEN "stop_remove" ELSE "kill")
    /\ UNCHANGED <<doc, runtimeVars>>

\* SIGTERM for the pid that was read: uvicorn finishes its request, at any
\* other point the process ends.
Kill(s) ==
    /\ At(s, "kill")
    /\ LET r == doc[s]
       IN  IF rt[r] \in {"serving", "draining"}
           THEN Become(r, "draining") /\ UNCHANGED lock
           ELSE /\ Become(r, "gone")
                /\ lock' = IF lock = r THEN None ELSE lock
    /\ Goto(s, "await")
    /\ UNCHANGED <<doc, tries, desc>>

\* Mutant of AwaitEnd: the signal is taken for the end of the process.
AwaitNothing(s) ==
    /\ At(s, "await")
    /\ Goto(s, "stop_remove")
    /\ UNCHANGED <<doc, runtimeVars>>

AwaitEnd(s) ==
    /\ At(s, "await") /\ Stale
    /\ Goto(s, "stop_remove")
    /\ UNCHANGED <<doc, runtimeVars>>

\* Not stale after a round: another signal, and after four rounds failure.
AwaitTimesOut(s) ==
    /\ At(s, "await") /\ ~Stale
    /\ Goto(s, "kill") \/ Return(s, "failed")
    /\ UNCHANGED <<doc, runtimeVars>>

StopRemove(s) ==
    /\ At(s, "stop_remove")
    /\ desc' = None
    /\ Return(s, "ok")
    /\ UNCHANGED <<doc, rt, tries, lock>>

EnsureRuntime(s) ==
    /\ At(s, "ensure")
    /\ \/ Goto(s, IF Stale THEN "start" ELSE "send_read")
       \/ Stale /\ Return(s, "failed")   \* no plugin to start it from
    /\ UNCHANGED <<doc, runtimeVars>>

SendRead(s) ==
    /\ At(s, "send_read")
    /\ ReadDescriptor(s)
    /\ IF Stale THEN Return(s, "failed") ELSE Goto(s, "send")
    /\ UNCHANGED runtimeVars

\* The runtime that was read answers if it still serves.
Send(s) ==
    /\ At(s, "send")
    /\ Return(s, IF rt[doc[s]] = "serving" THEN "ok" ELSE "failed")
    /\ UNCHANGED <<doc, runtimeVars>>

Shim(s) ==
    \/ StartRead(s) \/ StartCheck(s) \/ StartRemove(s)
    \/ (\E r \in Runtimes : Launch(s, r)) \/ StartFails(s)
    \/ WaitRead(s) \/ WaitProbe(s) \/ WaitTimesOut(s) \/ Started(s)
    \/ StopRead(s) \/ StopCheck(s) \/ Kill(s)
    \/ AwaitEnd(s) \/ AwaitTimesOut(s) \/ StopRemove(s)
    \/ EnsureRuntime(s) \/ SendRead(s) \/ Send(s)

Next ==
    \/ \E r \in Runtimes : Runtime(r)
    \/ \E s \in Shims : Shim(s)
    \/ \E s \in Shims, c \in {"start", "stop", "submit", "deliver"} : Begin(s, c)

Spec == Init /\ [][Next]_vars

-----------------------------------------------------------------------------
\* Only the holder of the lock serves, with a bridge on the database, and the
\* descriptor never sends a client to another runtime than the one serving.
ServerOwnsRoot ==
    \A r \in Runtimes :
        /\ rt[r] \in Owning => lock = r
        /\ rt[r] \in {"described", "serving", "draining"} => desc \in {r, None}

\* As long as commands did not overlap, a runtime that serves can be reached:
\* the descriptor names it, through crashes, failed binds and restarts.
ServerIsReachable ==
    overlap = "never" =>
        \A r \in Runtimes : rt[r] = "serving" => desc = r

\* As long as commands did not overlap, a stop that reports success leaves no
\* runtime on the state root.
StopFreesRoot ==
    [][\A s \in Shims :
          (/\ overlap = "never" /\ cmd[s] = "stop"
           /\ result[s] = "none" /\ result'[s] = "ok")
              => lock = None]_vars

\* A live matching process means the descriptor is never removed: only the
\* runtime it names, or its successor, changes it.
LiveDescriptorKept ==
    [][Alive(desc) /\ desc' = None => rt' # rt]_vars

=============================================================================
