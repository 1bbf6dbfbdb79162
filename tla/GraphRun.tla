--------------------------------- MODULE GraphRun ---------------------------------
(***************************************************************************)
(* GraphStageExecutor and the counter spike's graph: LangGraph nodes over  *)
(* a checkpoint database that is not the controller's.  invoke() with      *)
(* durability "sync" saves a checkpoint after each node; a node that       *)
(* interrupts ends the call and runs again when the run is resumed.        *)
(*                                                                         *)
(* The stage graph is gate, submit; the spike's is submit, confirm, both   *)
(* of which submit the same stable command.  A crash may fall between the  *)
(* controller's commit and the checkpoint that would record it.            *)
(***************************************************************************)
EXTENDS Integers, Sequences, FiniteSets

CONSTANTS GraphExecutors,   \* processes with an executor on the same checkpoints
          StageRuns,        \* run ids of GraphStageExecutor, for one pipeline
          SpikeRuns,        \* thread ids of the spike's graph
          GraphCalls        \* bound on start, resume and cancel

VARIABLES graphSaved,       \* the last checkpoint of each run
          graphCall,        \* the call each executor is in
          graphCancelled,   \* GraphStageExecutor._cancelled of each process
          graphAccepted,    \* the commands each graph's controller accepted
          graphCalls,       \* calls so far
          graphResumed,     \* history: runs someone resumed
          graphOverlap      \* history: commands two processes were submitting at once

graphVars == <<graphSaved, graphCall, graphCancelled, graphAccepted, graphCalls,
               graphResumed, graphOverlap>>

GraphRuns == StageRuns \cup SpikeRuns
Nodes(r) == IF r \in StageRuns THEN <<"gate", "submit">> ELSE <<"submit", "confirm">>
Interrupts(node) == node \in {"gate", "confirm"}
Submits(node) == node \in {"submit", "confirm"}

\* command_id_for: one command per run; the spike has one for all its runs.
CommandOf(r) == IF r \in StageRuns THEN r ELSE "cmd_spike"
GraphOf(r) == IF r \in StageRuns THEN "stage" ELSE "spike"

NoCheckpoint == [next |-> 0, receipt |-> "none"]
NoCall == [run |-> "none", at |-> 0, resume |-> FALSE, step |-> "none", receipt |-> "none"]

GraphInit ==
    /\ graphSaved = [r \in GraphRuns |-> NoCheckpoint]
    /\ graphCall = [e \in GraphExecutors |-> NoCall]
    /\ graphCancelled = [e \in GraphExecutors |-> {}]
    /\ graphAccepted = [g \in {"stage", "spike"} |-> {}]
    /\ graphCalls = 0
    /\ graphResumed = {}
    /\ graphOverlap = {}

\* _status, from the cancelled set and the checkpoint's values.
StatusOf(e, r) ==
    IF r \in graphCancelled[e] THEN "CANCELLED"
    ELSE IF graphSaved[r].receipt # "none" THEN "COMPLETED"
    ELSE IF graphSaved[r].next # 0 THEN "PENDING"
    ELSE "UNSUPPORTED"

GraphIdle(e) == graphCall[e] = NoCall /\ graphCalls < GraphCalls
                                      /\ graphCalls' = graphCalls + 1

\* invoke with an input: the input is checkpointed before the first node runs.
InvokeInput(e, r) ==
    /\ graphSaved' = [graphSaved EXCEPT ![r].next = 1]
    /\ graphCall' = [graphCall EXCEPT ![e] = [NoCall EXCEPT !.run = r, !.at = 1,
                                         !.step = "enter", !.receipt = graphSaved[r].receipt]]

\* start: a known run is only reported.  The spike's run_graph asks no status.
\* The checkpoints of one database are of one graph.
GraphStart(e, r) ==
    /\ GraphIdle(e)
    /\ \A q \in GraphRuns : graphSaved[q] # NoCheckpoint => GraphOf(q) = GraphOf(r)
    /\ r \in SpikeRuns \/ StatusOf(e, r) = "UNSUPPORTED"
    /\ InvokeInput(e, r)
    /\ UNCHANGED <<graphCancelled, graphAccepted, graphResumed, graphOverlap>>

\* resume of a completed stage run invokes it from the start: it stops at the
\* gate with its receipt still in its values.
GraphResume(e, r) ==
    /\ GraphIdle(e)
    /\ r \in StageRuns => StatusOf(e, r) \in {"PENDING", "COMPLETED"}
    /\ r \in SpikeRuns => graphSaved[r].next \in 1 .. Len(Nodes(r))
    /\ IF r \in StageRuns /\ StatusOf(e, r) = "COMPLETED"
       THEN InvokeInput(e, r) /\ UNCHANGED graphResumed
       ELSE /\ graphCall' = [graphCall EXCEPT ![e] =
                   [NoCall EXCEPT !.run = r, !.at = graphSaved[r].next, !.resume = TRUE,
                                  !.step = "enter", !.receipt = graphSaved[r].receipt]]
            /\ graphResumed' = graphResumed \cup {r}
            /\ UNCHANGED graphSaved
    /\ UNCHANGED <<graphCancelled, graphAccepted, graphOverlap>>

GraphCancel(e, r) ==
    /\ r \in StageRuns
    /\ graphCalls < GraphCalls
    /\ graphCalls' = graphCalls + 1
    /\ graphCancelled' = [graphCancelled EXCEPT ![e] = @ \cup {r}]
    /\ UNCHANGED <<graphSaved, graphCall, graphAccepted, graphResumed, graphOverlap>>

CallNode(e) == Nodes(graphCall[e].run)[graphCall[e].at]
CallCommand(e) == CommandOf(graphCall[e].run)
AcceptedBefore(e) == graphAccepted[GraphOf(graphCall[e].run)]

\* The node returns: a submission's receipt goes into the run's values.
NodeReturns(e, receipt) ==
    graphCall' = [graphCall EXCEPT ![e] =
                     [@ EXCEPT !.step = "done", !.receipt = receipt,
                               !.resume = @ /\ ~Interrupts(CallNode(e))]]

\* A node that interrupts ends the call; a resumed gate only returns.
EnterNode(e) ==
    /\ graphCall[e].step = "enter"
    /\ Interrupts(CallNode(e))
    /\ \/ /\ ~graphCall[e].resume
          /\ graphCall' = [graphCall EXCEPT ![e] = NoCall]
       \/ /\ graphCall[e].resume
          /\ ~Submits(CallNode(e))
          /\ NodeReturns(e, graphCall[e].receipt)
    /\ UNCHANGED <<graphSaved, graphCancelled, graphAccepted, graphCalls, graphResumed,
                   graphOverlap>>

Submitting(e) ==
    /\ graphCall[e].step = "enter"
    /\ Submits(CallNode(e))
    /\ Interrupts(CallNode(e)) => graphCall[e].resume

\* Mutant of KnownCommand: a command submitted before is not recognised.
NeverKnown(e) == FALSE

\* find_inbox, find_command: the command has a receipt to answer with.
KnownCommand(e) == CallCommand(e) \in AcceptedBefore(e)

\* controller.submit, first step: a known command is answered by its receipt.
FindInbox(e) ==
    /\ Submitting(e)
    /\ IF KnownCommand(e)
       THEN NodeReturns(e, "ACCEPTED") /\ UNCHANGED graphOverlap
       ELSE /\ graphCall' = [graphCall EXCEPT ![e].step = "found"]
            /\ graphOverlap' = graphOverlap \cup
                   {CallCommand(f) : f \in {f \in GraphExecutors \ {e} :
                       /\ graphCall[f].step \in {"found", "loaded"}
                       /\ CallCommand(f) = CallCommand(e)}}
    /\ UNCHANGED <<graphSaved, graphCancelled, graphAccepted, graphCalls, graphResumed>>

\* Second step: the command expects revision 0, so any accepted one is a conflict.
LoadRevision(e) ==
    /\ graphCall[e].step = "found"
    /\ IF AcceptedBefore(e) = {}
       THEN graphCall' = [graphCall EXCEPT ![e].step = "loaded"]
       ELSE NodeReturns(e, "CONFLICT")
    /\ UNCHANGED <<graphSaved, graphCancelled, graphAccepted, graphCalls, graphResumed,
                   graphOverlap>>

\* Third step: the inbox row is inserted, which fails when another submission of
\* the same command came first.  The revision is not looked at again.
CommitAccepted(e) ==
    /\ graphCall[e].step = "loaded"
    /\ IF KnownCommand(e)
       THEN NodeReturns(e, "REFUSED") /\ UNCHANGED graphAccepted
       ELSE /\ NodeReturns(e, "ACCEPTED")
            /\ graphAccepted' = [graphAccepted EXCEPT ![GraphOf(graphCall[e].run)] =
                                     @ \cup {CallCommand(e)}]
    /\ UNCHANGED <<graphSaved, graphCancelled, graphCalls, graphResumed, graphOverlap>>

\* The controller is paused, or its store fails at any of the three: a receipt all
\* the same, REJECTED or FAILED, and nothing was committed.
ControllerRefuses(e) ==
    /\ Submitting(e) \/ graphCall[e].step \in {"found", "loaded"}
    /\ NodeReturns(e, "REFUSED")
    /\ UNCHANGED <<graphSaved, graphCancelled, graphAccepted, graphCalls, graphResumed,
                   graphOverlap>>

GraphCheckpoint(e) ==
    LET call == graphCall[e] IN
    /\ call.step = "done"
    /\ graphSaved' = [graphSaved EXCEPT ![call.run] =
                         [next |-> call.at + 1, receipt |-> call.receipt]]
    /\ graphCall' = [graphCall EXCEPT ![e] =
                        IF call.at = Len(Nodes(call.run)) THEN NoCall
                        ELSE [call EXCEPT !.at = @ + 1, !.step = "enter"]]
    /\ UNCHANGED <<graphCancelled, graphAccepted, graphCalls, graphResumed, graphOverlap>>

\* The process dies; the cancelled set dies with it.
GraphDies(e) ==
    /\ graphCall[e] # NoCall \/ graphCancelled[e] # {}
    /\ graphCall' = [graphCall EXCEPT ![e] = NoCall]
    /\ graphCancelled' = [graphCancelled EXCEPT ![e] = {}]
    /\ UNCHANGED <<graphSaved, graphAccepted, graphCalls, graphResumed, graphOverlap>>

GraphNext ==
    \E e \in GraphExecutors :
        \/ \E r \in GraphRuns : GraphStart(e, r) \/ GraphResume(e, r) \/ GraphCancel(e, r)
        \/ EnterNode(e) \/ FindInbox(e) \/ LoadRevision(e) \/ CommitAccepted(e)
        \/ ControllerRefuses(e) \/ GraphCheckpoint(e) \/ GraphDies(e)

GraphSpec == GraphInit /\ [][GraphNext]_graphVars

-----------------------------------------------------------------------------
(* Properties *)

GraphTypeOK ==
    /\ \A r \in GraphRuns :
          /\ graphSaved[r].next \in 0 .. 3
          /\ graphSaved[r].receipt \in {"none", "ACCEPTED", "CONFLICT", "REFUSED"}
    /\ \A e \in GraphExecutors : graphCall[e].run \in GraphRuns \cup {"none"}
    /\ graphCalls \in 0 .. GraphCalls

\* The receipt a checkpoint holds is true of the run's command, also when a crash
\* lost the first answer and the node submitted again: an ACCEPTED one is of an
\* accepted command, and a CONFLICT means that another command was accepted and
\* this one was not, unless two processes were submitting it at the same time.
ReceiptIsTheDecision ==
    \A r \in GraphRuns :
        LET receipt == graphSaved[r].receipt
            accepted == graphAccepted[GraphOf(r)] IN
        /\ receipt = "ACCEPTED" => CommandOf(r) \in accepted
        /\ receipt = "CONFLICT" /\ CommandOf(r) \notin graphOverlap =>
               CommandOf(r) \notin accepted /\ accepted # {}

\* No requirement is confirmed by a stage run nobody resumed: start() stops at
\* the gate, and a restarted or repeated start does not get past it.
ConfirmNeedsResume == graphAccepted["stage"] \subseteq graphResumed

\* What a graph run promises the controller and its reader.
GraphContract == ReceiptIsTheDecision /\ ConfirmNeedsResume
=============================================================================
