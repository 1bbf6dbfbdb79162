------------------------------- MODULE McpSession -------------------------------
(***************************************************************************)
(* ChromeMcpRuntime of runtime_broker/chrome_mcp.py on its closed path:    *)
(* the browser server is a child that speaks JSON-RPC over its pipes, one  *)
(* pool thread drives three calls, launch() waits for it 30 seconds.       *)
(*                                                                         *)
(* The server answers when it likes, sends frames nobody asked for, stays  *)
(* silent or exits.  Leaving the pool waits for its thread, so a timeout   *)
(* ends only when the thread does.                                         *)
(***************************************************************************)
EXTENDS Integers, Sequences

CONSTANTS McpFrames   \* bound: frames the server sends

VARIABLES mcpMain,     \* where launch() is
          mcpThread,   \* the pool thread: its call, and "send", "read" or its end
          mcpServer,   \* the child lives
          mcpAsked,    \* calls the server has yet to answer
          mcpPipe,     \* frames on their way: [id, error], id 0 for a notification
          mcpSent,     \* frames so far
          mcpText,     \* the id of the frame the result was taken from
          mcpStatus    \* _Run.status, "none" before launch() knows

mcpVars == <<mcpMain, mcpThread, mcpServer, mcpAsked, mcpPipe, mcpSent, mcpText, mcpStatus>>

\* initialize, navigate_page, evaluate_script
LastCall == 3
ThreadDone(how) == [call |-> 0, at |-> how]

McpInit ==
    /\ mcpMain = "idle"
    /\ mcpThread = ThreadDone("none")
    /\ mcpServer = FALSE
    /\ mcpAsked = {}
    /\ mcpPipe = << >>
    /\ mcpSent = 0
    /\ mcpText = 0
    /\ mcpStatus = "none"

-----------------------------------------------------------------------------
(* launch() *)

\* The profile allows no browser, no transport is there, or the spawn fails
McpRefused(status) ==
    /\ mcpMain = "idle"
    /\ mcpMain' = "returned"
    /\ mcpStatus' = status
    /\ UNCHANGED <<mcpThread, mcpServer, mcpAsked, mcpPipe, mcpSent, mcpText>>

McpSpawn ==
    /\ mcpMain = "idle"
    /\ mcpMain' = "wait"
    /\ mcpServer' = TRUE
    /\ mcpThread' = [call |-> 1, at |-> "send"]
    /\ UNCHANGED <<mcpAsked, mcpPipe, mcpSent, mcpText, mcpStatus>>

ThreadEnded == mcpThread.at \in {"done", "failed"}

McpTimesOut ==
    /\ mcpMain = "wait"
    /\ ~ThreadEnded
    /\ mcpMain' = "timeout"
    /\ UNCHANGED <<mcpThread, mcpServer, mcpAsked, mcpPipe, mcpSent, mcpText, mcpStatus>>

\* The pool is left, the server killed, and the outcome kept
McpReturns ==
    /\ mcpMain \in {"wait", "timeout"}
    /\ ThreadEnded
    /\ mcpServer' = FALSE
    /\ mcpMain' = "returned"
    /\ mcpStatus' = IF mcpMain = "wait" /\ mcpThread.at = "done"
                    THEN "COMPLETED" ELSE "FAILED"
    /\ UNCHANGED <<mcpThread, mcpAsked, mcpPipe, mcpSent, mcpText>>

\* A run is known once it is over: an earlier signal is UNSUPPORTED
McpSignal ==
    /\ mcpStatus # "none"
    /\ mcpStatus' = "CANCELLED"
    /\ UNCHANGED <<mcpMain, mcpThread, mcpServer, mcpAsked, mcpPipe, mcpSent, mcpText>>

-----------------------------------------------------------------------------
(* The thread: drive_stdio_mcp, _rpc, _read_frame *)

ThreadSends ==
    /\ mcpThread.at = "send"
    /\ mcpThread' = IF mcpServer THEN [mcpThread EXCEPT !.at = "read"]
                    ELSE ThreadDone("failed")
    /\ mcpAsked' = IF mcpServer THEN mcpAsked \cup {mcpThread.call} ELSE mcpAsked
    /\ UNCHANGED <<mcpMain, mcpServer, mcpPipe, mcpSent, mcpText, mcpStatus>>

\* A frame with another id is passed over
IsReply(frame) == frame.id = mcpThread.call

ThreadReads ==
    LET frame == Head(mcpPipe) IN
    /\ mcpThread.at = "read"
    /\ mcpPipe # << >>
    /\ mcpPipe' = Tail(mcpPipe)
    /\ \/ /\ ~IsReply(frame)
          /\ UNCHANGED <<mcpThread, mcpText>>
       \/ /\ IsReply(frame) /\ frame.error
          /\ mcpThread' = ThreadDone("failed")
          /\ UNCHANGED mcpText
       \/ /\ IsReply(frame) /\ ~frame.error /\ mcpThread.call < LastCall
          /\ mcpThread' = [call |-> mcpThread.call + 1, at |-> "send"]
          /\ UNCHANGED mcpText
       \/ /\ IsReply(frame) /\ ~frame.error /\ mcpThread.call = LastCall
          /\ mcpThread' = ThreadDone("done")
          /\ mcpText' = frame.id
    /\ UNCHANGED <<mcpMain, mcpServer, mcpAsked, mcpSent, mcpStatus>>

ThreadMeetsEnd ==
    /\ mcpThread.at = "read"
    /\ mcpPipe = << >> /\ ~mcpServer
    /\ mcpThread' = ThreadDone("failed")
    /\ UNCHANGED <<mcpMain, mcpServer, mcpAsked, mcpPipe, mcpSent, mcpText, mcpStatus>>

-----------------------------------------------------------------------------
(* The server *)

ServerSends(id, error) ==
    /\ mcpServer
    /\ id \in mcpAsked \cup {0}
    /\ mcpSent < McpFrames
    /\ mcpSent' = mcpSent + 1
    /\ mcpPipe' = Append(mcpPipe, [id |-> id, error |-> error])
    /\ mcpAsked' = mcpAsked \ {id}
    /\ UNCHANGED <<mcpMain, mcpThread, mcpServer, mcpText, mcpStatus>>

ServerExits ==
    /\ mcpServer
    /\ mcpServer' = FALSE
    /\ UNCHANGED <<mcpMain, mcpThread, mcpAsked, mcpPipe, mcpSent, mcpText, mcpStatus>>

McpNext ==
    \/ \E status \in {"UNSUPPORTED", "FAILED"} : McpRefused(status)
    \/ McpSpawn
    \/ McpTimesOut
    \/ McpReturns
    \/ McpSignal
    \/ ThreadSends
    \/ ThreadReads
    \/ ThreadMeetsEnd
    \/ \E id \in 0 .. LastCall, error \in BOOLEAN : ServerSends(id, error)
    \/ ServerExits

McpSpec == McpInit /\ [][McpNext]_mcpVars

-----------------------------------------------------------------------------
(* Properties *)

McpTypeOK ==
    /\ mcpMain \in {"idle", "wait", "timeout", "returned"}
    /\ mcpThread \in [call : 0 .. LastCall, at : {"none", "send", "read", "done", "failed"}]
    /\ mcpServer \in BOOLEAN
    /\ mcpAsked \subseteq 1 .. LastCall
    /\ mcpPipe \in Seq([id : 0 .. LastCall, error : BOOLEAN])
    /\ mcpSent \in 0 .. McpFrames
    /\ mcpText \in 0 .. LastCall
    /\ mcpStatus \in {"none", "UNSUPPORTED", "FAILED", "COMPLETED", "CANCELLED"}

(* _rpc: whatever frames the server interleaves, the text of a COMPLETED    *)
(* run is the answer to evaluate_script, and every call was answered.       *)
McpTextIsTheAnswer ==
    mcpStatus = "COMPLETED" => mcpText = LastCall /\ mcpAsked = {}

(* _drive_closed: launch() never comes back while the server or the thread  *)
(* that reads from it is still at work, after a timeout either.             *)
McpLeavesNothing ==
    mcpMain = "returned" => ~mcpServer /\ mcpThread.at \notin {"send", "read"}

(* What a browser launch promises: the right answer, and nothing left.        *)
McpContract == McpTextIsTheAnswer /\ McpLeavesNothing
=============================================================================
