------------------------------ MODULE HostPublish ------------------------------
(***************************************************************************)
(* The host side of publication: when a pipeline is READY the shim pushes  *)
(* the worktree with gh and opens a pull request (hermes_shim/_github.py,  *)
(* called by read, approve and retry of _lifecycle.py), and remembers it   *)
(* in descriptor/published.json.                                           *)
(*                                                                         *)
(* Every call of gh is a step of its own that may fail; shim commands run  *)
(* in processes of their own and die at any step.  A commit is the set of  *)
(* the commits it descends from, itself included.                          *)
(***************************************************************************)
EXTENDS Integers, FiniteSets, Sequences, TLC

CONSTANTS HostShims,      \* shim commands that run at the same time
          HostPipelines,  \* pipelines that are READY
          HostBound       \* bound: commits pushed

VARIABLES hostBase,     \* GitHub: the head of the base branch
          hostBranch,   \* GitHub: the head of each pipeline's branch, {} when absent
          hostOpen,     \* GitHub: the open pull request of each pipeline, 0 for none
          hostOpened,   \* GitHub: the pipeline every pull request was opened for
          hostRows,     \* published.json, or Unreadable while it is being written
          hostShim,     \* the step of each shim command
          hostCommits,  \* commits so far
          hostEnded,    \* history: pipelines a publication was run to its end for
          hostWritten,  \* history: pipelines a row was written for
          hostFailed,   \* history: "call" when gh failed or a shim died, "torn"
                        \* when it died while it wrote published.json
          hostOverlap   \* history: published.json was written from a stale read

hostVars == <<hostBase, hostBranch, hostOpen, hostOpened, hostRows, hostShim,
              hostCommits, hostEnded, hostWritten, hostFailed, hostOverlap>>

NoRow == [number |-> 0, head |-> {}]
NoRows == [p \in HostPipelines |-> NoRow]
Unreadable == [p \in {} |-> NoRow]
ShimIdle == [step |-> "idle"]

HostInit ==
    /\ hostBase = {0}
    /\ hostBranch = [p \in HostPipelines |-> {}]
    /\ hostOpen = [p \in HostPipelines |-> 0]
    /\ hostOpened = << >>
    /\ hostRows = NoRows
    /\ hostShim = [s \in HostShims |-> ShimIdle]
    /\ hostCommits = 0
    /\ hostEnded = {}
    /\ hostWritten = {}
    /\ hostFailed = {}
    /\ hostOverlap = FALSE

-----------------------------------------------------------------------------

\* _read_json_object(): a file that does not parse reads as empty
ReadRows == IF hostRows = Unreadable THEN NoRows ELSE hostRows

Moves(s, at) == hostShim' = [hostShim EXCEPT ![s] = at]

HostEnds(s) ==
    /\ Moves(s, ShimIdle)
    /\ hostEnded' = hostEnded \cup {hostShim[s].pipe}

\* A command that finds READY: read only without a row, approve and retry always
HostBegin(s, p, afterWait) ==
    /\ hostShim[s] = ShimIdle
    /\ afterWait \/ ReadRows[p] = NoRow
    /\ hostCommits < HostBound
    /\ Moves(s, [step |-> "base", pipe |-> p])
    /\ UNCHANGED <<hostBase, hostBranch, hostOpen, hostOpened, hostRows, hostWritten,
                   hostCommits, hostEnded, hostFailed, hostOverlap>>

\* _push_files(): the commit's only parent is the head of the base branch
GetBase(s) ==
    /\ hostShim[s].step = "base"
    /\ Moves(s, [step |-> "ref", pipe |-> hostShim[s].pipe, parent |-> hostBase])
    /\ UNCHANGED <<hostBase, hostBranch, hostOpen, hostOpened, hostRows, hostWritten,
                   hostCommits, hostEnded, hostFailed, hostOverlap>>

\* Mutant of RefMoves: the push is forced.
Forces(old, new) ==
    old = {} \/ new # {}

\* A branch is created, or moved forward without force
RefMoves(old, new) == old = {} \/ old \subseteq new

\* The commit created: a new one, or the branch's own when the same files were
\* committed on the same parent within the same second
Created(p, parent) ==
    {parent \cup {hostCommits + 1}} \cup
    {c \in {hostBranch[p]} : \E n \in c \ parent : c = parent \cup {n}}

PushRef(s) ==
    LET p == hostShim[s].pipe IN
    /\ hostShim[s].step = "ref"
    /\ \E head \in Created(p, hostShim[s].parent) :
       /\ hostCommits < HostBound
       /\ hostCommits' = hostCommits + 1
       /\ \/ /\ RefMoves(hostBranch[p], head)
             /\ hostBranch' = [hostBranch EXCEPT ![p] = head]
             /\ Moves(s, [step |-> "pr", pipe |-> p, head |-> head])
             /\ UNCHANGED hostEnded
          \/ /\ ~RefMoves(hostBranch[p], head)
             /\ HostEnds(s)
             /\ UNCHANGED hostBranch
       /\ UNCHANGED <<hostBase, hostOpen, hostOpened, hostRows, hostWritten, hostFailed,
                      hostOverlap>>

\* _open_pr(): a new request, the open one of the branch on 422, or nothing when
\* the branch has nothing to merge
OpenPr(s) ==
    LET p == hostShim[s].pipe
        found == [step |-> "load", pipe |-> p, head |-> hostShim[s].head]
    IN /\ hostShim[s].step = "pr"
       /\ \/ /\ hostOpen[p] # 0
             /\ Moves(s, found @@ [number |-> hostOpen[p]])
             /\ UNCHANGED <<hostOpen, hostOpened, hostEnded>>
          \/ /\ hostOpen[p] = 0 /\ ~(hostBranch[p] \subseteq hostBase)
             /\ hostOpened' = Append(hostOpened, p)
             /\ hostOpen' = [hostOpen EXCEPT ![p] = Len(hostOpened')]
             /\ Moves(s, found @@ [number |-> Len(hostOpened')])
             /\ UNCHANGED hostEnded
          \/ /\ hostOpen[p] = 0 /\ hostBranch[p] \subseteq hostBase
             /\ HostEnds(s)
             /\ UNCHANGED <<hostOpen, hostOpened>>
       /\ UNCHANGED <<hostBase, hostBranch, hostRows, hostWritten, hostCommits, hostFailed,
                      hostOverlap>>

\* write_published(): all rows are read, the file is truncated, all rows written
LoadRows(s) ==
    LET w == hostShim[s] IN
    /\ w.step = "load"
    /\ Moves(s, [step |-> "truncate", pipe |-> w.pipe, read |-> ReadRows,
                 rows |-> [ReadRows EXCEPT ![w.pipe] =
                              [number |-> w.number, head |-> w.head]]])
    /\ hostOverlap' = (hostOverlap \/ hostRows = Unreadable)
    /\ UNCHANGED <<hostBase, hostBranch, hostOpen, hostOpened, hostRows, hostWritten,
                   hostCommits, hostEnded, hostFailed>>

TruncateRows(s) ==
    LET w == hostShim[s] IN
    /\ w.step = "truncate"
    /\ hostRows' = Unreadable
    /\ hostOverlap' = (hostOverlap \/ hostRows # w.read)
    /\ Moves(s, [step |-> "write", pipe |-> w.pipe, rows |-> w.rows])
    /\ UNCHANGED <<hostBase, hostBranch, hostOpen, hostOpened, hostCommits, hostEnded,
                   hostFailed, hostWritten>>

WriteRows(s) ==
    /\ hostShim[s].step = "write"
    /\ hostRows' = hostShim[s].rows
    /\ hostWritten' = hostWritten \cup {hostShim[s].pipe}
    /\ HostEnds(s)
    /\ UNCHANGED <<hostBase, hostBranch, hostOpen, hostOpened, hostCommits, hostFailed,
                   hostOverlap>>

\* A call of gh fails and publish_with_gh() gives up, or the command dies
HostFails(s) ==
    /\ hostShim[s] # ShimIdle
    /\ hostFailed' = hostFailed \cup
                        {IF hostShim[s].step = "write" THEN "torn" ELSE "call"}
    /\ HostEnds(s)
    /\ UNCHANGED <<hostBase, hostBranch, hostOpen, hostOpened, hostRows, hostWritten,
                   hostCommits, hostOverlap>>

\* A maintainer merges the request
HostMerge(p) ==
    /\ hostOpen[p] # 0
    /\ hostBase' = hostBase \cup hostBranch[p]
    /\ hostOpen' = [hostOpen EXCEPT ![p] = 0]
    /\ UNCHANGED <<hostBranch, hostOpened, hostRows, hostWritten, hostShim, hostCommits,
                   hostEnded, hostFailed, hostOverlap>>

HostNext ==
    \/ \E s \in HostShims :
          \/ \E p \in HostPipelines, afterWait \in BOOLEAN : HostBegin(s, p, afterWait)
          \/ GetBase(s)
          \/ PushRef(s)
          \/ OpenPr(s)
          \/ LoadRows(s)
          \/ TruncateRows(s)
          \/ WriteRows(s)
          \/ HostFails(s)
    \/ \E p \in HostPipelines : HostMerge(p)

HostSpec == HostInit /\ [][HostNext]_hostVars

-----------------------------------------------------------------------------
(* Properties *)

HostTypeOK ==
    /\ hostBase \subseteq 0 .. HostBound
    /\ hostBranch \in [HostPipelines -> SUBSET (0 .. HostBound)]
    /\ hostOpen \in [HostPipelines -> 0 .. Len(hostOpened)]
    /\ hostOpened \in Seq(HostPipelines)
    /\ hostRows = Unreadable \/ DOMAIN hostRows = HostPipelines
    /\ DOMAIN hostShim = HostShims
    /\ hostCommits \in 0 .. HostBound
    /\ hostEnded \subseteq HostPipelines
    /\ hostWritten \subseteq HostPipelines
    /\ hostFailed \subseteq {"call", "torn"}
    /\ hostOverlap \in BOOLEAN

(* _push_files and write_published: whatever shims race, fail or die, a row *)
(* names a request that was opened for its pipeline, and the head it        *)
(* recorded is still part of the branch: a push never rewinds a branch.     *)
RowsMatchGitHub ==
    \A p \in HostPipelines :
        LET row == ReadRows[p] IN
        row # NoRow => /\ hostOpened[row.number] = p
                       /\ row.head \subseteq hostBranch[p]

(* write_published: a row once written survives the publication of other    *)
(* pipelines and every failed call of gh, unless two commands overlap in     *)
(* published.json or one dies while it writes it.                            *)
RowsKept ==
    (~hostOverlap /\ "torn" \notin hostFailed /\ hostRows # Unreadable) =>
        \A p \in hostWritten : hostRows[p] # NoRow

(* publish_with_gh: without a failure and without overlapping writes, when  *)
(* no command runs, every pipeline that was published has its row, even     *)
(* when several commands published it at once.                              *)
PublishedWhenQuiet ==
    (/\ \A s \in HostShims : hostShim[s] = ShimIdle
     /\ hostFailed = {} /\ ~hostOverlap) => \A p \in hostEnded : hostRows[p] # NoRow

(* What the host's publication promises: rows that are true of GitHub, are    *)
(* kept, and are there for all that was published.                            *)
HostContract == RowsMatchGitHub /\ RowsKept /\ PublishedWhenQuiet
=============================================================================
