------------------------------- MODULE VerifyFlow -------------------------------
(***************************************************************************)
(* VerifyFlow.run of the verification station: one candidate is staged     *)
(* into the pipeline's sandbox folder, its own scripts run, a browser      *)
(* runtime and a reviewer judge it, and the sandbox is removed.            *)
(*                                                                         *)
(* Every attempt is a new VerifyFlow (kernel_bridge._advance_verify), so   *)
(* _passed_sha is always None and DRIFT is out of reach; an attempt with   *)
(* an unbound role is DENIED before it touches anything and is no step.    *)
(* The folder is the same for all attempts of the pipeline; a worker that  *)
(* dies leaves it, and a worker whose lease ran out still shares it.       *)
(***************************************************************************)
EXTENDS Integers, FiniteSets

CONSTANTS Verifiers,        \* worker processes
          VerifyAttempts    \* bound on the attempts

VARIABLES vfCandidate,      \* the version of the candidate in the worktree
          vfBox,            \* the sandbox folder
          vfRun,            \* the attempt of each verifier
          vfAttempts,       \* attempts begun
          vfServers,        \* attempts whose served src/app.py still runs
          vfLoose,          \* history: attempts that died or raised past _stop
          vfKept            \* history: a died attempt or rmtree left the folder

verifyVars == <<vfCandidate, vfBox, vfRun, vfAttempts, vfServers, vfLoose, vfKept>>

NoVerdict == [verdict |-> "missing", of |-> 0]
NoBox == [here |-> FALSE, staged |-> {}, result |-> NoVerdict, review |-> NoVerdict]
NoAttempt == [pc |-> "off", n |-> 0, sha |-> 0, e2e |-> "fake", rev |-> "fake",
              scripted |-> "none", shared |-> FALSE, status |-> "none"]

VerifyInit ==
    /\ vfCandidate = 1
    /\ vfBox = NoBox
    /\ vfRun = [v \in Verifiers |-> NoAttempt]
    /\ vfAttempts = 0
    /\ vfServers = {}
    /\ vfLoose = {}
    /\ vfKept = FALSE

Verifying == {v \in Verifiers : vfRun[v].pc # "off"}

-----------------------------------------------------------------------------
(* The sandbox and how an attempt leaves it *)

\* VerificationSandbox.create: mkdir with exist_ok, so what is there stays.
SandboxCreate(v, e2e, rev) ==
    /\ vfRun[v].pc = "off"
    /\ vfAttempts < VerifyAttempts
    /\ vfAttempts' = vfAttempts + 1
    /\ vfRun' = [w \in Verifiers |->
                    IF w = v
                    THEN [NoAttempt EXCEPT !.pc = "created", !.n = vfAttempts + 1,
                             !.sha = vfCandidate, !.e2e = e2e, !.rev = rev,
                             !.shared = vfBox.here \/ Verifying # {}]
                    ELSE [vfRun[w] EXCEPT !.shared = @ \/ w \in Verifying]]
    /\ vfBox' = [vfBox EXCEPT !.here = TRUE]
    /\ UNCHANGED <<vfCandidate, vfServers, vfLoose, vfKept>>

\* cleanup: rmtree ignores its errors, and may leave the folder.
Cleaned(box, removed) == IF removed THEN NoBox ELSE box

\* run() returns or raises: its finally clause removes the folder.
VerifyEnds(v, status, removed) ==
    /\ vfRun' = [vfRun EXCEPT ![v] = [NoAttempt EXCEPT !.status = status]]
    /\ vfBox' = Cleaned(vfBox, removed)
    /\ vfKept' = (vfKept \/ (~removed /\ vfBox.here))
    /\ UNCHANGED <<vfCandidate, vfAttempts>>

-----------------------------------------------------------------------------
(* The stages of an attempt *)

\* The fake browser runtime skips the scripts; otherwise src and tests of the
\* worktree are copied over what the folder holds, pytest runs, then src/app.py.
ScriptOutcomes(e2e) == IF e2e = "fake" THEN {"skip"}
                       ELSE {"passed", "failed", "timeout", "none"}
StagedTree(box, e2e) ==
    IF e2e = "fake" THEN box
    ELSE [box EXCEPT !.here = TRUE, !.staged = @ \cup {vfCandidate}]
ScriptRejects(e2e, scripted) ==
    scripted = "failed" \/ (e2e = "real" /\ scripted \in {"timeout", "none", "skip"})

RunStagedCandidate(v, scripted, served, removed) ==
    LET run == vfRun[v]  staged == StagedTree(vfBox, run.e2e) IN
    /\ run.pc = "created"
    /\ scripted \in ScriptOutcomes(run.e2e)
    /\ IF ScriptRejects(run.e2e, scripted)
       THEN /\ ~served
            /\ vfRun' = [vfRun EXCEPT ![v] = [NoAttempt EXCEPT !.status = "REWORK"]]
            /\ vfBox' = Cleaned(staged, removed)
            /\ vfKept' = (vfKept \/ (~removed /\ staged.here))
            /\ UNCHANGED vfServers
       ELSE /\ removed
            /\ served => run.e2e = "real"
            /\ vfRun' = [vfRun EXCEPT ![v].pc = "e2e", ![v].scripted = scripted]
            /\ vfBox' = staged
            /\ vfServers' = vfServers \cup (IF served THEN {run.n} ELSE {})
            /\ UNCHANGED vfKept
    /\ UNCHANGED <<vfCandidate, vfAttempts, vfLoose>>

\* A runtime that works in the folder may write its verdict file.
WritesVerdict(v, verdict) ==
    /\ vfBox.here
    /\ \/ /\ vfRun[v].pc = "e2e" /\ vfRun[v].e2e = "real"
          /\ vfBox' = [vfBox EXCEPT !.result = [verdict |-> verdict, of |-> vfRun[v].sha]]
       \/ /\ vfRun[v].pc = "review" /\ vfRun[v].rev = "real"
          /\ vfBox' = [vfBox EXCEPT !.review = [verdict |-> verdict, of |-> vfRun[v].sha]]
    /\ UNCHANGED <<vfCandidate, vfRun, vfAttempts, vfServers, vfLoose, vfKept>>

\* How launch() comes back: a status, an exception run() handles, or another.
\* _PassingRuntime stands in for a fake binding and always completes.
LaunchOutcomes(bound) == IF bound = "fake" THEN {"COMPLETED"}
                         ELSE {"COMPLETED", "FAILED", "handled", "raised"}

E2eRejects(run, outcome, verdict) ==
    \/ outcome = "handled"
    \/ outcome = "FAILED"
    \/ run.e2e = "real" /\ verdict = "fail"

E2eLaunch(v, outcome, removed) ==
    LET run == vfRun[v] IN
    /\ run.pc = "e2e"
    /\ outcome \in LaunchOutcomes(run.e2e)
    /\ vfServers' = IF outcome = "raised" THEN vfServers ELSE vfServers \ {run.n}
    /\ vfLoose' = IF outcome = "raised" THEN vfLoose \cup {run.n} ELSE vfLoose
    /\ IF outcome = "raised" THEN VerifyEnds(v, "INFRA", removed)
       ELSE IF E2eRejects(run, outcome, vfBox.result.verdict)
       THEN VerifyEnds(v, "REWORK", removed)
       ELSE /\ removed
            /\ vfRun' = [vfRun EXCEPT ![v].pc =
                            IF run.scripted = "passed" /\ run.rev = "fake"
                            THEN "publish" ELSE "review"]
            /\ UNCHANGED <<vfCandidate, vfBox, vfAttempts, vfKept>>

\* Mutant of ReviewRejects: the verdict of a finished review is not read.
BelievesReviewer(run, outcome, verdict) ==
    \/ outcome = "handled"
    \/ outcome = "FAILED" /\ verdict = "missing"

\* A reviewer that did not complete is believed when it left REVIEW.md behind.
ReviewRejects(run, outcome, verdict) ==
    \/ outcome = "handled"
    \/ outcome = "FAILED" /\ verdict = "missing"
    \/ run.rev = "real" /\ verdict # "pass"

ReviewLaunch(v, outcome, removed) ==
    LET run == vfRun[v] IN
    /\ run.pc = "review"
    /\ outcome \in LaunchOutcomes(run.rev)
    /\ UNCHANGED <<vfServers, vfLoose>>
    /\ IF outcome = "raised" THEN VerifyEnds(v, "INFRA", removed)
       ELSE IF ReviewRejects(run, outcome, vfBox.review.verdict)
       THEN VerifyEnds(v, "REWORK", removed)
       ELSE /\ removed
            /\ vfRun' = [vfRun EXCEPT ![v].pc = "publish"]
            /\ UNCHANGED <<vfCandidate, vfBox, vfAttempts, vfKept>>

VerifyPublish(v, removed) ==
    /\ vfRun[v].pc = "publish"
    /\ VerifyEnds(v, "READY", removed)
    /\ UNCHANGED <<vfServers, vfLoose>>

VerifyDies(v) ==
    /\ v \in Verifying
    /\ vfRun' = [vfRun EXCEPT ![v] = [NoAttempt EXCEPT !.status = "none"]]
    /\ vfLoose' = vfLoose \cup {vfRun[v].n}
    /\ vfKept' = (vfKept \/ vfBox.here)
    /\ UNCHANGED <<vfCandidate, vfBox, vfAttempts, vfServers>>

\* The rework of a refused candidate, by a worker that holds the lease; an
\* attempt whose lease ran out is still on the same worktree and folder.
Redevelop ==
    /\ Verifying # Verifiers
    /\ vfCandidate <= vfAttempts
    /\ vfCandidate < VerifyAttempts
    /\ vfCandidate' = vfCandidate + 1
    /\ vfRun' = [w \in Verifiers |-> [vfRun[w] EXCEPT !.shared = @ \/ w \in Verifying]]
    /\ UNCHANGED <<vfBox, vfAttempts, vfServers, vfLoose, vfKept>>

VerifyNext ==
    \/ \E v \in Verifiers :
          \/ \E e2e, rev \in {"fake", "real"} : SandboxCreate(v, e2e, rev)
          \/ \E s \in {"skip", "passed", "failed", "timeout", "none"},
                served, removed \in BOOLEAN : RunStagedCandidate(v, s, served, removed)
          \/ \E verdict \in {"pass", "fail"} : WritesVerdict(v, verdict)
          \/ \E o \in LaunchOutcomes("real"), removed \in BOOLEAN :
                E2eLaunch(v, o, removed) \/ ReviewLaunch(v, o, removed)
          \/ \E removed \in BOOLEAN : VerifyPublish(v, removed)
          \/ VerifyDies(v)
    \/ Redevelop

VerifySpec == VerifyInit /\ [][VerifyNext]_verifyVars

-----------------------------------------------------------------------------
(* Properties *)

VerifyTypeOK ==
    /\ vfCandidate \in 1 .. VerifyAttempts
    /\ vfBox.staged \subseteq 1 .. VerifyAttempts
    /\ \A v \in Verifiers :
          /\ vfRun[v].pc \in {"off", "created", "e2e", "review", "publish"}
          /\ vfRun[v].status \in {"none", "READY", "REWORK", "INFRA"}
    /\ vfServers \cup vfLoose \subseteq 1 .. vfAttempts

\* A candidate about to be published READY was itself judged: unless the folder
\* held the remains of an earlier attempt or was shared with another worker,
\* the tree that ran was that candidate alone and the reviewer's PASS is of it.
PublishedWasJudged ==
    \A v \in Verifiers :
        (vfRun[v].pc = "publish" /\ ~vfRun[v].shared) =>
            /\ vfRun[v].e2e = "real" =>
                  /\ vfRun[v].scripted = "passed"
                  /\ vfBox.staged = {vfRun[v].sha}
                  /\ vfBox.result \in {NoVerdict, [verdict |-> "pass", of |-> vfRun[v].sha]}
            /\ vfRun[v].rev = "real" =>
                  vfBox.review = [verdict |-> "pass", of |-> vfRun[v].sha]

\* The application an attempt served is stopped before the attempt goes on: only
\* an attempt that died, or whose runtime raised an exception run() does not
\* expect, leaves it running.
ServedIsStopped ==
    vfServers \subseteq vfLoose \cup {vfRun[v].n : v \in {w \in Verifiers : vfRun[w].pc = "e2e"}}

\* Whatever verdict an attempt ends with, its folder is gone: it is only found
\* between attempts when one died or the removal itself failed.
SandboxIsTransient ==
    (Verifying = {} /\ ~vfKept) => ~vfBox.here

\* What an attempt promises: a READY that was earned by this candidate, and no
\* server and no folder left behind.
VerifyContract == PublishedWasJudged /\ ServedIsStopped /\ SandboxIsTransient
=============================================================================
