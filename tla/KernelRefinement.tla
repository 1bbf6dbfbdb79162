-------------------------- MODULE KernelRefinement --------------------------
(***************************************************************************)
(* PipelineKernel with a single writer implements CommandLog.  The history *)
(* of a pipeline is read off the inbox: its n-th command is the one whose  *)
(* receipt names revision n.                                               *)
(***************************************************************************)
EXTENDS PipelineKernel, Sequences

History(pl) ==
    [n \in 1..rows[pl].revision |->
        (CHOOSE r \in inbox :
            r.command.pipeline_id = pl /\ r.revision = n).command]

Log == INSTANCE CommandLog WITH log <- [pl \in Pipelines |-> History(pl)]

\* submit(), its three transactions, its failures, crashes and replays
\* included, changes the history of accepted commands only by single legal
\* acceptances at the expected revision.
ImplementsCommandLog == Log!Spec

=============================================================================
