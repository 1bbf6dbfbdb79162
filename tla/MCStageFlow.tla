---------------------------- MODULE MCStageFlow ----------------------------
(* Small instances of StageFlow for TLC. *)
EXTENDS StageFlow

Upto(crash, restart, store, stale) ==
    [crash |-> crash, restart |-> restart, store |-> store, stale |-> stale]

Install(worker, legacy, bounds) ==
    [worker |-> worker, legacy |-> legacy, faults |-> bounds]

\* New and legacy files, with workers and inline, and the faults in pairs.
AllInstalls ==
    {Install(worker, FALSE, bounds) :
        worker \in BOOLEAN,
        bounds \in {Upto(1, 1, 0, 0), Upto(0, 1, 0, 1), Upto(0, 0, 1, 0)}}
    \cup {Install(TRUE, FALSE, Upto(2, 0, 0, 0)), Install(TRUE, TRUE, Upto(1, 0, 0, 1)),
          Install(FALSE, TRUE, Upto(1, 0, 0, 0))}

OnlyInline == {Install(FALSE, FALSE, Upto(0, 0, 0, 0))}
OnlyWorker == {Install(TRUE, FALSE, Upto(1, 0, 0, 0))}

=============================================================================
