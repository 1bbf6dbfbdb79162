---------------------------- MODULE MCStageLease ----------------------------
(* Small instances of StageLease for TLC. *)
EXTENDS StageLease, TLC

WorkerSymmetry == Permutations(Workers)

=============================================================================
