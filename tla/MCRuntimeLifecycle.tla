------------------------- MODULE MCRuntimeLifecycle -------------------------
(* Small instances of RuntimeLifecycle for TLC. *)
EXTENDS RuntimeLifecycle, TLC

\* Runtimes are interchangeable, and so are the commands; no liveness property
\* is checked.
Symmetry == Permutations(Runtimes) \cup Permutations(Shims)

=============================================================================
