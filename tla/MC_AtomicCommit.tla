-------------------------- MODULE MC_AtomicCommit --------------------------
(* AtomicCommit for TLC: its cfgs give Commits and Contents model values. *)
EXTENDS AtomicCommit, TLC

\* Commit ids and contents are only ever compared for equality.
Symmetric == Permutations(Commits) \cup Permutations(Contents)

=============================================================================
