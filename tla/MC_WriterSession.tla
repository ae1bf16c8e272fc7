-------------------------- MODULE MC_WriterSession --------------------------
(* WriterSession for TLC: sessions that share one document. *)
EXTENDS WriterSession, TLC

CONSTANT TheDocument

OneDocument == {TheDocument}
SameDocument == [s \in Sessions |-> TheDocument]

\* Sessions, tasks and contents are only ever compared for equality.
Symmetric == Permutations(Sessions) \cup Permutations(Tasks) \cup Permutations(Contents)

=============================================================================
