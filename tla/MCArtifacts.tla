----------------------------- MODULE MCArtifacts -----------------------------
(* Instances of Artifacts for TLC.                                         *)
EXTENDS Artifacts, TLC

\* All commands report on the same attempt: they race to end it.
OneAttempt == [c \in Call |-> CHOOSE a \in Attempt : TRUE]

Symmetry == Permutations(Blob) \cup Permutations(Deleter) \cup Permutations(Call)
=============================================================================
