------------------------------ MODULE MCTriage ------------------------------
(* Instances of Triage for TLC.                                            *)
EXTENDS Triage, TLC

\* Calls are interchangeable, and so are tickets.
Symmetry == Permutations(TriageCall) \cup Permutations(Ticket)
=============================================================================
