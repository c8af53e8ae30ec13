----------------------------- MODULE MCEventFeed -----------------------------
(* Instances of EventFeed for TLC.                                         *)
EXTENDS EventFeed, TLC

CONSTANTS t1, a1, byTicket, byAttempt

\* One reader follows a ticket, one an attempt.
Filters ==
    [r \in Reader |-> [ticket |-> IF r = byTicket THEN t1 ELSE All,
                       attempt |-> IF r = byAttempt THEN a1 ELSE All]]

Symmetry == Permutations(Writer)
=============================================================================
