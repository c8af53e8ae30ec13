---------------------------- MODULE MCIdempotency ----------------------------
(* Instances of ClaimIdempotency for TLC.                                  *)
EXTENDS ClaimIdempotency, TLC

CONSTANTS c1, c2, c3, c4, k1, r1, r2

\* Two calls repeat each other, a third reuses their key for another request,
\* and a fourth sends no key.
MixedKeys == [c \in Call |-> IF c = c4 THEN NoKey ELSE k1]

MixedRequests == [c \in Call |-> IF c = c3 THEN r2 ELSE r1]

\* The two repeating calls are interchangeable, and so are the tickets.
Symmetry == Permutations({c1, c2}) \cup Permutations(Ticket)
=============================================================================
