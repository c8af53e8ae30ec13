------------------------------ MODULE MCLedger ------------------------------
(* Instances of Ledger for TLC.                                            *)
EXTENDS Ledger, TLC

CONSTANTS t1, t2, c1, c2

\* t2 waits for t1, so a claim of t2 races whatever happens to t1.
ChainDependsOn == (t1 :> {}) @@ (t2 :> {t1})

NoDependsOn == [t \in Ticket |-> {}]

\* One failure uses t1's budget up; t2 goes through review on success and on failure.
ChainRetryPolicy ==
    (t1 :> [max_attempts |-> 1, on_failure |-> "return_to_todo", requires_review_on_success |-> FALSE])
 @@ (t2 :> [max_attempts |-> 1, on_failure |-> "needs_review", requires_review_on_success |-> TRUE])

\* One failure uses a ticket's budget up; the second ticket does not retry.
ShortRetryPolicy ==
    [t \in Ticket |->
        [max_attempts |-> 1,
         on_failure |-> IF t = t1 THEN "return_to_todo" ELSE "mark_failed",
         requires_review_on_success |-> FALSE]]

\* The second claimer's filters accept the first ticket only.
ChainSuits == (c1 :> {t1, t2}) @@ (c2 :> {t1})

AllSuits == [c \in Claimer |-> Ticket]

\* Attempt identifiers and workers are interchangeable (safety runs only).
Symmetry == Permutations(Attempt) \cup Permutations(Worker)
=============================================================================
