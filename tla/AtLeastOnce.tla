----------------------------- MODULE AtLeastOnce -----------------------------
(***************************************************************************)
(* What webhook delivery promises to a subscriber, without workers, locks, *)
(* tokens or time: a message is counted as delivered only after it was     *)
(* acknowledged, is given up only after MaxTries counted failures, and     *)
(* what was settled stays settled. It may be acknowledged more than once,  *)
(* also after it was settled.                                              *)
(***************************************************************************)
EXTENDS Naturals

CONSTANTS Message, MaxTries

VARIABLES fate, tries, acknowledged

promise == <<fate, tries, acknowledged>>

PromiseInit ==
    /\ fate = [m \in Message |-> "none"]
    /\ tries = [m \in Message |-> 0]
    /\ acknowledged = {}

Enqueue(m) ==
    /\ fate[m] = "none"
    /\ fate' = [fate EXCEPT ![m] = "queued"]
    /\ UNCHANGED <<tries, acknowledged>>

Acknowledge(m) ==
    /\ fate[m] # "none"
    /\ acknowledged' = acknowledged \cup {m}
    /\ UNCHANGED <<fate, tries>>

\* One more counted try settles the message or leaves it queued.
Settle(m, f) ==
    /\ fate[m] = "queued"
    /\ tries[m] < MaxTries
    /\ f = "delivered" => m \in acknowledged
    /\ f = "givenUp" => tries[m] + 1 = MaxTries
    /\ f = "queued" => tries[m] + 1 < MaxTries
    /\ fate' = [fate EXCEPT ![m] = f]
    /\ tries' = [tries EXCEPT ![m] = @ + 1]
    /\ UNCHANGED acknowledged

Forget(m) ==
    /\ fate[m] \in {"delivered", "givenUp"}
    /\ fate' = [fate EXCEPT ![m] = "forgotten"]
    /\ UNCHANGED <<tries, acknowledged>>

PromiseNext ==
    \E m \in Message :
        \/ Enqueue(m)
        \/ Acknowledge(m)
        \/ \E f \in {"delivered", "givenUp", "queued"} : Settle(m, f)
        \/ Forget(m)

PromiseSpec == PromiseInit /\ [][PromiseNext]_promise
=============================================================================
