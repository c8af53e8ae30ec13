---------------------------- MODULE WebhookProofs ----------------------------
(***************************************************************************)
(* Theorems about WebhookDelivery for any number of workers, deliveries    *)
(* and tokens, any batch size and any timeout.                             *)
(***************************************************************************)
EXTENDS WebhookDelivery, FiniteSetTheorems, TLAPS

-----------------------------------------------------------------------------
(* The inductive invariant behind the types, the fence and the promise.    *)

\* A pass posts what it holds, and holds rows that exist.
PassInv ==
    \A w \in Worker :
        /\ posting[w] # NoDelivery => posting[w] \in held[w]
        /\ held[w] # {} => pass[w] # NoToken
        /\ \A d \in held[w] : dStatus[d] # "absent"

\* Two passes never share a token.
TokenInv ==
    \A v, w \in Worker : pass[v] = pass[w] /\ pass[v] # NoToken => v = w

\* While a pass owns a row nobody changes its attempt_count, so the count the
\* claim returned is still the row's when the mark writes count + 1.
FenceInv ==
    \A w \in Worker : \A d \in held[w] :
        Owns(w, d) => seen[w][d] = count[d] /\ count[d] < MaxAttempts

\* "ok" is only concluded from an answer.
AckInv ==
    /\ \A w \in Worker : outcome[w] = "ok" => posting[w] \in acked
    /\ SucceededWasAcknowledged

DeliveryInv == TypeOK /\ PassInv /\ TokenInv /\ FenceInv /\ AckInv

-----------------------------------------------------------------------------

\* The back-off stays between one and 32 minutes.
LEMMA BackoffRange == \A n \in Nat : WebhookBackoff(n) \in 1 .. 32
<1> SUFFICES ASSUME NEW n \in Nat PROVE WebhookBackoff(n) \in 1 .. 32
    OBVIOUS
<1> DEFINE clamped == IF n < 1 THEN 1 ELSE IF n > 6 THEN 6 ELSE n
<1>1. clamped \in 1 .. 6
    OBVIOUS
<1>2. \A i \in 1 .. 6 : <<1, 2, 4, 8, 16, 32>>[i] \in 1 .. 32
    OBVIOUS
<1> QED
    BY <1>1, <1>2 DEF WebhookBackoff

\* The lock time is a number no smaller than the time the whole batch can take.
LEMMA LockCoversBatch ==
    /\ ClaimLockTTL \in Nat
    /\ ClaimLockTTL >= BatchLimit * PostTimeout + LockBuffer
BY WebhookAssumption DEF ClaimLockTTL, Maximum

LEMMA DeliveryInvInit == Init => DeliveryInv
BY WebhookAssumption, LockCoversBatch
   DEF Init, DeliveryInv, TypeOK, PassInv, TokenInv, FenceInv, AckInv,
       SucceededWasAcknowledged, Owns, Unseen, Terminal

\* One step of the system keeps the invariant.
LEMMA DeliveryInvStep == DeliveryInv /\ [Next]_vars => DeliveryInv'
<1> SUFFICES ASSUME DeliveryInv, [Next]_vars PROVE DeliveryInv'
    OBVIOUS
<1> USE WebhookAssumption, LockCoversBatch DEF DeliveryInv, Owns
<1>1. ASSUME NEW w \in Worker, NEW S \in SUBSET Delivery, NEW k \in Token,
             ClaimPendingWebhookDeliveries(w, S, k)
      PROVE  DeliveryInv'
  <2> USE <1>1 DEF ClaimPendingWebhookDeliveries
  <2>1. TypeOK'
      BY DEF TypeOK, Terminal
  <2>2. PassInv'
      BY DEF PassInv, TypeOK, Claimable
  <2>3. TokenInv'
      BY DEF TokenInv, TypeOK, Fresh
  <2>4. FenceInv'
      BY DEF FenceInv, TypeOK, Fresh, Claimable
  <2>5. AckInv'
      BY DEF AckInv, SucceededWasAcknowledged, TypeOK
  <2> QED
      BY <2>1, <2>2, <2>3, <2>4, <2>5
<1>2. ASSUME NEW w \in Worker, NEW d \in Delivery, Deliver(w, d)
      PROVE  DeliveryInv'
    BY <1>2 DEF Deliver, TypeOK, PassInv, TokenInv, FenceInv, AckInv,
                SucceededWasAcknowledged, rowVars
<1>3. ASSUME NEW w \in Worker, NEW answered \in BOOLEAN, NEW heard \in BOOLEAN,
             DeliverReturns(w, answered, heard)
      PROVE  DeliveryInv'
  <2> USE <1>3 DEF DeliverReturns, rowVars
  <2>1. TypeOK'
      BY DEF TypeOK
  <2>2. PassInv' /\ TokenInv' /\ FenceInv'
      BY DEF TypeOK, PassInv, TokenInv, FenceInv
  <2>3. AckInv'
      BY DEF AckInv, SucceededWasAcknowledged, TypeOK
  <2> QED
      BY <2>1, <2>2, <2>3
<1>4. ASSUME NEW w \in Worker, MarkWebhookDeliverySucceeded(w)
      PROVE  DeliveryInv'
  <2> USE <1>4 DEF MarkWebhookDeliverySucceeded, Proceed
  <2>0. /\ posting[w] \in held[w]
        /\ seen[w][posting[w]] = count[posting[w]]
        /\ count[posting[w]] < MaxAttempts
      BY DEF PassInv, FenceInv
  <2>1. TypeOK'
      BY <2>0 DEF TypeOK, Terminal, Unseen
  <2>2. PassInv'
      BY DEF PassInv, TypeOK
  <2>3. TokenInv'
      BY DEF TokenInv, TypeOK
  <2>4. FenceInv'
      BY DEF FenceInv, TypeOK, PassInv
  <2>5. AckInv'
      BY DEF AckInv, SucceededWasAcknowledged, TypeOK
  <2> QED
      BY <2>1, <2>2, <2>3, <2>4, <2>5
<1>5. ASSUME NEW w \in Worker, MarkWebhookDeliveryFailed(w)
      PROVE  DeliveryInv'
  <2> USE <1>5 DEF MarkWebhookDeliveryFailed, Proceed
  <2>0. /\ posting[w] \in held[w]
        /\ seen[w][posting[w]] = count[posting[w]]
        /\ count[posting[w]] < MaxAttempts
      BY DEF PassInv, FenceInv
  <2>1. WebhookBackoff(seen[w][posting[w]] + 1) \in 1 .. 32
      BY BackoffRange, <2>0 DEF TypeOK
  <2>2. TypeOK'
      BY <2>0, <2>1 DEF TypeOK, Terminal, Unseen
  <2>3. PassInv'
      BY DEF PassInv, TypeOK
  <2>4. TokenInv'
      BY DEF TokenInv, TypeOK
  <2>5. FenceInv'
      BY DEF FenceInv, TypeOK, PassInv
  <2>6. AckInv'
      BY DEF AckInv, SucceededWasAcknowledged, TypeOK
  <2> QED
      BY <2>2, <2>3, <2>4, <2>5, <2>6
<1>6. ASSUME NEW w \in Worker, LostOwnership(w)
      PROVE  DeliveryInv'
    BY <1>6 DEF LostOwnership, Proceed, rowVars, TypeOK, Unseen, PassInv, TokenInv,
                FenceInv, AckInv, SucceededWasAcknowledged
<1>7. ASSUME NEW w \in Worker, StopPass(w)
      PROVE  DeliveryInv'
    BY <1>7 DEF StopPass, rowVars, TypeOK, Unseen, PassInv, TokenInv, FenceInv,
                AckInv, SucceededWasAcknowledged
<1>8. ASSUME NEW d \in Delivery, EnqueueDelivery(d)
      PROVE  DeliveryInv'
    BY <1>8 DEF EnqueueDelivery, workerVars, TypeOK, PassInv, TokenInv, FenceInv,
                AckInv, SucceededWasAcknowledged
<1>9. ASSUME NEW d \in Delivery, DeleteTerminalWebhookDeliveries(d)
      PROVE  DeliveryInv'
    BY <1>9 DEF DeleteTerminalWebhookDeliveries, workerVars, TypeOK, Terminal, PassInv,
                TokenInv, FenceInv, AckInv, SucceededWasAcknowledged
<1>10. CASE Tick
  <2> USE <1>10 DEF Tick
  <2>1. \A n \in Nat : \A i \in 0 .. n : Less(i) \in 0 .. n
      BY DEF Less
  <2>2. /\ lock' \in [Delivery -> 0 .. ClaimLockTTL]
        /\ wait' \in [Delivery -> 0 .. 32]
        /\ left' \in [Worker -> 0 .. PostTimeout]
      BY <2>1 DEF TypeOK
  <2>3. TypeOK'
      BY <2>2 DEF TypeOK
  <2>4. PassInv' /\ TokenInv' /\ FenceInv' /\ AckInv'
      BY DEF PassInv, TokenInv, FenceInv, AckInv, SucceededWasAcknowledged
  <2> QED
      BY <2>3, <2>4
<1>11. CASE UNCHANGED vars
    BY <1>11 DEF vars, rowVars, workerVars, TypeOK, PassInv, TokenInv, FenceInv, AckInv,
                 SucceededWasAcknowledged
<1> QED
    BY <1>1, <1>2, <1>3, <1>4, <1>5, <1>6, <1>7, <1>8, <1>9, <1>10, <1>11 DEF Next, RunOnce

\* The invariant holds for ever.
LEMMA DeliveryInvHolds == Spec => []DeliveryInv
BY DeliveryInvInit, DeliveryInvStep, PTL DEF Spec

-----------------------------------------------------------------------------

\* The counters, locks and passes stay within their bounds; no delivery is
\* counted more often than max_attempts.
THEOREM WebhookTypeCorrect == Spec => []TypeOK
<1>1. DeliveryInv => TypeOK
    BY DEF DeliveryInv
<1> QED
    BY DeliveryInvHolds, <1>1, PTL

\* A delivery recorded as succeeded was acknowledged by its endpoint.
THEOREM SucceededWasAcknowledgedHolds == Spec => []SucceededWasAcknowledged
<1>1. DeliveryInv => SucceededWasAcknowledged
    BY DEF DeliveryInv, AckInv
<1> QED
    BY DeliveryInvHolds, <1>1, PTL

\* What a newer owner or the retention job recorded is never overwritten, and
\* the attempt count never goes back.
THEOREM StaleWorkerIsFencedHolds == Spec => StaleWorkerIsFenced
<1> DEFINE Fenced(d) ==
       /\ dStatus[d] \in Terminal => dStatus'[d] \in {dStatus[d], "removed"}
       /\ count'[d] >= count[d]
<1>1. ASSUME DeliveryInv, [Next]_vars, NEW d \in Delivery
      PROVE  Fenced(d)
  <2> USE WebhookAssumption, <1>1 DEF DeliveryInv, TypeOK
  <2>1. ASSUME NEW w \in Worker, NEW S \in SUBSET Delivery, NEW k \in Token,
               ClaimPendingWebhookDeliveries(w, S, k)
        PROVE  Fenced(d)
      BY <2>1 DEF ClaimPendingWebhookDeliveries, Claimable, Terminal
  <2>2. ASSUME NEW w \in Worker, MarkWebhookDeliverySucceeded(w)
        PROVE  Fenced(d)
    <3>1. Owns(w, posting[w]) => seen[w][posting[w]] = count[posting[w]]
        BY <2>2 DEF MarkWebhookDeliverySucceeded, PassInv, FenceInv
    <3> QED
        BY <2>2, <3>1 DEF MarkWebhookDeliverySucceeded, Owns, Terminal
  <2>3. ASSUME NEW w \in Worker, MarkWebhookDeliveryFailed(w)
        PROVE  Fenced(d)
    <3>1. Owns(w, posting[w]) => seen[w][posting[w]] = count[posting[w]]
        BY <2>3 DEF MarkWebhookDeliveryFailed, PassInv, FenceInv
    <3> QED
        BY <2>3, <3>1 DEF MarkWebhookDeliveryFailed, Owns, Terminal
  <2>4. ASSUME NEW e \in Delivery, EnqueueDelivery(e) \/ DeleteTerminalWebhookDeliveries(e)
        PROVE  Fenced(d)
      BY <2>4 DEF EnqueueDelivery, DeleteTerminalWebhookDeliveries, Terminal
  <2>5. ASSUME UNCHANGED <<dStatus, count>>
        PROVE  Fenced(d)
      BY <2>5
  <2>6. \/ UNCHANGED <<dStatus, count>>
        \/ \E w \in Worker : \E S \in SUBSET Delivery, k \in Token :
              ClaimPendingWebhookDeliveries(w, S, k)
        \/ \E w \in Worker : MarkWebhookDeliverySucceeded(w) \/ MarkWebhookDeliveryFailed(w)
        \/ \E e \in Delivery : EnqueueDelivery(e) \/ DeleteTerminalWebhookDeliveries(e)
      BY DEF Next, RunOnce, Deliver, DeliverReturns, LostOwnership, StopPass, Tick, vars, rowVars
  <2> QED
      BY <2>1, <2>2, <2>3, <2>4, <2>5, <2>6
<1>2. DeliveryInv /\ [Next]_vars => [\A d \in Delivery : Fenced(d)]_vars
    BY <1>1
<1> QED
    BY <1>2, DeliveryInvHolds, PTL DEF Spec, StaleWorkerIsFenced

-----------------------------------------------------------------------------
(* The refinement.                                                         *)

\* The values of the refinement mapping.
LEMMA FateValues ==
    /\ Fate["absent"] = "none"
    /\ Fate["pending"] = "queued" /\ Fate["delivering"] = "queued"
    /\ Fate["succeeded"] = "delivered" /\ Fate["failed"] = "givenUp"
    /\ Fate["removed"] = "forgotten"
BY DEF Fate

\* Every step of the worker is a step of the promise, or shows nothing.
LEMMA PromiseStep == DeliveryInv /\ [Next]_vars => [Promise!PromiseNext]_(Promise!promise)
<1> SUFFICES ASSUME DeliveryInv, [Next]_vars
             PROVE  [Promise!PromiseNext]_(Promise!promise)
    OBVIOUS
<1> DEFINE fate == [d \in Delivery |-> Fate[dStatus[d]]]
<1> USE WebhookAssumption DEF DeliveryInv
<1>1. ASSUME fate' = fate, UNCHANGED <<count, acked>>
      PROVE  [Promise!PromiseNext]_(Promise!promise)
    BY <1>1 DEF Promise!promise
<1>2. ASSUME NEW w \in Worker, NEW S \in SUBSET Delivery, NEW k \in Token,
             ClaimPendingWebhookDeliveries(w, S, k)
      PROVE  [Promise!PromiseNext]_(Promise!promise)
  <2>1. \A d \in Delivery : Fate[dStatus'[d]] = Fate[dStatus[d]]
      BY <1>2, FateValues DEF ClaimPendingWebhookDeliveries, Claimable
  <2> QED
      BY <1>1, <1>2, <2>1 DEF ClaimPendingWebhookDeliveries
<1>3. ASSUME NEW w \in Worker, NEW answered \in BOOLEAN, NEW heard \in BOOLEAN,
             DeliverReturns(w, answered, heard)
      PROVE  [Promise!PromiseNext]_(Promise!promise)
  <2>1. CASE ~answered
      BY <1>1, <1>3, <2>1 DEF DeliverReturns, rowVars
  <2>2. CASE answered
    <3>1. posting[w] \in Delivery /\ dStatus[posting[w]] # "absent"
        BY <1>3 DEF DeliverReturns, PassInv, TypeOK
    <3>2. fate[posting[w]] # "none"
        BY <3>1, FateValues DEF TypeOK, Terminal
    <3>3. Promise!Acknowledge(posting[w])
        BY <1>3, <2>2, <3>1, <3>2 DEF DeliverReturns, rowVars, Promise!Acknowledge
    <3> QED
        BY <3>1, <3>3 DEF Promise!PromiseNext
  <2> QED
      BY <2>1, <2>2
<1>4. ASSUME NEW w \in Worker, MarkWebhookDeliverySucceeded(w)
      PROVE  [Promise!PromiseNext]_(Promise!promise)
  <2> DEFINE d == posting[w]
  <2>1. /\ d \in Delivery /\ dStatus[d] = "delivering"
        /\ seen[w][d] = count[d] /\ count[d] < MaxAttempts
        /\ d \in acked
      BY <1>4 DEF MarkWebhookDeliverySucceeded, PassInv, FenceInv, AckInv, TypeOK, Owns
  <2>2. fate[d] = "queued"
      BY <2>1, FateValues
  <2>3. fate' = [fate EXCEPT ![d] = "delivered"]
      BY <1>4, <2>1, FateValues DEF MarkWebhookDeliverySucceeded, TypeOK
  <2>4. count' = [count EXCEPT ![d] = @ + 1] /\ acked' = acked
      BY <1>4, <2>1 DEF MarkWebhookDeliverySucceeded, Proceed
  <2>5. Promise!Settle(d, "delivered")
      BY <2>1, <2>2, <2>3, <2>4 DEF Promise!Settle
  <2> QED
      BY <2>1, <2>5 DEF Promise!PromiseNext
<1>5. ASSUME NEW w \in Worker, MarkWebhookDeliveryFailed(w)
      PROVE  [Promise!PromiseNext]_(Promise!promise)
  <2> DEFINE d == posting[w]
             f == IF count[d] + 1 >= MaxAttempts THEN "givenUp" ELSE "queued"
  <2>1. /\ d \in Delivery /\ dStatus[d] = "delivering"
        /\ seen[w][d] = count[d] /\ count[d] < MaxAttempts /\ count[d] \in Nat
      BY <1>5 DEF MarkWebhookDeliveryFailed, PassInv, FenceInv, TypeOK, Owns
  <2>2. fate[d] = "queued"
      BY <2>1, FateValues
  <2>3. fate' = [fate EXCEPT ![d] = f]
      BY <1>5, <2>1, FateValues DEF MarkWebhookDeliveryFailed, TypeOK
  <2>4. count' = [count EXCEPT ![d] = @ + 1] /\ acked' = acked
      BY <1>5, <2>1 DEF MarkWebhookDeliveryFailed, Proceed
  <2>5. CASE count[d] + 1 >= MaxAttempts
    <3>1. fate' = [fate EXCEPT ![d] = "givenUp"]
        BY <2>3, <2>5
    <3>2. Promise!Settle(d, "givenUp")
        BY <2>1, <2>2, <2>4, <2>5, <3>1 DEF Promise!Settle
    <3> QED
        BY <2>1, <3>2 DEF Promise!PromiseNext
  <2>6. CASE ~(count[d] + 1 >= MaxAttempts)
    <3>1. fate' = [fate EXCEPT ![d] = "queued"]
        BY <2>3, <2>6
    <3>2. Promise!Settle(d, "queued")
        BY <2>1, <2>2, <2>4, <2>6, <3>1 DEF Promise!Settle
    <3> QED
        BY <2>1, <3>2 DEF Promise!PromiseNext
  <2> QED
      BY <2>5, <2>6
<1>6. ASSUME NEW d \in Delivery, EnqueueDelivery(d)
      PROVE  [Promise!PromiseNext]_(Promise!promise)
  <2>1. fate[d] = "none" /\ fate' = [fate EXCEPT ![d] = "queued"]
      BY <1>6, FateValues DEF EnqueueDelivery, TypeOK
  <2> QED
      BY <1>6, <2>1 DEF EnqueueDelivery, Promise!Enqueue, Promise!PromiseNext
<1>7. ASSUME NEW d \in Delivery, DeleteTerminalWebhookDeliveries(d)
      PROVE  [Promise!PromiseNext]_(Promise!promise)
  <2>1. fate[d] \in {"delivered", "givenUp"} /\ fate' = [fate EXCEPT ![d] = "forgotten"]
      BY <1>7, FateValues DEF DeleteTerminalWebhookDeliveries, TypeOK, Terminal
  <2> QED
      BY <1>7, <2>1 DEF DeleteTerminalWebhookDeliveries, Promise!Forget, Promise!PromiseNext
<1>8. \/ UNCHANGED <<dStatus, count, acked>>
      \/ \E w \in Worker :
            \/ \E S \in SUBSET Delivery, k \in Token : ClaimPendingWebhookDeliveries(w, S, k)
            \/ \E answered, heard \in BOOLEAN : DeliverReturns(w, answered, heard)
            \/ MarkWebhookDeliverySucceeded(w)
            \/ MarkWebhookDeliveryFailed(w)
      \/ \E d \in Delivery : EnqueueDelivery(d) \/ DeleteTerminalWebhookDeliveries(d)
    BY DEF Next, RunOnce, Deliver, LostOwnership, Proceed, StopPass, Tick, vars, rowVars
<1> QED
    BY <1>1, <1>2, <1>3, <1>4, <1>5, <1>6, <1>7, <1>8

\* To the subscriber the worker is AtLeastOnce: claims, lapsing locks, stale
\* passes and crashes never show, and each try is counted exactly once.
THEOREM KeepsPromiseHolds == Spec => KeepsPromise
<1>1. Init => Promise!PromiseInit
    BY FateValues DEF Init, Promise!PromiseInit
<1> QED
    BY <1>1, PromiseStep, DeliveryInvHolds, PTL DEF Spec, KeepsPromise, Promise!PromiseSpec

-----------------------------------------------------------------------------
(* The lock outlasts the batch.                                            *)

\* The time a pass can still need: what is left of the POST under way and a
\* full timeout for each delivery after it.
Needs(w) ==
    IF posting[w] = NoDelivery
    THEN Cardinality(held[w]) * PostTimeout
    ELSE (Cardinality(held[w]) - 1) * PostTimeout + left[w]

\* A worker that is never paused owns what it holds, and each lock outlasts the
\* time the pass can still need by the buffer.
LockInv ==
    \A w \in Prompt : \A d \in held[w] :
        Owns(w, d) /\ lock[d] >= Needs(w) + LockBuffer

\* The size of what a pass holds, and of what remains of it after one mark.
LEMMA HeldSize ==
    ASSUME TypeOK, NEW w \in Worker
    PROVE  /\ Cardinality(held[w]) \in Nat
           /\ \A d \in held[w] : /\ Cardinality(held[w] \ {d}) = Cardinality(held[w]) - 1
                                 /\ Cardinality(held[w]) >= 1
<1>1. IsFiniteSet(held[w])
    BY WebhookAssumption, FS_Subset DEF TypeOK
<1>2. Cardinality(held[w]) \in Nat
    BY <1>1, FS_CardinalityType
<1>3. ASSUME NEW d \in held[w]
      PROVE  /\ Cardinality(held[w] \ {d}) = Cardinality(held[w]) - 1
             /\ Cardinality(held[w]) >= 1
  <2>1. Cardinality(held[w] \ {d}) = Cardinality(held[w]) - 1
      BY <1>1, FS_RemoveElement
  <2>2. Cardinality(held[w]) # 0
      BY <1>1, FS_EmptySet
  <2> QED
      BY <1>2, <2>1, <2>2
<1> QED
    BY <1>2, <1>3

\* More deliveries need more time.
LEMMA Monotone == \A m, n, p \in Nat : m * p \in Nat /\ (m <= n => m * p <= n * p)
OBVIOUS

\* Needs is a number, and positive while a POST has time left.
LEMMA NeedsType ==
    ASSUME DeliveryInv, NEW w \in Worker
    PROVE  /\ Needs(w) \in Nat
           /\ posting[w] # NoDelivery => Needs(w) >= left[w]
<1>1. Cardinality(held[w]) \in Nat /\ left[w] \in Nat /\ PostTimeout \in Nat
    BY HeldSize, WebhookAssumption DEF DeliveryInv, TypeOK
<1>2. CASE posting[w] = NoDelivery
    BY <1>1, <1>2 DEF Needs
<1>3. CASE posting[w] # NoDelivery
  <2>0. posting[w] \in held[w] /\ TypeOK
      BY <1>3 DEF DeliveryInv, PassInv
  <2>1. Cardinality(held[w]) - 1 \in Nat
    <3>1. Cardinality(held[w]) >= 1
        BY <2>0, HeldSize
    <3> QED
        BY <1>1, <3>1
  <2>2. (Cardinality(held[w]) - 1) * PostTimeout \in Nat
    <3>1. \A m \in Nat : m * PostTimeout \in Nat
        BY <1>1, Monotone
    <3> QED
        BY <2>1, <3>1
  <2> QED
      BY <1>1, <1>3, <2>2 DEF Needs
<1> QED
    BY <1>2, <1>3

\* The lock of a held row is never 0 in the hands of a worker that is not
\* paused, so no other pass takes the row over.
LEMMA LockStep == DeliveryInv /\ LockInv /\ [Next]_vars => LockInv'
<1> SUFFICES ASSUME DeliveryInv, LockInv, [Next]_vars, NEW p \in Prompt, NEW e \in held'[p]
             PROVE  Owns(p, e)' /\ lock'[e] >= Needs(p)' + LockBuffer
    BY DEF LockInv
<1> USE WebhookAssumption
<1>0. p \in Worker /\ e \in Delivery /\ TypeOK /\ TypeOK'
    BY DeliveryInvStep DEF DeliveryInv, TypeOK
<1>t. /\ Needs(p) \in Nat
      /\ e \in held[p] => lock[e] > 0 /\ Owns(p, e) /\ lock[e] >= Needs(p) + LockBuffer
    BY <1>0, NeedsType DEF LockInv, TypeOK
<1>s. /\ Cardinality(held[p]) \in Nat
      /\ posting[p] # NoDelivery =>
            /\ Cardinality(held[p]) >= 1
            /\ Cardinality(held[p] \ {posting[p]}) = Cardinality(held[p]) - 1
    BY <1>0, HeldSize DEF DeliveryInv, PassInv
\* A step that leaves the worker and its rows alone.
<1>q. ASSUME UNCHANGED <<pass[p], held[p], posting[p], left[p], dStatus[e], token[e], lock[e]>>
      PROVE  Owns(p, e)' /\ lock'[e] >= Needs(p)' + LockBuffer
    BY <1>q, <1>t DEF Owns, Needs
<1>1. ASSUME NEW w \in Worker, NEW S \in SUBSET Delivery, NEW k \in Token,
             ClaimPendingWebhookDeliveries(w, S, k)
      PROVE  Owns(p, e)' /\ lock'[e] >= Needs(p)' + LockBuffer
  <2> USE <1>0, <1>1 DEF ClaimPendingWebhookDeliveries
  <2>1. CASE w = p
    <3>1. held'[p] = S /\ e \in S
        BY <2>1 DEF TypeOK
    <3>2. posting[p] = NoDelivery
        BY <2>1 DEF DeliveryInv, PassInv, TypeOK
    <3>3. Needs(p)' = Cardinality(S) * PostTimeout
        BY <3>1, <3>2 DEF Needs
    <3>4. Cardinality(S) \in Nat
        BY <3>1, HeldSize, FS_Subset, FS_CardinalityType
    <3>5. Cardinality(S) * PostTimeout <= BatchLimit * PostTimeout
        BY <3>4, Monotone
    <3>6. Cardinality(S) * PostTimeout \in Nat /\ BatchLimit * PostTimeout \in Nat
        BY <3>4
    <3>7. lock'[e] = ClaimLockTTL
        BY <3>1
    <3>8. Owns(p, e)'
        BY <2>1, <3>1 DEF Owns, TypeOK
    <3> QED
        BY <3>3, <3>5, <3>6, <3>7, <3>8, LockCoversBatch
  <2>2. CASE w # p
    <3>1. held'[p] = held[p] /\ pass'[p] = pass[p]
        BY <2>2 DEF TypeOK
    <3>2. e \notin S
        BY <3>1, <1>t DEF Claimable, Owns
    <3> QED
        BY <1>q, <3>1, <3>2
  <2> QED
      BY <2>1, <2>2
<1>2. ASSUME NEW w \in Worker, NEW d \in Delivery, Deliver(w, d)
      PROVE  Owns(p, e)' /\ lock'[e] >= Needs(p)' + LockBuffer
  <2> USE <1>0, <1>2 DEF Deliver, rowVars
  <2>1. CASE w = p
    <3>1. Needs(p)' = (Cardinality(held[p]) - 1) * PostTimeout + PostTimeout
        BY <2>1 DEF Needs, TypeOK
    <3>2. Needs(p) = Cardinality(held[p]) * PostTimeout
        BY <2>1 DEF Needs
    <3>3. Needs(p)' = Needs(p)
        BY <1>s, <3>1, <3>2
    <3> QED
        BY <1>t, <3>3 DEF Owns
  <2>2. CASE w # p
      BY <1>q, <2>2 DEF TypeOK
  <2> QED
      BY <2>1, <2>2
<1>3. ASSUME NEW w \in Worker, NEW answered \in BOOLEAN, NEW heard \in BOOLEAN,
             DeliverReturns(w, answered, heard)
      PROVE  Owns(p, e)' /\ lock'[e] >= Needs(p)' + LockBuffer
    BY <1>q, <1>3 DEF DeliverReturns, rowVars
\* The pass of p goes on: it holds one delivery less.
<1>p. ASSUME posting[p] # NoDelivery, held'[p] = held[p] \ {posting[p]},
             posting'[p] = NoDelivery, pass'[p] = pass[p],
             UNCHANGED <<dStatus[e], token[e], lock[e]>>
      PROVE  Owns(p, e)' /\ lock'[e] >= Needs(p)' + LockBuffer
  <2>1. Needs(p)' = (Cardinality(held[p]) - 1) * PostTimeout
      BY <1>p, <1>s DEF Needs
  <2>2. Needs(p) = (Cardinality(held[p]) - 1) * PostTimeout + left[p]
      BY <1>p DEF Needs
  <2>3. (Cardinality(held[p]) - 1) * PostTimeout \in Nat
    <3>1. Cardinality(held[p]) - 1 \in Nat
        BY <1>p, <1>s
    <3> QED
        BY <3>1
  <2>4. left[p] \in Nat /\ lock[e] \in Nat
      BY <1>0 DEF TypeOK
  <2> QED
      BY <1>p, <1>t, <2>1, <2>2, <2>3, <2>4 DEF Owns
<1>4. ASSUME NEW w \in Worker, MarkWebhookDeliverySucceeded(w) \/ MarkWebhookDeliveryFailed(w)
      PROVE  Owns(p, e)' /\ lock'[e] >= Needs(p)' + LockBuffer
  <2> USE <1>0, <1>4 DEF MarkWebhookDeliverySucceeded, MarkWebhookDeliveryFailed, Proceed
  <2>1. CASE w = p
    <3>1. e \in held[p] /\ e # posting[p]
        BY <2>1 DEF TypeOK
    <3> QED
        BY <1>p, <2>1, <3>1 DEF TypeOK
  <2>2. CASE w # p
    <3>1. e \in held[p] /\ Owns(w, posting[w]) /\ posting[w] # NoDelivery
        BY <2>2 DEF TypeOK
    <3>2. pass[p] # NoToken /\ pass[w] # pass[p]
        BY <2>2, <3>1 DEF DeliveryInv, PassInv, TokenInv
    <3>3. e # posting[w]
        BY <1>t, <3>1, <3>2 DEF Owns
    <3> QED
        BY <1>q, <2>2, <3>3 DEF TypeOK
  <2> QED
      BY <2>1, <2>2
<1>5. ASSUME NEW w \in Worker, LostOwnership(w)
      PROVE  Owns(p, e)' /\ lock'[e] >= Needs(p)' + LockBuffer
  <2> USE <1>0, <1>5 DEF LostOwnership, Proceed, rowVars
  <2>1. CASE w = p
      BY <1>p, <2>1 DEF TypeOK
  <2>2. CASE w # p
      BY <1>q, <2>2 DEF TypeOK
  <2> QED
      BY <2>1, <2>2
<1>6. ASSUME NEW w \in Worker, StopPass(w)
      PROVE  Owns(p, e)' /\ lock'[e] >= Needs(p)' + LockBuffer
  <2>1. w # p
      BY <1>0, <1>6 DEF StopPass, TypeOK
  <2> QED
      BY <1>0, <1>q, <1>6, <2>1 DEF StopPass, rowVars, TypeOK
<1>7. ASSUME NEW d \in Delivery, EnqueueDelivery(d) \/ DeleteTerminalWebhookDeliveries(d)
      PROVE  Owns(p, e)' /\ lock'[e] >= Needs(p)' + LockBuffer
  <2>1. e \in held[p]
      BY <1>7 DEF EnqueueDelivery, DeleteTerminalWebhookDeliveries, workerVars
  <2>2. e # d
      BY <1>t, <1>7, <2>1 DEF EnqueueDelivery, DeleteTerminalWebhookDeliveries, Owns, Terminal
  <2> QED
      BY <1>0, <1>q, <1>7, <2>2
         DEF EnqueueDelivery, DeleteTerminalWebhookDeliveries, workerVars, TypeOK
<1>8. CASE Tick
  <2> USE <1>0, <1>8 DEF Tick
  <2>1. e \in held[p] /\ pass[p] # NoToken
      BY DEF DeliveryInv, PassInv
  <2>2. posting[p] # NoDelivery /\ left[p] > 0
      BY <2>1
  <2>3. left'[p] = left[p] - 1 /\ left[p] \in Nat
      BY <2>2 DEF Less, TypeOK
  <2>4. lock'[e] = lock[e] - 1 /\ lock[e] \in Nat
      BY <1>t, <2>1 DEF Less, TypeOK
  <2>5. Needs(p)' = Needs(p) - 1
    <3>1. (Cardinality(held[p]) - 1) * PostTimeout \in Int
        BY <1>s
    <3> QED
        BY <2>2, <2>3, <3>1 DEF Needs
  <2> QED
      BY <1>t, <2>1, <2>4, <2>5 DEF Owns
<1>9. CASE UNCHANGED vars
    BY <1>q, <1>9 DEF vars, rowVars, workerVars
<1> QED
    BY <1>1, <1>2, <1>3, <1>4, <1>5, <1>6, <1>7, <1>8, <1>9 DEF Next, RunOnce

\* The lock time is long enough for a batch of any size: a worker that is not
\* paused owns every delivery of its pass until it has recorded the result.
THEOREM PromptWorkerKeepsOwnershipHolds == Spec => []PromptWorkerKeepsOwnership
<1>1. Init => LockInv
    BY WebhookAssumption DEF Init, LockInv
<1>2. LockInv => PromptWorkerKeepsOwnership
    BY DEF LockInv, PromptWorkerKeepsOwnership
<1> QED
    BY <1>1, <1>2, LockStep, DeliveryInvHolds, PTL DEF Spec

-----------------------------------------------------------------------------
(* No delivery is stranded.                                                *)

Unsettled(d) == dStatus[d] \in {"pending", "delivering"}

\* Only the clock stands between an unsettled delivery and its next claim: it has
\* tries left, and what it may have to wait for is its back-off or a lock, which
\* both run down. (A row that used its tries up and was not failed would match no
\* claim and no clean-up.)
NothingIsStranded ==
    \A d \in Delivery : Unsettled(d) =>
        Claimable(d) \/ wait[d] > 0 \/ (dStatus[d] = "delivering" /\ lock[d] > 0)

TriesLeft == \A d \in Delivery : Unsettled(d) \/ dStatus[d] = "absent" => count[d] < MaxAttempts

LEMMA TriesLeftStep == DeliveryInv /\ TriesLeft /\ [Next]_vars => TriesLeft'
<1> SUFFICES ASSUME DeliveryInv, TriesLeft, [Next]_vars PROVE TriesLeft'
    OBVIOUS
<1> USE WebhookAssumption DEF DeliveryInv, TriesLeft, Unsettled
<1>1. ASSUME NEW w \in Worker, NEW S \in SUBSET Delivery, NEW k \in Token,
             ClaimPendingWebhookDeliveries(w, S, k)
      PROVE  TriesLeft'
    BY <1>1 DEF ClaimPendingWebhookDeliveries, Claimable, TypeOK
<1>2. ASSUME NEW w \in Worker, MarkWebhookDeliverySucceeded(w) PROVE TriesLeft'
    BY <1>2 DEF MarkWebhookDeliverySucceeded, TypeOK
<1>3. ASSUME NEW w \in Worker, MarkWebhookDeliveryFailed(w) PROVE TriesLeft'
  <2> DEFINE n == seen[w][posting[w]] + 1
  <2>1. /\ posting[w] \in Delivery /\ n \in Nat
        /\ dStatus' = [dStatus EXCEPT ![posting[w]] = IF n >= MaxAttempts THEN "failed" ELSE "pending"]
        /\ count' = [count EXCEPT ![posting[w]] = n]
    BY <1>3 DEF MarkWebhookDeliveryFailed, TypeOK
  <2> HIDE DEF n
  <2>2. ASSUME NEW d \in Delivery, Unsettled(d)' \/ dStatus'[d] = "absent" PROVE count'[d] < MaxAttempts
    <3>1. CASE d = posting[w]
      BY <2>1, <2>2, <3>1 DEF TypeOK
    <3>2. CASE d # posting[w]
      BY <2>1, <2>2, <3>2 DEF TypeOK
    <3> QED BY <3>1, <3>2
  <2> QED BY <2>2
<1>4. ASSUME NEW d \in Delivery, EnqueueDelivery(d) \/ DeleteTerminalWebhookDeliveries(d)
      PROVE  TriesLeft'
  <2>1. CASE EnqueueDelivery(d)
    BY <2>1 DEF EnqueueDelivery, TypeOK
  <2>2. CASE DeleteTerminalWebhookDeliveries(d)
    BY <2>2 DEF DeleteTerminalWebhookDeliveries, TypeOK
  <2> QED BY <1>4, <2>1, <2>2
<1>5. CASE UNCHANGED <<dStatus, count>>
    BY <1>5
<1> QED
    BY <1>1, <1>2, <1>3, <1>4, <1>5
       DEF Next, RunOnce, Deliver, DeliverReturns, LostOwnership, Proceed, StopPass, Tick, vars, rowVars

\* Passes cut short, lost answers and stale workers leave no delivery behind: in every
\* state each unsettled one is claimable now or when its back-off or lock has run down
\* (ClaimPendingWebhookDeliveries takes delivering rows over).
THEOREM NothingIsStrandedHolds == Spec => []NothingIsStranded
<1>1. Init => TriesLeft
    BY WebhookAssumption DEF Init, TriesLeft, Unsettled
<1>2. DeliveryInv /\ TriesLeft => NothingIsStranded
  <2> SUFFICES ASSUME DeliveryInv, TriesLeft, NEW d \in Delivery, Unsettled(d)
               PROVE  Claimable(d) \/ wait[d] > 0 \/ (dStatus[d] = "delivering" /\ lock[d] > 0)
    BY DEF NothingIsStranded
  <2>1. wait[d] \in 0 .. 32 /\ lock[d] \in 0 .. ClaimLockTTL /\ ClaimLockTTL \in Nat
    BY LockCoversBatch DEF DeliveryInv, TypeOK
  <2>2. (wait[d] = 0 \/ wait[d] > 0) /\ (lock[d] = 0 \/ lock[d] > 0)
    BY <2>1
  <2>3. count[d] < MaxAttempts
    BY DEF TriesLeft
  <2> QED BY <2>2, <2>3 DEF Unsettled, Claimable
<1> QED
    BY <1>1, <1>2, TriesLeftStep, DeliveryInvHolds, PTL DEF Spec
=============================================================================
