--------------------------- MODULE WebhookDelivery ---------------------------
(***************************************************************************)
(* The webhook delivery worker: rows of webhook_deliveries, the statement  *)
(* that claims a batch of them under a lock with a time limit, the POST of *)
(* each one, and the statements that record its result, fenced by the      *)
(* claim token of the pass.                                                *)
(*                                                                         *)
(* Time is kept as what is left of each delay (a lock, a back-off, the     *)
(* timeout of a POST), counted down together by Tick, so that nothing      *)
(* bounds how long the system runs. No operation deactivates a             *)
(* subscription, and only active ones get deliveries, so the condition     *)
(* s.active of the claim holds for every row.                              *)
(***************************************************************************)
EXTENDS Naturals, FiniteSets

CONSTANTS
    Delivery,     \* the deliveries: one per subscription and event
    Worker,       \* concurrent RunOnce loops, in one process or several
    Prompt,       \* the workers whose process is never paused
    Token,        \* claim tokens; NoToken is the column's NULL
    NoToken,
    NoDelivery,   \* the worker is not posting
    MaxAttempts,  \* webhook_deliveries.max_attempts
    BatchLimit,   \* deliveries claimed by one pass
    MinLockTTL,   \* the worker's lockTTL
    PostTimeout,  \* defaultWebhookTimeout
    LockBuffer,   \* defaultWebhookLockBuffer
    MaxStops      \* bound on passes cut short by an error or a crash

ASSUME WebhookAssumption ==
    /\ IsFiniteSet(Delivery)
    /\ Prompt \subseteq Worker
    /\ NoToken \notin Token
    /\ NoDelivery \notin Delivery
    /\ MaxAttempts \in Nat \ {0}
    /\ BatchLimit \in Nat \ {0}
    /\ MinLockTTL \in Nat \ {0}
    /\ PostTimeout \in Nat \ {0}
    /\ LockBuffer \in Nat \ {0}
    /\ MaxStops \in Nat

VARIABLES
    dStatus,  \* webhook_deliveries.status; "absent" before, "removed" after
    count,    \* attempt_count
    lock,     \* what is left until locked_until
    wait,     \* what is left until next_attempt_at
    token,    \* claim_token
    pass,     \* the token of the worker's pass, NoToken between passes
    held,     \* the deliveries of the pass still to be posted
    seen,     \* the attempt_count each claimed row was returned with
    posting,  \* the delivery the worker is posting or has posted
    left,     \* what is left of that POST's timeout
    outcome,  \* its outcome: "open", "ok" (2xx) or "bad"
    acked,    \* history: deliveries the endpoint answered with 2xx
    stops     \* how many passes were cut short

rowVars == <<dStatus, count, lock, wait, token>>
workerVars == <<pass, held, seen, posting, left, outcome>>
vars == <<rowVars, workerVars, acked, stops>>

Maximum(i, j) == IF i >= j THEN i ELSE j

\* Mutant: the configured lock time, whatever the size of the batch.
ShortLockTTL == MinLockTTL

\* The lock outlasts the whole batch at one timeout per POST, and a buffer.
ClaimLockTTL == Maximum(MinLockTTL, BatchLimit * PostTimeout + LockBuffer)

\* Doubling from one minute, clamped to 1 .. 32 minutes.
WebhookBackoff(n) ==
    LET clamped == IF n < 1 THEN 1 ELSE IF n > 6 THEN 6 ELSE n
    IN  <<1, 2, 4, 8, 16, 32>>[clamped]

Terminal == {"succeeded", "failed"}

\* The counters, locks and passes stay within their bounds: above all, no
\* delivery is tried more often than max_attempts.
TypeOK ==
    /\ dStatus \in [Delivery -> {"absent", "pending", "delivering", "removed"} \cup Terminal]
    /\ count \in [Delivery -> 0 .. MaxAttempts]
    /\ lock \in [Delivery -> 0 .. ClaimLockTTL]
    /\ wait \in [Delivery -> 0 .. 32]
    /\ token \in [Delivery -> Token \cup {NoToken}]
    /\ pass \in [Worker -> Token \cup {NoToken}]
    /\ held \in [Worker -> SUBSET Delivery]
    /\ seen \in [Worker -> [Delivery -> 0 .. MaxAttempts]]
    /\ posting \in [Worker -> Delivery \cup {NoDelivery}]
    /\ left \in [Worker -> 0 .. PostTimeout]
    /\ outcome \in [Worker -> {"open", "ok", "bad"}]
    /\ acked \subseteq Delivery
    /\ stops \in 0 .. MaxStops

Unseen == [d \in Delivery |-> 0]

Init ==
    /\ dStatus = [d \in Delivery |-> "absent"]
    /\ count = [d \in Delivery |-> 0]
    /\ lock = [d \in Delivery |-> 0]
    /\ wait = [d \in Delivery |-> 0]
    /\ token = [d \in Delivery |-> NoToken]
    /\ pass = [w \in Worker |-> NoToken]
    /\ held = [w \in Worker |-> {}]
    /\ seen = [w \in Worker |-> Unseen]
    /\ posting = [w \in Worker |-> NoDelivery]
    /\ left = [w \in Worker |-> 0]
    /\ outcome = [w \in Worker |-> "open"]
    /\ acked = {}
    /\ stops = 0

-----------------------------------------------------------------------------

\* The insert trigger on ticket_events: a pending row, due at once.
EnqueueDelivery(d) ==
    /\ dStatus[d] = "absent"
    /\ dStatus' = [dStatus EXCEPT ![d] = "pending"]
    /\ UNCHANGED <<count, lock, wait, token, workerVars, acked, stops>>

\* Mutant: a delivering row is never taken over.
PendingOnly(d) == dStatus[d] = "pending" /\ count[d] < MaxAttempts /\ wait[d] = 0

\* Due, not exhausted, and not under another pass's unexpired lock.
Claimable(d) ==
    /\ dStatus[d] \in {"pending", "delivering"}
    /\ count[d] < MaxAttempts
    /\ wait[d] = 0
    /\ dStatus[d] = "delivering" => lock[d] = 0

\* A token no row and no pass uses: 16 random bytes.
Fresh(k) == (\A d \in Delivery : token[d] # k) /\ (\A w \in Worker : pass[w] # k)

\* A pass starts with the claim of at most BatchLimit rows; a pass that finds
\* none changes nothing.
ClaimPendingWebhookDeliveries(w, S, k) ==
    /\ pass[w] = NoToken
    /\ S # {} /\ Cardinality(S) <= BatchLimit
    /\ \A d \in S : Claimable(d)
    /\ Fresh(k)
    /\ dStatus' = [d \in Delivery |-> IF d \in S THEN "delivering" ELSE dStatus[d]]
    /\ lock' = [d \in Delivery |-> IF d \in S THEN ClaimLockTTL ELSE lock[d]]
    /\ token' = [d \in Delivery |-> IF d \in S THEN k ELSE token[d]]
    /\ pass' = [pass EXCEPT ![w] = k]
    /\ held' = [held EXCEPT ![w] = S]
    /\ seen' = [seen EXCEPT ![w] = [d \in Delivery |-> IF d \in S THEN count[d] ELSE 0]]
    /\ UNCHANGED <<count, wait, posting, left, outcome, acked, stops>>

\* deliver: the POST of the next claimed delivery is sent.
Deliver(w, d) ==
    /\ posting[w] = NoDelivery
    /\ d \in held[w]
    /\ posting' = [posting EXCEPT ![w] = d]
    /\ left' = [left EXCEPT ![w] = PostTimeout]
    /\ outcome' = [outcome EXCEPT ![w] = "open"]
    /\ UNCHANGED <<rowVars, pass, held, seen, acked, stops>>

\* The POST returns: the endpoint may have answered 2xx, and the answer may
\* have been lost or have come too late to be heard.
DeliverReturns(w, answered, heard) ==
    /\ posting[w] # NoDelivery /\ outcome[w] = "open"
    /\ outcome' = [outcome EXCEPT ![w] = IF answered /\ heard THEN "ok" ELSE "bad"]
    /\ acked' = IF answered THEN acked \cup {posting[w]} ELSE acked
    /\ UNCHANGED <<rowVars, pass, held, seen, posting, left, stops>>

\* Mutant: results are recorded by id alone, without the fence.
OwnsUnfenced(w, d) == pass[w] # NoToken

\* The row is still delivering under the token of this pass.
Owns(w, d) == token[d] = pass[w] /\ dStatus[d] = "delivering"

\* The pass goes on to its next delivery, or ends with the last one.
Proceed(w) ==
    LET rest == held[w] \ {posting[w]}
    IN  /\ held' = [held EXCEPT ![w] = rest]
        /\ pass' = [pass EXCEPT ![w] = IF rest = {} THEN NoToken ELSE @]
        /\ seen' = [seen EXCEPT ![w] = IF rest = {} THEN Unseen ELSE @]
        /\ posting' = [posting EXCEPT ![w] = NoDelivery]
        /\ left' = [left EXCEPT ![w] = 0]
        /\ outcome' = [outcome EXCEPT ![w] = "open"]
        /\ UNCHANGED <<acked, stops>>

MarkWebhookDeliverySucceeded(w) ==
    LET d == posting[w]
    IN  /\ d # NoDelivery /\ outcome[w] = "ok"
        /\ Owns(w, d)
        /\ dStatus' = [dStatus EXCEPT ![d] = "succeeded"]
        /\ count' = [count EXCEPT ![d] = seen[w][d] + 1]
        /\ lock' = [lock EXCEPT ![d] = 0]
        /\ UNCHANGED <<wait, token>>
        /\ Proceed(w)

\* Mutant: the limit is off by one.
MarkFailedOneMore(w) ==
    LET d == posting[w]
        n == seen[w][d] + 1
    IN  /\ d # NoDelivery /\ outcome[w] = "bad"
        /\ Owns(w, d)
        /\ dStatus' = [dStatus EXCEPT ![d] = IF n > MaxAttempts THEN "failed" ELSE "pending"]
        /\ count' = [count EXCEPT ![d] = n]
        /\ lock' = [lock EXCEPT ![d] = 0]
        /\ wait' = [wait EXCEPT ![d] = WebhookBackoff(n)]
        /\ UNCHANGED token
        /\ Proceed(w)

MarkWebhookDeliveryFailed(w) ==
    LET d == posting[w]
        n == seen[w][d] + 1
    IN  /\ d # NoDelivery /\ outcome[w] = "bad"
        /\ Owns(w, d)
        /\ dStatus' = [dStatus EXCEPT ![d] = IF n >= MaxAttempts THEN "failed" ELSE "pending"]
        /\ count' = [count EXCEPT ![d] = n]
        /\ lock' = [lock EXCEPT ![d] = 0]
        /\ wait' = [wait EXCEPT ![d] = WebhookBackoff(n)]
        /\ UNCHANGED token
        /\ Proceed(w)

\* The mark matches no row: another pass took the delivery over.
LostOwnership(w) ==
    /\ posting[w] # NoDelivery /\ outcome[w] # "open"
    /\ ~Owns(w, posting[w])
    /\ Proceed(w)
    /\ UNCHANGED rowVars

\* A database error, a cancelled context or a crash: the rest of the batch
\* keeps its lock until that lapses.
StopPass(w) ==
    /\ pass[w] # NoToken
    /\ stops < MaxStops
    /\ stops' = stops + 1
    /\ pass' = [pass EXCEPT ![w] = NoToken]
    /\ held' = [held EXCEPT ![w] = {}]
    /\ seen' = [seen EXCEPT ![w] = Unseen]
    /\ posting' = [posting EXCEPT ![w] = NoDelivery]
    /\ left' = [left EXCEPT ![w] = 0]
    /\ outcome' = [outcome EXCEPT ![w] = "open"]
    /\ UNCHANGED <<rowVars, acked>>

\* Maintenance removes settled rows after the retention time.
DeleteTerminalWebhookDeliveries(d) ==
    /\ dStatus[d] \in Terminal
    /\ dStatus' = [dStatus EXCEPT ![d] = "removed"]
    /\ UNCHANGED <<count, lock, wait, token, workerVars, acked, stops>>

Less(n) == IF n = 0 THEN 0 ELSE n - 1

\* A worker that is never paused spends time in a POST only, and at most
\* PostTimeout in each; the others may be paused anywhere.
Tick ==
    /\ \A w \in Prompt :
          pass[w] # NoToken => posting[w] # NoDelivery /\ outcome[w] = "open" /\ left[w] > 0
    /\ lock' = [d \in Delivery |-> Less(lock[d])]
    /\ wait' = [d \in Delivery |-> Less(wait[d])]
    /\ left' = [w \in Worker |-> Less(left[w])]
    /\ UNCHANGED <<dStatus, count, token, pass, held, seen, posting, outcome, acked, stops>>

-----------------------------------------------------------------------------

\* One step of RunOnce.
RunOnce(w) ==
    \/ \E S \in SUBSET Delivery, k \in Token : ClaimPendingWebhookDeliveries(w, S, k)
    \/ \E d \in Delivery : Deliver(w, d)
    \/ \E answered, heard \in BOOLEAN : DeliverReturns(w, answered, heard)
    \/ MarkWebhookDeliverySucceeded(w)
    \/ MarkWebhookDeliveryFailed(w)
    \/ LostOwnership(w)

Next ==
    \/ \E w \in Worker : RunOnce(w) \/ StopPass(w)
    \/ \E d \in Delivery : EnqueueDelivery(d) \/ DeleteTerminalWebhookDeliveries(d)
    \/ Tick

Spec == Init /\ [][Next]_vars

\* The worker loop runs passes for ever (runWorkerLoop) and time passes.
FairSpec == Spec /\ WF_vars(Tick) /\ \A w \in Worker : WF_vars(RunOnce(w))

-----------------------------------------------------------------------------
(* What makes the worker correct.                                          *)

\* A delivery is recorded as succeeded only if the endpoint acknowledged it,
\* whichever pass records it and whatever became of the earlier ones.
SucceededWasAcknowledged ==
    \A d \in Delivery : dStatus[d] = "succeeded" => d \in acked

\* A settled delivery stays settled, and the attempt count never goes back: a
\* pass that lost its lock cannot overwrite what a newer owner recorded.
StaleWorkerIsFenced ==
    [][\A d \in Delivery :
          /\ dStatus[d] \in Terminal => dStatus'[d] \in {dStatus[d], "removed"}
          /\ count'[d] >= count[d]]_vars

\* The lock is long enough: a pass that is never paused owns every delivery it
\* claimed until it has recorded its result, up to the last of the batch.
PromptWorkerKeepsOwnership ==
    \A w \in Prompt : \A d \in held[w] : Owns(w, d)

\* Every delivery is settled: passes cut short, lost answers and stalled
\* workers delay it, but do not leave it pending or delivering for ever.
EveryDeliverySettles ==
    \A d \in Delivery : dStatus[d] = "pending" ~> dStatus[d] \in Terminal \cup {"removed"}

-----------------------------------------------------------------------------
(* The worker implements the promise made to subscribers.                  *)

\* What the status of a row means to the subscriber: a claim is invisible.
Fate == [absent |-> "none", pending |-> "queued", delivering |-> "queued",
         succeeded |-> "delivered", failed |-> "givenUp", removed |-> "forgotten"]

Promise == INSTANCE AtLeastOnce WITH
    Message <- Delivery, MaxTries <- MaxAttempts,
    fate <- [d \in Delivery |-> Fate[dStatus[d]]], tries <- count, acknowledged <- acked

\* Claims, locks that lapse, stale passes and crashes never show: to the
\* subscriber the worker is AtLeastOnce, counting each try exactly once.
KeepsPromise == Promise!PromiseSpec
=============================================================================
