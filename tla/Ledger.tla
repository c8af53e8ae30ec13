------------------------------- MODULE Ledger -------------------------------
(***************************************************************************)
(* The execution core of Forge: the tickets and attempts tables, the       *)
(* statements that change their status, and the maintenance worker that    *)
(* expires attempts whose lease has lapsed.                                *)
(*                                                                         *)
(* A statement of sql/queries is one atomic step, with one exception.      *)
(* PostgreSQL runs these statements at READ COMMITTED: every sub-select    *)
(* reads the snapshot taken when the statement starts, while a row the     *)
(* statement locks is re-read and its own WHERE conditions re-checked.     *)
(* ClaimNextTicket decides on rows it does not lock (the dependencies and  *)
(* the failed attempts of a ticket), so it is two steps here: the snapshot *)
(* (ClaimNext) and the locking update (ClaimNextTicket).                   *)
(***************************************************************************)
EXTENDS Naturals, FiniteSets

CONSTANTS
    Ticket,       \* the tickets of one project
    Attempt,      \* the attempt identifiers available to this instance
    Claimer,      \* the claim-next calls that can be in flight together
    Worker,       \* the maintenance worker processes
    NoTicket,     \* the ticket of an attempt that was not created yet
    DependsOn,    \* the dependencies each ticket is created with
    RetryPolicy,  \* the retry_policy each ticket is created with
    Suits,        \* the tickets each claimer's type, tag, harness and
                  \* capability filters accept
    Lease,        \* the lease lengths requested by claims and heartbeats
    BatchLimit,   \* how many lapsed attempts one worker pass lists
    MaxTime,      \* bound of the clock
    MaxStops      \* bound on worker passes cut short by an error or a crash

ASSUME LedgerAssumption ==
    /\ NoTicket \notin Ticket
    /\ IsFiniteSet(Attempt)
    /\ IsFiniteSet(Claimer) /\ Claimer # {}
    /\ DependsOn \in [Ticket -> SUBSET Ticket]
    /\ RetryPolicy \in [Ticket -> [max_attempts : Nat,
                                   on_failure : {"return_to_todo", "mark_failed", "needs_review"},
                                   requires_review_on_success : BOOLEAN]]
    /\ Suits \in [Claimer -> SUBSET Ticket]
    /\ Lease \subseteq Nat \ {0}
    /\ BatchLimit \in Nat \ {0}
    /\ MaxTime \in Nat
    /\ MaxStops \in Nat

TicketStatus == {"absent", "backlog", "todo", "in_progress", "blocked",
                 "needs_review", "done", "failed", "archived"}

Terminal == {"succeeded", "failed", "blocked", "expired", "cancelled"}

AttemptStatus == {"absent", "running"} \cup Terminal

VARIABLES
    status,     \* tickets.status, "absent" before the row exists
    finished,   \* history: the tickets that have been "done" at some time
    attStatus,  \* attempts.status, "absent" before the row exists
    attTicket,  \* attempts.ticket_id
    lease,      \* attempts.lease_expires_at
    now,        \* the clock of the servers and workers
    snapshot,   \* candidates a claim in flight saw when its statement started
    cutoff,     \* the worker's "now", fixed when its pass starts
    batch,      \* the listed attempts the worker's pass has still to expire
    stops       \* how many worker passes were cut short

ticketVars == <<status, finished>>
attemptVars == <<attStatus, attTicket, lease>>
claimVars == <<snapshot>>
workerVars == <<cutoff, batch, stops>>
vars == <<ticketVars, attemptVars, now, claimVars, workerVars>>

\* Every attempt that exists belongs to a ticket, and the tables, the claims in
\* flight and the worker passes hold values of their columns' types.
TypeOK ==
    /\ status \in [Ticket -> TicketStatus]
    /\ finished \subseteq Ticket
    /\ attStatus \in [Attempt -> AttemptStatus]
    /\ attTicket \in [Attempt -> Ticket \cup {NoTicket}]
    /\ \A a \in Attempt : attStatus[a] # "absent" => attTicket[a] \in Ticket
    /\ lease \in [Attempt -> Nat]
    /\ now \in 0 .. MaxTime
    /\ snapshot \in [Claimer -> SUBSET Ticket]
    /\ cutoff \in [Worker -> 0 .. MaxTime]
    /\ batch \in [Worker -> SUBSET Attempt]
    /\ stops \in 0 .. MaxStops

Init ==
    /\ status = [t \in Ticket |-> "absent"]
    /\ finished = {}
    /\ attStatus = [a \in Attempt |-> "absent"]
    /\ attTicket = [a \in Attempt |-> NoTicket]
    /\ lease = [a \in Attempt |-> 0]
    /\ now = 0
    /\ snapshot = [c \in Claimer |-> {}]
    /\ cutoff = [w \in Worker |-> 0]
    /\ batch = [w \in Worker |-> {}]
    /\ stops = 0

-----------------------------------------------------------------------------
(* Helpers shared by the statements.                                       *)

Running(a, t) == attStatus[a] = "running" /\ attTicket[a] = t

\* The attempts the retry policy counts against max_attempts.
Failures(t) == {a \in Attempt : attTicket[a] = t /\ attStatus[a] \in {"failed", "expired"}}

Exhausted(t) == Cardinality(Failures(t)) >= RetryPolicy[t].max_attempts

\* A ticket's new status. (The events that tell it are in Triage and EventFeed.)
SetStatus(t, s) ==
    /\ status' = [status EXCEPT ![t] = s]
    /\ finished' = IF s = "done" THEN finished \cup {t} ELSE finished

\* A running attempt ends and its ticket moves on; the ticket's own status is
\* not a condition of the update.
EndAttempt(a, outcome, s) ==
    /\ attStatus[a] = "running"
    /\ attStatus' = [attStatus EXCEPT ![a] = outcome]
    /\ SetStatus(attTicket[a], s)
    /\ UNCHANGED <<attTicket, lease, now>>

-----------------------------------------------------------------------------
(* Tickets.                                                                *)

\* The ticket row and its dependency rows (foreign keys: the dependencies exist), in
\* one transaction. A follow-up ticket is inserted without one, but has no dependencies
\* (createTicketRequestFromAttempt): its row alone is seen at once, as here.
CreateTicket(t, s) ==
    /\ status[t] = "absent"
    /\ s \in {"backlog", "todo"}
    /\ \A d \in DependsOn[t] : status[d] # "absent"
    /\ SetStatus(t, s)
    /\ UNCHANGED <<attemptVars, now, claimVars, workerVars>>

\* One guarded UPDATE of the ticket row.
TransitionTicket(t, allowed, s) ==
    /\ status[t] \in allowed
    /\ SetStatus(t, s)
    /\ UNCHANGED <<attemptVars, now, claimVars, workerVars>>

MarkReady(t) == TransitionTicket(t, {"backlog"}, "todo")

Reopen(t) == TransitionTicket(t, {"done", "failed"}, "todo")

Unblock(t) == TransitionTicket(t, {"blocked"}, "todo")

RequestReview(t) == TransitionTicket(t, {"blocked", "todo", "failed", "done"}, "needs_review")

\* Mutant: a ticket somebody works on can be archived.
ArchiveAny(t) == TransitionTicket(t, TicketStatus \ {"absent", "archived"}, "archived")

Archive(t) ==
    TransitionTicket(t, {"backlog", "todo", "blocked", "needs_review", "done", "failed"}, "archived")

Review(t) == \E s \in {"done", "todo"} : TransitionTicket(t, {"needs_review"}, s)

-----------------------------------------------------------------------------
(* Claims.                                                                 *)

\* Two mutants: a condition of the candidate sub-select is missing.
ClaimableUndone(t) == status[t] = "todo" /\ ~Exhausted(t)

ClaimableExhausted(t) == status[t] = "todo" /\ \A d \in DependsOn[t] : status[d] = "done"

\* The WHERE clause of the candidate sub-select, read in one snapshot.
Claimable(t) ==
    /\ status[t] = "todo"
    /\ \A d \in DependsOn[t] : status[d] = "done"
    /\ ~Exhausted(t)

\* The statement starts: its snapshot fixes which tickets are candidates.
\* With none the call returns ErrNoClaimableTickets and changes nothing.
ClaimNext(c) ==
    /\ snapshot[c] = {}
    /\ snapshot' = [snapshot EXCEPT ![c] = {t \in Suits[c] : Claimable(t)}]
    /\ UNCHANGED <<ticketVars, attemptVars, now, workerVars>>

\* Mutant: the status is not re-checked after the lock (a plain sub-select in
\* place of FOR UPDATE).
ClaimNextTicketUnlocked(c, t, a, len) ==
    /\ t \in snapshot[c]
    /\ attStatus[a] = "absent"
    /\ ~ \E b \in Attempt : Running(b, t)
    /\ SetStatus(t, "in_progress")
    /\ attStatus' = [attStatus EXCEPT ![a] = "running"]
    /\ attTicket' = [attTicket EXCEPT ![a] = t]
    /\ lease' = [lease EXCEPT ![a] = now + len]
    /\ snapshot' = [snapshot EXCEPT ![c] = {}]
    /\ UNCHANGED <<now, workerVars>>

\* A candidate row is locked and its status re-checked; the ticket moves to
\* in_progress and a running attempt is inserted (the partial unique index
\* admits one running attempt per ticket). Which candidate comes first in the
\* order and is not skipped as locked is left open.
ClaimNextTicket(c, t, a, len) ==
    /\ t \in snapshot[c]
    /\ status[t] = "todo"
    /\ attStatus[a] = "absent"
    /\ ~ \E b \in Attempt : Running(b, t)
    /\ SetStatus(t, "in_progress")
    /\ attStatus' = [attStatus EXCEPT ![a] = "running"]
    /\ attTicket' = [attTicket EXCEPT ![a] = t]
    /\ lease' = [lease EXCEPT ![a] = now + len]
    /\ snapshot' = [snapshot EXCEPT ![c] = {}]
    /\ UNCHANGED <<now, workerVars>>

\* Every candidate was skipped (locked by another statement, or no longer
\* "todo"), or the call was cancelled: nothing is written.
ClaimMiss(c) ==
    /\ snapshot[c] # {}
    /\ snapshot' = [snapshot EXCEPT ![c] = {}]
    /\ UNCHANGED <<ticketVars, attemptVars, now, workerVars>>

-----------------------------------------------------------------------------
(* Attempts.                                                               *)

\* Mutant: a late heartbeat renews an attempt that ended.
HeartbeatAnyAttempt(a, len) ==
    /\ attStatus[a] # "absent"
    /\ lease' = [lease EXCEPT ![a] = now + len]
    /\ UNCHANGED <<ticketVars, attStatus, attTicket, now, claimVars, workerVars>>

\* Extends the lease of a running attempt, lapsed or not.
HeartbeatAttempt(a, len) ==
    /\ attStatus[a] = "running"
    /\ lease' = [lease EXCEPT ![a] = now + len]
    /\ UNCHANGED <<ticketVars, attStatus, attTicket, now, claimVars, workerVars>>

CompleteAttempt(a) ==
    /\ EndAttempt(a, "succeeded",
                  IF RetryPolicy[attTicket[a]].requires_review_on_success
                  THEN "needs_review" ELSE "done")
    /\ UNCHANGED <<claimVars, workerVars>>

\* Where a failed or expired attempt sends its ticket. The count is read in
\* the statement's snapshot, which does not hold the attempt that is ending.
RetryOrFail(t) == IF Exhausted(t) THEN "failed" ELSE "todo"

AfterFailure(t) ==
    CASE RetryPolicy[t].on_failure = "mark_failed"  -> "failed"
      [] RetryPolicy[t].on_failure = "needs_review" -> "needs_review"
      [] OTHER                                      -> RetryOrFail(t)

FailAttempt(a) ==
    /\ EndAttempt(a, "failed", AfterFailure(attTicket[a]))
    /\ UNCHANGED <<claimVars, workerVars>>

BlockAttempt(a) ==
    /\ EndAttempt(a, "blocked", "blocked")
    /\ UNCHANGED <<claimVars, workerVars>>

CancelAttempt(a) ==
    /\ EndAttempt(a, "cancelled", "todo")
    /\ UNCHANGED <<claimVars, workerVars>>

-----------------------------------------------------------------------------
(* The maintenance worker.                                                 *)

Lapsed(a, time) == attStatus[a] = "running" /\ lease[a] < time

\* Mutant: attempts that ended long ago fill the batch for ever.
ListExpiredAttempts(time) ==
    LET lapsed == {a \in Attempt : attStatus[a] # "absent" /\ lease[a] < time}
    IN  {S \in SUBSET lapsed :
            /\ IF Cardinality(lapsed) <= BatchLimit THEN S = lapsed ELSE Cardinality(S) = BatchLimit
            /\ \A a \in S, b \in lapsed \ S : lease[a] <= lease[b]}

\* The oldest lapsed leases first, at most BatchLimit of them.
ListExpiredRunningAttempts(time) ==
    LET lapsed == {a \in Attempt : Lapsed(a, time)}
    IN  {S \in SUBSET lapsed :
            /\ IF Cardinality(lapsed) <= BatchLimit THEN S = lapsed ELSE Cardinality(S) = BatchLimit
            /\ \A a \in S, b \in lapsed \ S : lease[a] <= lease[b]}

\* A pass starts: it fixes its "now" and lists the lapsed attempts.
StartPass(w) ==
    /\ batch[w] = {}
    /\ \E S \in ListExpiredRunningAttempts(now) :
          /\ batch' = [batch EXCEPT ![w] = S]
          /\ cutoff' = [cutoff EXCEPT ![w] = IF S = {} THEN 0 ELSE now]
    /\ UNCHANGED <<ticketVars, attemptVars, now, claimVars, stops>>

\* The attempt leaves the pass; the pass forgets its cutoff with the last one.
Handled(w, a) ==
    /\ batch' = [batch EXCEPT ![w] = @ \ {a}]
    /\ cutoff' = [cutoff EXCEPT ![w] = IF batch[w] = {a} THEN 0 ELSE @]
    /\ UNCHANGED <<claimVars, stops>>

\* Mutant: the lease is not checked again when the attempt is expired.
ExpireListedAttempt(w, a) ==
    /\ a \in batch[w]
    /\ EndAttempt(a, "expired", RetryOrFail(attTicket[a]))
    /\ Handled(w, a)

ExpireAttempt(w, a) ==
    /\ a \in batch[w]
    /\ Lapsed(a, cutoff[w])
    /\ EndAttempt(a, "expired", RetryOrFail(attTicket[a]))
    /\ Handled(w, a)

\* The statement matches no row: the attempt ended or was renewed meanwhile.
SkipExpiryRace(w, a) ==
    /\ a \in batch[w]
    /\ ~Lapsed(a, cutoff[w])
    /\ Handled(w, a)
    /\ UNCHANGED <<ticketVars, attemptVars, now>>

\* A database error, a cancelled context or a crash ends the pass between two
\* statements; each attempt expired so far stays expired.
StopPass(w) ==
    /\ batch[w] # {}
    /\ stops < MaxStops
    /\ stops' = stops + 1
    /\ batch' = [batch EXCEPT ![w] = {}]
    /\ cutoff' = [cutoff EXCEPT ![w] = 0]
    /\ UNCHANGED <<ticketVars, attemptVars, now, claimVars>>

-----------------------------------------------------------------------------

Tick ==
    /\ now < MaxTime
    /\ now' = now + 1
    /\ UNCHANGED <<ticketVars, attemptVars, claimVars, workerVars>>

TicketStep ==
    \E t \in Ticket :
        \/ \E s \in TicketStatus : CreateTicket(t, s)
        \/ MarkReady(t)
        \/ Reopen(t)
        \/ Unblock(t)
        \/ RequestReview(t)
        \/ Archive(t)
        \/ Review(t)

ClaimStep ==
    \E c \in Claimer :
        \/ ClaimNext(c)
        \/ \E t \in Ticket, a \in Attempt, len \in Lease : ClaimNextTicket(c, t, a, len)
        \/ ClaimMiss(c)

AttemptStep ==
    \E a \in Attempt :
        \/ \E len \in Lease : HeartbeatAttempt(a, len)
        \/ CompleteAttempt(a)
        \/ FailAttempt(a)
        \/ BlockAttempt(a)
        \/ CancelAttempt(a)

\* The steps of one RunOnce of a worker that nothing interrupts.
RunOnce(w) ==
    \/ StartPass(w)
    \/ \E a \in Attempt : ExpireAttempt(w, a) \/ SkipExpiryRace(w, a)

WorkerStep == \E w \in Worker : RunOnce(w) \/ StopPass(w)

Next == TicketStep \/ ClaimStep \/ AttemptStep \/ WorkerStep \/ Tick

Spec == Init /\ [][Next]_vars

\* The worker loop starts a pass again after every interval (runWorkerLoop),
\* and a pass works its list off; nothing else has to happen.
FairSpec == Spec /\ \A w \in Worker : WF_vars(RunOnce(w))

-----------------------------------------------------------------------------
(* What makes the ledger correct.                                          *)

\* A ticket is in_progress exactly while one running attempt works on it: the
\* tickets and attempts tables, changed by separate sub-statements that do not
\* re-check each other, never disagree. (The end-of-attempt updates set the
\* ticket's status whatever it is, so a transition that touched an in_progress
\* ticket would break this.)
RunningIffInProgress ==
    /\ \A t \in Ticket : status[t] = "in_progress" <=> \E a \in Attempt : Running(a, t)
    /\ \A t \in Ticket : \A a, b \in Attempt : Running(a, t) /\ Running(b, t) => a = b

\* Claims decide on a snapshot of the failed attempts, so concurrent claims can
\* run a ticket past max_attempts, but never by more than the claims that were
\* in flight beside the one that used the budget up.
RetryOverrunBounded ==
    \A t \in Ticket :
        Cardinality(Failures(t)) < RetryPolicy[t].max_attempts + Cardinality(Claimer)

\* No ticket is worked on before each of its dependencies was done once, also
\* when a dependency is reopened while the claim is in flight.
StartedAfterDependencies ==
    \A t \in Ticket : status[t] = "in_progress" => DependsOn[t] \subseteq finished

\* An attempt that ended never changes again: a completion, failure, heartbeat
\* or expiry that arrives late is refused, whatever runs on the ticket by then.
TerminalIsFinal ==
    [][\A a \in Attempt : attStatus[a] \in Terminal =>
          /\ attStatus'[a] = attStatus[a]
          /\ attTicket'[a] = attTicket[a]
          /\ lease'[a] = lease[a]]_vars

\* The worker expires an attempt only while its lease is lapsed: a heartbeat
\* between the listing and the expiry saves the attempt, whichever worker
\* listed it and however old its cutoff is.
RenewedLeaseSurvives ==
    [][\A a \in Attempt :
          attStatus[a] = "running" /\ attStatus'[a] = "expired" => lease[a] < now]_vars

\* An archived ticket stays archived: no late attempt outcome and no claim in
\* flight brings it back.
ArchivedIsFinal ==
    [][\A t \in Ticket : status[t] = "archived" => status'[t] = "archived"]_vars

\* Every lapsed attempt is eventually expired, ended or renewed, although a
\* pass lists only BatchLimit attempts and may be cut short.
LapsedIsHandled ==
    \A a \in Attempt : Lapsed(a, now) ~> ~Lapsed(a, now)

-----------------------------------------------------------------------------
(* The ledger implements the board its users have in mind.                 *)

\* Where a ticket with a given status is on the board.
BoardColumn ==
    [absent |-> "none", backlog |-> "idle", todo |-> "ready", in_progress |-> "held",
     blocked |-> "idle", needs_review |-> "idle", done |-> "done", failed |-> "idle",
     archived |-> "gone"]

Board == INSTANCE WorkBoard WITH
    Turn <- Attempt, Needs <- DependsOn,
    column <- [t \in Ticket |-> BoardColumn[status[t]]],
    holders <- [t \in Ticket |-> {a \in Attempt : Running(a, t)}],
    taken <- {a \in Attempt : attStatus[a] # "absent"},
    completed <- finished

\* Claims that decide on a snapshot, outcomes that set the ticket whatever its
\* status is, expiry by workers with stale lists and late calls never show: to
\* its users the ledger is WorkBoard, in which a ticket is held by one attempt
\* at a time and only that attempt's end moves it.
KeepsBoard == Board!BoardSpec

-----------------------------------------------------------------------------
(* What the documents say and the statements do not do.                    *)

\* The failure or expiry that reaches the retry limit of a ticket whose policy
\* is "return_to_todo until max attempts, then failed" moves it to "failed".
DeadLetter ==
    [][\A t \in Ticket :
          /\ RetryPolicy[t].on_failure = "return_to_todo"
          /\ Cardinality(Failures(t)) < RetryPolicy[t].max_attempts
          /\ Cardinality(Failures(t)') >= RetryPolicy[t].max_attempts
          => status'[t] = "failed"]_vars

=============================================================================
