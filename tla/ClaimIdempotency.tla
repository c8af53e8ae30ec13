-------------------------- MODULE ClaimIdempotency --------------------------
(***************************************************************************)
(* The idempotency of claim-next. An agent that did not hear the answer of *)
(* a call repeats it under the same key; the call first looks for the      *)
(* record of an earlier one and replays it, and otherwise claims a ticket, *)
(* storing the record in the statement that creates the attempt. The       *)
(* repetition may overlap the original, and maintenance deletes records    *)
(* whose retention time is over.                                           *)
(*                                                                         *)
(* Every call creates at most one attempt, so an attempt is named by the   *)
(* call that created it. A key stands for workspace, agent, route and key; *)
(* a request for what claimRequestHash hashes. The hash is taken to be     *)
(* injective. The parts of the claim that Ledger models (dependencies,     *)
(* retry budget, filters) are left out: a ticket is free or taken.         *)
(***************************************************************************)
EXTENDS Naturals

CONSTANTS
    Call,      \* the claim-next calls
    Key,       \* the idempotency keys
    NoKey,     \* the key of a call that sends none
    KeyOf,     \* the key each call sends
    Request,   \* the requests
    RequestOf, \* the request each call makes
    Ticket,    \* the tickets
    None,      \* no ticket, no attempt, no record
    TTL,       \* the retention time of a record
    MaxTime    \* bound of the clock

ASSUME IdempotencyAssumption ==
    /\ NoKey \notin Key
    /\ None \notin Call \cup Ticket
    /\ KeyOf \in [Call -> Key \cup {NoKey}]
    /\ RequestOf \in [Call -> Request]
    /\ TTL \in Nat
    /\ MaxTime \in Nat

VARIABLES
    phase,     \* where each call is
    started,   \* the "now" each call took when it started
    took,      \* the ticket a call has locked, or its attempt works on
    reply,     \* the attempt a call has found or created, and will answer
    record,    \* per key: the call that stored the record, and when it expires
    running,   \* the attempts that are running
    created,   \* history: the attempts that were created, and when
    now        \* the clock

vars == <<phase, started, took, reply, record, running, created, now>>

Returned == {"answered", "lost", "none", "conflict", "refused", "failed"}

NotYet == MaxTime + 1

\* Calls, records and attempts hold values of their types; a call that has found
\* or created an attempt has found one that exists.
TypeOK ==
    /\ phase \in [Call -> {"idle", "claiming", "locked", "hydrating"} \cup Returned]
    /\ started \in [Call -> 0 .. MaxTime]
    /\ took \in [Call -> Ticket \cup {None}]
    /\ reply \in [Call -> Call \cup {None}]
    /\ record \in [Key -> [by : Call \cup {None}, expires : Nat]]
    /\ running \subseteq Call
    /\ created \in [Call -> 0 .. NotYet]
    /\ \A c \in Call : reply[c] # None => created[reply[c]] # NotYet
    /\ now \in 0 .. MaxTime

NoRecord == [by |-> None, expires |-> 0]

Init ==
    /\ phase = [c \in Call |-> "idle"]
    /\ started = [c \in Call |-> 0]
    /\ took = [c \in Call |-> None]
    /\ reply = [c \in Call |-> None]
    /\ record = [k \in Key |-> NoRecord]
    /\ running = {}
    /\ created = [c \in Call |-> NotYet]
    /\ now = 0

-----------------------------------------------------------------------------

Recorded(k) == k \in Key /\ record[k].by # None

\* The ticket is not worked on and no uncommitted claim holds its lock.
Free(t) == \A c \in Call : took[c] # t

Move(c, from, to) ==
    /\ phase[c] = from
    /\ phase' = [phase EXCEPT ![c] = to]

\* The call takes its time and looks its key up: no record, so it will claim.
StartFresh(c) ==
    /\ Move(c, "idle", "claiming")
    /\ ~Recorded(KeyOf[c])
    /\ started' = [started EXCEPT ![c] = now]
    /\ UNCHANGED <<took, reply, record, running, created, now>>

\* Mutant: the request is not compared with the recorded one.
ReplayAnyRequest(c) ==
    /\ Move(c, "idle", "hydrating")
    /\ Recorded(KeyOf[c])
    /\ started' = [started EXCEPT ![c] = now]
    /\ reply' = [reply EXCEPT ![c] = record[KeyOf[c]].by]
    /\ UNCHANGED <<took, record, running, created, now>>

\* replayClaim: the record of the same request names the attempt to return,
\* whether it still runs or not; expires_at is not looked at.
ReplayClaim(c) ==
    /\ Move(c, "idle", "hydrating")
    /\ Recorded(KeyOf[c])
    /\ RequestOf[record[KeyOf[c]].by] = RequestOf[c]
    /\ started' = [started EXCEPT ![c] = now]
    /\ reply' = [reply EXCEPT ![c] = record[KeyOf[c]].by]
    /\ UNCHANGED <<took, record, running, created, now>>

\* ErrIdempotencyConflict: the key was used for another request.
IdempotencyConflict(c) ==
    /\ Move(c, "idle", "conflict")
    /\ Recorded(KeyOf[c])
    /\ RequestOf[record[KeyOf[c]].by] # RequestOf[c]
    /\ started' = [started EXCEPT ![c] = now]
    /\ UNCHANGED <<took, reply, record, running, created, now>>

\* The policy refuses the claim, or the call is cut off before it commits; the
\* database undoes what it had done.
Refuse(c) ==
    /\ \E from \in {"claiming", "locked"} : Move(c, from, "refused")
    /\ took' = [took EXCEPT ![c] = None]
    /\ UNCHANGED <<started, reply, record, running, created, now>>

\* The statement locks the first free ticket it finds (SKIP LOCKED).
LockTicket(c, t) ==
    /\ Move(c, "claiming", "locked")
    /\ Free(t)
    /\ took' = [took EXCEPT ![c] = t]
    /\ UNCHANGED <<started, reply, record, running, created, now>>

\* ErrNoClaimableTickets.
NoClaimableTickets(c) ==
    /\ Move(c, "claiming", "none")
    /\ \A t \in Ticket : ~Free(t)
    /\ UNCHANGED <<started, took, reply, record, running, created, now>>

\* Mutant: the record is written over whatever is there.
ClaimOverRecord(c) ==
    /\ Move(c, "locked", "hydrating")
    /\ running' = running \cup {c}
    /\ created' = [created EXCEPT ![c] = now]
    /\ reply' = [reply EXCEPT ![c] = c]
    /\ record' = IF KeyOf[c] = NoKey THEN record
                 ELSE [record EXCEPT ![KeyOf[c]] = [by |-> c, expires |-> started[c] + TTL]]
    /\ UNCHANGED <<started, took, now>>

\* The statement commits: the attempt and, with a key, its record. The unique
\* index on the key admits it only if no record is there by now.
ClaimNextTicket(c) ==
    /\ Move(c, "locked", "hydrating")
    /\ ~Recorded(KeyOf[c])
    /\ running' = running \cup {c}
    /\ created' = [created EXCEPT ![c] = now]
    /\ reply' = [reply EXCEPT ![c] = c]
    /\ record' = IF KeyOf[c] = NoKey THEN record
                 ELSE [record EXCEPT ![KeyOf[c]] = [by |-> c, expires |-> started[c] + TTL]]
    /\ UNCHANGED <<started, took, now>>

\* The unique index refuses the record: the whole statement is undone.
UniqueViolation(c) ==
    /\ Move(c, "locked", "failed")
    /\ Recorded(KeyOf[c])
    /\ took' = [took EXCEPT ![c] = None]
    /\ UNCHANGED <<started, reply, record, running, created, now>>

\* hydrateClaim reads the ticket, the attempt and their context and the answer
\* reaches the agent, or a read fails or the answer is lost.
HydrateClaim(c, heard) ==
    /\ Move(c, "hydrating", IF heard THEN "answered" ELSE "lost")
    /\ UNCHANGED <<started, took, reply, record, running, created, now>>

\* An attempt ends, in whichever way, and its ticket is free again.
EndAttempt(c) ==
    /\ c \in running
    /\ running' = running \ {c}
    /\ took' = [took EXCEPT ![c] = None]
    /\ UNCHANGED <<phase, started, reply, record, created, now>>

\* Mutant: records are deleted in their last moment of validity.
DeleteExpiringKeys ==
    /\ \E k \in Key : Recorded(k) /\ record[k].expires <= now
    /\ record' = [k \in Key |-> IF Recorded(k) /\ record[k].expires <= now THEN NoRecord ELSE record[k]]
    /\ UNCHANGED <<phase, started, took, reply, running, created, now>>

DeleteExpiredIdempotencyKeys ==
    /\ \E k \in Key : Recorded(k) /\ record[k].expires < now
    /\ record' = [k \in Key |-> IF Recorded(k) /\ record[k].expires < now THEN NoRecord ELSE record[k]]
    /\ UNCHANGED <<phase, started, took, reply, running, created, now>>

Tick ==
    /\ now < MaxTime
    /\ now' = now + 1
    /\ UNCHANGED <<phase, started, took, reply, record, running, created>>

Next ==
    \/ \E c \in Call :
          \/ StartFresh(c)
          \/ ReplayClaim(c)
          \/ IdempotencyConflict(c)
          \/ Refuse(c)
          \/ \E t \in Ticket : LockTicket(c, t)
          \/ NoClaimableTickets(c)
          \/ ClaimNextTicket(c)
          \/ UniqueViolation(c)
          \/ \E heard \in BOOLEAN : HydrateClaim(c, heard)
          \/ EndAttempt(c)
    \/ DeleteExpiredIdempotencyKeys
    \/ Tick

Spec == Init /\ [][Next]_vars

-----------------------------------------------------------------------------

\* Repeating a call does not create a second attempt while the retention time
\* of the first runs, however the calls overlap: two attempts under one key are
\* further apart than the retention time, counted from the start of the first.
OneAttemptPerKey ==
    \A c, d \in Call :
        /\ c # d /\ KeyOf[c] = KeyOf[d] /\ KeyOf[c] # NoKey
        /\ created[c] # NotYet /\ created[d] # NotYet
        => created[d] > started[c] + TTL \/ created[c] > started[d] + TTL

\* What a call is answered was created for its own key and its own request: a
\* replay never hands out the attempt of another request.
AnswersOwnRequest ==
    \A c \in Call :
        reply[c] # None =>
            /\ KeyOf[reply[c]] = KeyOf[c]
            /\ RequestOf[reply[c]] = RequestOf[c]
            /\ KeyOf[c] = NoKey => reply[c] = c

\* A ticket is given to one running attempt at a time, also when calls that
\* were undone had locked it.
OneRunningPerTicket ==
    \A c, d \in running : took[c] = took[d] => c = d

\* A call that created an attempt can still be answered with it as long as the
\* record is kept: while an attempt's retention time runs, its key's record
\* names it, so the answer is never lost for good.
LostAnswerRecoverable ==
    \A c \in Call :
        created[c] # NotYet /\ KeyOf[c] # NoKey /\ now <= started[c] + TTL
        => record[KeyOf[c]].by = c
=============================================================================
