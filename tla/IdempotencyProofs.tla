-------------------------- MODULE IdempotencyProofs --------------------------
(***************************************************************************)
(* Theorems about ClaimIdempotency for any number of calls, keys, requests *)
(* and tickets, and any retention time.                                    *)
(***************************************************************************)
EXTENDS ClaimIdempotency, TLAPS

\* An attempt exists only after its call committed, and not from the future.
CreatedInv ==
    \A c \in Call :
        created[c] # NotYet =>
            /\ phase[c] \in {"hydrating", "answered", "lost"}
            /\ created[c] <= now

\* The record of a key names an attempt that was created under it, and expires
\* with that call's retention time.
RecordInv ==
    \A k \in Key :
        record[k].by # None =>
            /\ created[record[k].by] # NotYet
            /\ KeyOf[record[k].by] = k
            /\ record[k].expires = started[record[k].by] + TTL

\* The record of an attempt is there until its retention time is over.
RetentionInv ==
    \A c \in Call :
        created[c] # NotYet /\ KeyOf[c] # NoKey =>
            record[KeyOf[c]].by = c \/ now > started[c] + TTL

\* A ticket is locked or worked on for one call only.
TicketInv ==
    /\ \A c, d \in Call : took[c] = took[d] /\ took[c] # None => c = d
    /\ \A c \in running : took[c] # None /\ created[c] # NotYet
    /\ \A c \in Call : phase[c] = "locked" => took[c] # None

IdempotencyInv ==
    /\ TypeOK
    /\ CreatedInv
    /\ RecordInv
    /\ RetentionInv
    /\ TicketInv
    /\ AnswersOwnRequest
    /\ OneAttemptPerKey

LEMMA IdempotencyInit == Init => IdempotencyInv
BY IdempotencyAssumption
   DEF Init, IdempotencyInv, TypeOK, Returned, NotYet, NoRecord, CreatedInv, RecordInv,
       RetentionInv, TicketInv, AnswersOwnRequest, OneAttemptPerKey

\* The claim itself: the only step that creates attempts and records.
LEMMA ClaimKeepsInv ==
    ASSUME IdempotencyInv, NEW c \in Call, ClaimNextTicket(c)
    PROVE  IdempotencyInv'
<1> USE IdempotencyAssumption DEF IdempotencyInv, ClaimNextTicket, Move
<1>0. /\ KeyOf[c] # NoKey => KeyOf[c] \in Key /\ record[KeyOf[c]].by = None
      /\ created[c] = NotYet
      /\ now # NotYet
  <2>1. KeyOf[c] # NoKey => KeyOf[c] \in Key /\ record[KeyOf[c]].by = None
      BY DEF Recorded
  <2>2. created[c] = NotYet
      BY DEF CreatedInv
  <2>3. now # NotYet
      BY DEF TypeOK, NotYet
  <2> QED
      BY <2>1, <2>2, <2>3
<1>r. /\ record' \in [Key -> [by : Call \cup {None}, expires : Nat]]
      /\ \A k \in Key : k # KeyOf[c] => record'[k] = record[k]
      /\ KeyOf[c] # NoKey => record'[KeyOf[c]].by = c
                             /\ record'[KeyOf[c]].expires = started[c] + TTL
  <2>1. CASE KeyOf[c] = NoKey
      BY <2>1 DEF TypeOK
  <2>2. CASE KeyOf[c] # NoKey
    <3>1. [by |-> c, expires |-> started[c] + TTL] \in [by : Call \cup {None}, expires : Nat]
        BY DEF TypeOK
    <3> QED
        BY <1>0, <2>2, <3>1 DEF TypeOK
  <2> QED
      BY <2>1, <2>2
<1>1. TypeOK'
  <2>1. created' \in [Call -> 0 .. NotYet] /\ reply' \in [Call -> Call \cup {None}]
      BY DEF TypeOK, NotYet
  <2>2. \A d \in Call : reply'[d] # None => created'[reply'[d]] # NotYet'
      BY <1>0 DEF TypeOK, NotYet
  <2> QED
      BY <1>r, <2>1, <2>2 DEF TypeOK, Returned, NotYet
<1>2. CreatedInv'
    BY <1>0 DEF CreatedInv, TypeOK, NotYet
<1>3. RecordInv'
    BY <1>0, <1>r DEF RecordInv, TypeOK, NotYet
<1>4. RetentionInv'
    BY <1>0, <1>r DEF RetentionInv, TypeOK, NotYet
<1>5. TicketInv'
    BY <1>0 DEF TicketInv, TypeOK, NotYet
<1>6. AnswersOwnRequest'
    BY DEF AnswersOwnRequest, TypeOK
<1>7. OneAttemptPerKey'
  <2>1. ASSUME NEW d \in Call, d # c, KeyOf[d] = KeyOf[c], KeyOf[c] # NoKey, created[d] # NotYet
        PROVE  now > started[d] + TTL
      BY <1>0, <2>1 DEF RetentionInv
  <2> QED
      BY <2>1 DEF OneAttemptPerKey, TypeOK, NotYet
<1> QED
    BY <1>1, <1>2, <1>3, <1>4, <1>5, <1>6, <1>7

LEMMA IdempotencyStep == IdempotencyInv /\ [Next]_vars => IdempotencyInv'
<1> SUFFICES ASSUME IdempotencyInv, [Next]_vars PROVE IdempotencyInv'
    OBVIOUS
<1> USE IdempotencyAssumption DEF IdempotencyInv
\* Steps of a call that create nothing.
<1>1. ASSUME NEW c \in Call, StartFresh(c) \/ ReplayClaim(c) \/ IdempotencyConflict(c)
      PROVE  IdempotencyInv'
  <2> USE <1>1 DEF StartFresh, ReplayClaim, IdempotencyConflict, Move
  <2>0. created[c] = NotYet
      BY DEF CreatedInv
  <2>1. TypeOK'
    <3>1. CASE ReplayClaim(c)
      <4>1. KeyOf[c] \in Key /\ record[KeyOf[c]].by \in Call
                /\ created[record[KeyOf[c]].by] # NotYet
          BY <3>1 DEF Recorded, RecordInv, TypeOK
      <4> QED
          BY <3>1, <4>1 DEF TypeOK, Returned, NotYet
    <3>2. CASE StartFresh(c) \/ IdempotencyConflict(c)
        BY <3>2 DEF TypeOK, Returned, NotYet
    <3> QED
        BY <3>1, <3>2
  <2>2. CreatedInv' /\ RecordInv'
      BY <2>0 DEF CreatedInv, RecordInv, TypeOK, NotYet
  <2>f. /\ \A d \in Call : d # c => started'[d] = started[d]
        /\ \A d \in Call : phase'[d] = "locked" => phase[d] = "locked"
        /\ UNCHANGED <<took, record, running, created, now>>
      BY DEF TypeOK
  <2>3. RetentionInv'
      BY <2>0, <2>f DEF RetentionInv, NotYet
  <2>4. TicketInv'
      BY <2>f DEF TicketInv, NotYet
  <2>5. OneAttemptPerKey'
      BY <2>0, <2>f DEF OneAttemptPerKey, NotYet
  <2>6. AnswersOwnRequest'
      BY DEF AnswersOwnRequest, RecordInv, Recorded, TypeOK
  <2> QED
      BY <2>1, <2>2, <2>3, <2>4, <2>5, <2>6
<1>2. ASSUME NEW c \in Call,
             Refuse(c) \/ NoClaimableTickets(c) \/ UniqueViolation(c)
                \/ (\E t \in Ticket : LockTicket(c, t))
      PROVE  IdempotencyInv'
  <2> USE <1>2 DEF Refuse, NoClaimableTickets, UniqueViolation, LockTicket, Move, Free
  <2>0. created[c] = NotYet /\ c \notin running
      BY DEF CreatedInv, TicketInv
  <2>1. TypeOK'
      BY DEF TypeOK, Returned, NotYet
  <2>2. CreatedInv' /\ RecordInv' /\ RetentionInv' /\ AnswersOwnRequest' /\ OneAttemptPerKey'
      BY <2>0 DEF CreatedInv, RecordInv, RetentionInv, AnswersOwnRequest, OneAttemptPerKey,
                  TypeOK, NotYet
  <2>3. TicketInv'
      BY <2>0 DEF TicketInv, TypeOK, NotYet
  <2> QED
      BY <2>1, <2>2, <2>3
<1>3. ASSUME NEW c \in Call, NEW heard \in BOOLEAN, HydrateClaim(c, heard)
      PROVE  IdempotencyInv'
    BY <1>3 DEF HydrateClaim, Move, TypeOK, Returned, NotYet, CreatedInv, RecordInv,
                RetentionInv, TicketInv, AnswersOwnRequest, OneAttemptPerKey
<1>4. ASSUME NEW c \in Call, EndAttempt(c)
      PROVE  IdempotencyInv'
  <2>1. phase[c] # "locked"
      BY <1>4 DEF EndAttempt, TicketInv, CreatedInv
  <2> QED
      BY <1>4, <2>1 DEF EndAttempt, TypeOK, NotYet, CreatedInv, RecordInv, RetentionInv, TicketInv,
                 AnswersOwnRequest, OneAttemptPerKey
<1>5. CASE DeleteExpiredIdempotencyKeys
  <2> USE <1>5 DEF DeleteExpiredIdempotencyKeys
  <2>0. \A k \in Key :
           \/ record'[k] = record[k]
           \/ record'[k] = NoRecord /\ record[k].by # None /\ record[k].expires < now
      BY DEF Recorded, TypeOK
  <2>1. TypeOK'
      BY DEF TypeOK, NotYet, NoRecord
  <2>2. RecordInv'
      BY <2>0 DEF RecordInv, NoRecord, NotYet
  <2>3. RetentionInv'
    <3> SUFFICES ASSUME NEW c \in Call, created[c] # NotYet, KeyOf[c] # NoKey
                 PROVE  record'[KeyOf[c]].by = c \/ now > started[c] + TTL
        BY DEF RetentionInv, NotYet
    <3>1. KeyOf[c] \in Key /\ started[c] + TTL \in Nat /\ now \in Nat
        BY DEF TypeOK
    <3>2. CASE record[KeyOf[c]].by = c
        BY <2>0, <3>1, <3>2 DEF RecordInv
    <3>3. CASE now > started[c] + TTL
        BY <3>3
    <3> QED
        BY <3>2, <3>3 DEF RetentionInv
  <2>4. CreatedInv' /\ TicketInv' /\ AnswersOwnRequest' /\ OneAttemptPerKey'
      BY DEF CreatedInv, TicketInv, AnswersOwnRequest, OneAttemptPerKey, NotYet
  <2> QED
      BY <2>1, <2>2, <2>3, <2>4
<1>6. CASE Tick
    BY <1>6 DEF Tick, TypeOK, NotYet, CreatedInv, RecordInv, RetentionInv, TicketInv,
                AnswersOwnRequest, OneAttemptPerKey
<1>7. CASE UNCHANGED vars
    BY <1>7 DEF vars, TypeOK, NotYet, CreatedInv, RecordInv, RetentionInv, TicketInv,
                AnswersOwnRequest, OneAttemptPerKey
<1> QED
    BY <1>1, <1>2, <1>3, <1>4, <1>5, <1>6, <1>7, ClaimKeepsInv DEF Next

LEMMA IdempotencyInvHolds == Spec => []IdempotencyInv
BY IdempotencyInit, IdempotencyStep, PTL DEF Spec

-----------------------------------------------------------------------------

\* Records, attempts, tickets and the calls in flight hold values of their types in
\* every state of ClaimTicketWithIdempotency, and so does what a replay is computed from.
THEOREM IdempotencyTypeCorrect == Spec => []TypeOK
<1>1. IdempotencyInv => TypeOK
    BY DEF IdempotencyInv
<1> QED
    BY IdempotencyInvHolds, <1>1, PTL

\* Repeating a call never creates a second attempt while the retention time of
\* the first runs, however many calls overlap.
THEOREM OneAttemptPerKeyHolds == Spec => []OneAttemptPerKey
<1>1. IdempotencyInv => OneAttemptPerKey
    BY DEF IdempotencyInv
<1> QED
    BY IdempotencyInvHolds, <1>1, PTL

\* A replay never hands out the attempt of another key or another request.
THEOREM AnswersOwnRequestHolds == Spec => []AnswersOwnRequest
<1>1. IdempotencyInv => AnswersOwnRequest
    BY DEF IdempotencyInv
<1> QED
    BY IdempotencyInvHolds, <1>1, PTL

\* While the retention time of an attempt runs, its record is there to replay.
THEOREM LostAnswerRecoverableHolds == Spec => []LostAnswerRecoverable
<1>1. IdempotencyInv => LostAnswerRecoverable
    BY IdempotencyAssumption DEF IdempotencyInv, RetentionInv, LostAnswerRecoverable, TypeOK
<1> QED
    BY IdempotencyInvHolds, <1>1, PTL

\* A ticket is given to one running attempt at a time.
THEOREM OneRunningPerTicketHolds == Spec => []OneRunningPerTicket
<1>1. IdempotencyInv => OneRunningPerTicket
    BY DEF IdempotencyInv, TicketInv, OneRunningPerTicket, TypeOK
<1> QED
    BY IdempotencyInvHolds, <1>1, PTL
=============================================================================
