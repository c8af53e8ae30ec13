---------------------------- MODULE CallsProofs ----------------------------
(***************************************************************************)
(* Theorems about what agents ask the server for, for any number of calls, *)
(* attempts, profiles and costs. AgentCalls: what a client is told is      *)
(* true, however calls, retries, expiries and failures interleave.         *)
(* Analytics: the reports on the attempts add up. Last, the composition of *)
(* the parts, with the invariants of AdminProofs.                          *)
(***************************************************************************)
EXTENDS Parts, AdminProofs, SequenceTheorems, FiniteSetTheorems, WellFoundedInduction, TLAPS

-----------------------------------------------------------------------------
(* AgentCalls: the inductive invariant.                                    *)

\* A transaction is open for call i, or a follow-up ticket waits for its event.
Working(i) == calls[i].stage \in {"updated", "stored"}

Carries == {"complete", "fail", "block"}

\* Stages in which a call has changed nothing yet, or never will.
Quiet == {"sent", "argument", "invalid", "not_running", "no_claimable", "missing"}

\* Rows that do not exist yet have no metrics and no checkpoints.
UnusedInv ==
    \A a \in 1 .. MaxAttempts :
        a \notin DOMAIN attempts => metrics[a] = NoMetrics /\ checkpoints[a] = {}

\* Who claimed and ended an attempt is a call that was made, and nobody has ended
\* one that is running.
AttemptInv ==
    \A a \in DOMAIN attempts :
        /\ attempts[a].claimedBy \in 0 .. Len(calls)
        /\ attempts[a].endedBy \in 0 .. Len(calls)
        /\ Running(a) => attempts[a].endedBy = 0

\* Metrics come with an end only.
AskedInv ==
    \A i \in DOMAIN calls : calls[i].op \notin Carries => calls[i].cost = NoMetrics

\* What nobody has been told of yet has not happened, but for a follow-up ticket.
QuietInv ==
    \A i \in DOMAIN calls :
        /\ calls[i].stage \in Quiet => ~ Changed(i)
        /\ Working(i) /\ calls[i].op # "follow_up" => ~ Changed(i)

\* An open transaction holds a running attempt, and holds it alone.
HoldInv ==
    \A i \in DOMAIN calls : Working(i) =>
        /\ calls[i].op \in Carries \cup {"create", "follow_up"}
        /\ calls[i].op = "follow_up" => calls[i].stage = "updated" /\ i \in tickets
        /\ calls[i].op \in Carries =>
              /\ Running(calls[i].attempt)
              /\ \A j \in DOMAIN calls :
                    Working(j) /\ calls[j].op \in Carries /\ calls[j].attempt = calls[i].attempt => i = j

\* A result says what it says.
ResultInv ==
    \A i \in DOMAIN calls :
        /\ calls[i].stage = "ok" => Happened(i)
        /\ calls[i].stage = "not_running" => calls[i].op \in OnAttempt /\ ~ Running(calls[i].attempt)
        /\ calls[i].stage = "no_claimable" => calls[i].op = "claim"

CallsInv ==
    /\ CallsTypeOK
    /\ UnusedInv
    /\ AttemptInv
    /\ AskedInv
    /\ MetricsOnce
    /\ QuietInv
    /\ HoldInv
    /\ ResultInv

-----------------------------------------------------------------------------
(* AgentCalls: what the building blocks of the actions do.                 *)

AllStages == {"sent", "updated", "stored"} \cup Result

LEMMA Rows ==
    ASSUME CallsTypeOK
    PROVE  /\ DOMAIN calls = 1 .. Len(calls) /\ Len(calls) \in Nat
           /\ DOMAIN attempts = 1 .. Len(attempts) /\ Len(attempts) \in Nat
           /\ DOMAIN attempts \subseteq 1 .. MaxAttempts
           /\ \A i \in DOMAIN calls : calls[i] \in Call
           /\ \A a \in DOMAIN attempts : attempts[a] \in Attempt
BY CallsAssumption DEF CallsTypeOK

LEMMA MoveToFacts ==
    ASSUME CallsTypeOK, NEW i \in DOMAIN calls, NEW s \in AllStages, MoveTo(i, s)
    PROVE  /\ calls' \in Seq(Call) /\ Len(calls') = Len(calls) /\ DOMAIN calls' = DOMAIN calls
           /\ \A j \in DOMAIN calls :
                 /\ calls'[j].op = calls[j].op
                 /\ calls'[j].attempt = calls[j].attempt
                 /\ calls'[j].profile = calls[j].profile
                 /\ calls'[j].cost = calls[j].cost
                 /\ calls'[j].stage = IF j = i THEN s ELSE calls[j].stage
<1> DEFINE c == [calls[i] EXCEPT !.stage = s]
<1>1. /\ c \in Call
      /\ c.op = calls[i].op /\ c.attempt = calls[i].attempt /\ c.profile = calls[i].profile
      /\ c.cost = calls[i].cost /\ c.stage = s
    BY Rows DEF Call, AllStages
<1>2. calls' = [calls EXCEPT ![i] = c]
    BY DEF MoveTo
<1>3. calls \in Seq(Call) /\ i \in 1 .. Len(calls) /\ DOMAIN calls = 1 .. Len(calls)
    BY Rows DEF CallsTypeOK
<1> HIDE DEF c
<1>4. /\ calls' \in Seq(Call) /\ Len(calls') = Len(calls)
      /\ \A j \in 1 .. Len(calls) : calls'[j] = IF j = i THEN c ELSE calls[j]
    BY <1>1, <1>2, <1>3, ExceptSeq
<1> QED
    BY <1>1, <1>3, <1>4

LEMMA EndByFacts ==
    ASSUME CallsTypeOK, NEW i \in DOMAIN calls, calls[i].op \in Ending, EndBy(i)
    PROVE  /\ attempts' \in Seq(Attempt) /\ Len(attempts') = Len(attempts)
           /\ DOMAIN attempts' = DOMAIN attempts
           /\ \A a \in DOMAIN attempts :
                 /\ attempts'[a].profile = attempts[a].profile
                 /\ attempts'[a].claimedBy = attempts[a].claimedBy
                 /\ attempts'[a].endedBy = IF a = calls[i].attempt THEN i ELSE attempts[a].endedBy
                 /\ attempts'[a].status = IF a = calls[i].attempt THEN Outcome(calls[i].op)
                                                                  ELSE attempts[a].status
<1>1. Outcome(calls[i].op) \in AttemptStatus
    BY DEF Outcome, AttemptStatus, Ending
<1>2. calls[i].attempt \in DOMAIN attempts
    BY DEF CallsTypeOK, OnAttempt
<1> DEFINE b == calls[i].attempt
           r == [attempts[b] EXCEPT !.status = Outcome(calls[i].op), !.endedBy = i]
<1>3. attempts \in Seq(Attempt) /\ b \in 1 .. Len(attempts) /\ DOMAIN attempts = 1 .. Len(attempts)
    BY <1>2, Rows DEF CallsTypeOK
<1>4. i \in Nat
    BY Rows
<1>5. /\ r \in Attempt
      /\ r.profile = attempts[b].profile /\ r.claimedBy = attempts[b].claimedBy
      /\ r.status = Outcome(calls[i].op) /\ r.endedBy = i
    BY <1>1, <1>2, <1>4, Rows DEF Attempt
<1>6. attempts' = [attempts EXCEPT ![b] = r]
    BY <1>2, <1>3 DEF EndBy
<1> HIDE DEF r
<1>7. /\ attempts' \in Seq(Attempt) /\ Len(attempts') = Len(attempts)
      /\ \A a \in 1 .. Len(attempts) : attempts'[a] = IF a = b THEN r ELSE attempts[a]
    BY <1>3, <1>5, <1>6, ExceptSeq
<1> QED
    BY <1>3, <1>5, <1>7

LEMMA OutcomeEnds ==
    ASSUME NEW op \in Ending
    PROVE  Outcome(op) \in AttemptStatus \ {"running"}
BY DEF Outcome, AttemptStatus, Ending

-----------------------------------------------------------------------------
(* AgentCalls: one step of one call.                                       *)

\* What is asked of a call that moves to stage t; the last part keeps the attempt
\* to itself.
MayMoveTo(i, t) ==
    /\ t \in Quiet => ~ Changed(i)'
    /\ t \in {"updated", "stored"} =>
          /\ calls[i].op \in Carries \cup {"create", "follow_up"}
          /\ calls[i].op # "follow_up" => ~ Changed(i)'
          /\ calls[i].op = "follow_up" => t = "updated" /\ i \in tickets'
          /\ calls[i].op \in Carries =>
                /\ Running(calls[i].attempt)'
                /\ \A j \in DOMAIN calls \ {i} :
                      Working(j) /\ calls[j].op \in Carries => calls[j].attempt # calls[i].attempt
    /\ t = "ok" => Happened(i)'
    /\ t = "not_running" => calls[i].op \in OnAttempt /\ ~ Running(calls[i].attempt)'
    /\ t = "no_claimable" => calls[i].op = "claim"

\* What a step of call i must leave alone: what is said of the other calls.
OthersKept(i) ==
    /\ \A j \in DOMAIN calls \ {i} :
          /\ Changed(j)' => Changed(j)
          /\ j \in tickets => j \in tickets'
          /\ calls[j].stage = "ok" /\ Happened(j) => Happened(j)'
          /\ Working(j) /\ calls[j].op \in Carries => Running(calls[j].attempt)'
    /\ \A a \in DOMAIN attempts : ~ Running(a) => ~ Running(a)'

LEMMA StepKeepsInv ==
    ASSUME CallsInv, NEW i \in DOMAIN calls, NEW t \in AllStages, MoveTo(i, t),
           CallsTypeOK', UnusedInv', AttemptInv', MetricsOnce',
           MayMoveTo(i, t), OthersKept(i)
    PROVE  CallsInv'
<1>1. /\ DOMAIN calls' = DOMAIN calls
      /\ \A j \in DOMAIN calls :
            /\ calls'[j].op = calls[j].op
            /\ calls'[j].attempt = calls[j].attempt
            /\ calls'[j].cost = calls[j].cost
            /\ calls'[j].stage = IF j = i THEN t ELSE calls[j].stage
    BY MoveToFacts DEF CallsInv
<1>2. \A j \in DOMAIN calls : calls[j].op \in OnAttempt => calls[j].attempt \in DOMAIN attempts
    BY DEF CallsInv, CallsTypeOK
<1>3. AskedInv'
    BY <1>1 DEF CallsInv, AskedInv
<1>4. QuietInv'
    BY <1>1 DEF CallsInv, QuietInv, OthersKept, MayMoveTo, Working
<1>5. HoldInv'
  <2> SUFFICES ASSUME NEW j \in DOMAIN calls, Working(j)'
               PROVE  /\ calls[j].op \in Carries \cup {"create", "follow_up"}
                      /\ calls[j].op = "follow_up" => calls'[j].stage = "updated" /\ j \in tickets'
                      /\ calls[j].op \in Carries =>
                            /\ Running(calls[j].attempt)'
                            /\ \A k \in DOMAIN calls :
                                  Working(k)' /\ calls[k].op \in Carries /\ calls[k].attempt = calls[j].attempt => j = k
    BY <1>1 DEF HoldInv, Running
  <2>1. CASE j = i
    BY <1>1, <2>1 DEF Working, MayMoveTo
  <2>2. CASE j # i
    <3>1. Working(j)
      BY <1>1, <2>2 DEF Working
    <3>2. \A k \in DOMAIN calls \ {i} : Working(k)' => Working(k)
      BY <1>1 DEF Working
    <3>3. Working(i)' => t \in {"updated", "stored"}
      BY <1>1 DEF Working
    <3> QED
      BY <1>1, <2>2, <3>1, <3>2, <3>3 DEF CallsInv, HoldInv, OthersKept, MayMoveTo
  <2> QED BY <2>1, <2>2
<1>6. ResultInv'
    BY <1>1, <1>2 DEF CallsInv, ResultInv, OthersKept, MayMoveTo, Running
<1> QED
    BY <1>3, <1>4, <1>5, <1>6 DEF CallsInv

\* A call that only moves on.
LEMMA MoveKeepsInv ==
    ASSUME CallsInv, NEW i \in DOMAIN calls, NEW t \in AllStages, MoveTo(i, t),
           UNCHANGED <<attempts, metrics, checkpoints, tickets, told>>,
           MayMoveTo(i, t)
    PROVE  CallsInv'
<1>1. /\ calls' \in Seq(Call) /\ Len(calls') = Len(calls) /\ DOMAIN calls' = DOMAIN calls
      /\ \A j \in DOMAIN calls :
            /\ calls'[j].op = calls[j].op
            /\ calls'[j].attempt = calls[j].attempt
            /\ calls'[j].profile = calls[j].profile
            /\ calls'[j].cost = calls[j].cost
    BY MoveToFacts DEF CallsInv
<1>2. CallsTypeOK'
    BY <1>1 DEF CallsInv, CallsTypeOK
<1>3. UnusedInv'
    BY DEF CallsInv, UnusedInv
<1>4. AttemptInv'
    BY <1>1 DEF CallsInv, AttemptInv, Running
<1>5. MetricsOnce'
  <2>1. \A a \in DOMAIN attempts : attempts[a].endedBy \in {0} \cup DOMAIN calls
    BY Rows DEF CallsInv, AttemptInv
  <2> QED
    BY <1>1, <2>1 DEF CallsInv, MetricsOnce
<1>6. OthersKept(i)
  <2>1. \A j \in DOMAIN calls : Happened(j) => Happened(j)'
    BY <1>1 DEF Happened
  <2>2. \A j \in DOMAIN calls : Changed(j)' => Changed(j)
    BY DEF Changed
  <2>3. \A j \in DOMAIN calls : Working(j) /\ calls[j].op \in Carries => Running(calls[j].attempt)'
    BY <1>1 DEF CallsInv, HoldInv, Running
  <2> QED
    BY <2>1, <2>2, <2>3 DEF OthersKept, Running
<1> QED
    BY <1>2, <1>3, <1>4, <1>5, <1>6, StepKeepsInv

\* The steps that touch no table: refusals, reads, and the inside of a transaction.
LEMMA MovesKeepInv ==
    ASSUME CallsInv, NEW i \in DOMAIN calls,
           \/ RejectArguments(i) \/ RejectRequest(i) \/ Unavailable(i) \/ NoneClaimable(i)
           \/ Heartbeat(i) \/ NotRunning(i) \/ Update(i) \/ Store(i) \/ Abort(i)
    PROVE  CallsInv'
<1> USE DEF AllStages, Result
<1>0. /\ CallsTypeOK /\ AttemptInv /\ QuietInv /\ HoldInv
      /\ calls[i].op \in Op
    BY Rows DEF CallsInv, Call
<1>m. ASSUME NEW t \in AllStages, MoveTo(i, t)
      PROVE  /\ calls'[i].op = calls[i].op /\ calls'[i].attempt = calls[i].attempt
             /\ DOMAIN calls' = DOMAIN calls
    BY <1>0, <1>m, MoveToFacts
<1>c. UNCHANGED <<attempts, metrics, checkpoints, tickets, told>> => (Changed(i)' <=> Changed(i))
    BY DEF Changed
<1>1. CASE RejectArguments(i) \/ RejectRequest(i) \/ Unavailable(i)
  <2>1. PICK t \in {"argument", "invalid", "failed"} : MoveTo(i, t)
    BY <1>1 DEF RejectArguments, RejectRequest, Unavailable
  <2>2. UNCHANGED <<attempts, metrics, checkpoints, tickets, told>> /\ calls[i].stage = "sent"
    BY <1>1 DEF RejectArguments, RejectRequest, Unavailable, Stage
  <2>3. MayMoveTo(i, t)
    BY <1>0, <1>c, <2>2 DEF MayMoveTo, QuietInv, Quiet
  <2> QED BY <2>1, <2>2, <2>3, MoveKeepsInv
<1>2. CASE NoneClaimable(i)
  <2>1. MayMoveTo(i, "no_claimable")
    BY <1>0, <1>c, <1>2 DEF NoneClaimable, Stage, MayMoveTo, QuietInv, Quiet
  <2> QED BY <1>2, <2>1, MoveKeepsInv DEF NoneClaimable
<1>3. CASE Heartbeat(i)
  <2>1. PICK t \in {"ok", "failed"} : MoveTo(i, t)
    BY <1>3 DEF Heartbeat, Effective
  <2>2. MayMoveTo(i, t)
    BY <1>m, <1>3, <2>1 DEF Heartbeat, Reaches, MayMoveTo, Happened, Quiet, Ending
  <2> QED BY <1>3, <2>1, <2>2, MoveKeepsInv DEF Heartbeat
<1>4. CASE NotRunning(i)
  <2>1. MayMoveTo(i, "not_running")
    BY <1>0, <1>c, <1>m, <1>4 DEF NotRunning, Reaches, Stage, Running, MayMoveTo, QuietInv, Quiet
  <2> QED BY <1>4, <2>1, MoveKeepsInv DEF NotRunning
<1>5. CASE Update(i)
  <2>1. MayMoveTo(i, "updated")
    <3>1. calls[i].op \in Carries \cup {"create"} /\ ~ Changed(i)'
      BY <1>0, <1>c, <1>5 DEF Update, Reaches, Stage, QuietInv, Quiet, Carries, Ending
    <3>2. ASSUME calls[i].op \in Carries
          PROVE  /\ Running(calls[i].attempt)'
                 /\ \A j \in DOMAIN calls \ {i} :
                       Working(j) /\ calls[j].op \in Carries => calls[j].attempt # calls[i].attempt
      BY <1>m, <1>5, <3>2 DEF Update, Reaches, Running, Held, Working, Carries
    <3> QED BY <3>1, <3>2 DEF MayMoveTo, Quiet, Carries
  <2> QED BY <1>5, <2>1, MoveKeepsInv DEF Update
<1>6. CASE Store(i)
  <2>1. PICK t \in {"stored", "failed"} : MoveTo(i, t)
    BY <1>6 DEF Store
  <2>2. MayMoveTo(i, t)
    BY <1>0, <1>c, <1>m, <1>6, <2>1 DEF Store, Stage, MayMoveTo, QuietInv, HoldInv, Working, Running, Quiet
  <2> QED BY <1>6, <2>1, <2>2, MoveKeepsInv DEF Store
<1>7. CASE Abort(i)
  <2>1. PICK t \in {"missing", "failed"} : MoveTo(i, t)
    BY <1>7 DEF Abort
  <2>2. MayMoveTo(i, t)
    BY <1>0, <1>c, <1>7 DEF Abort, MayMoveTo, QuietInv, Working, Quiet
  <2> QED BY <1>7, <2>1, <2>2, MoveKeepsInv DEF Abort
<1> QED
    BY <1>1, <1>2, <1>3, <1>4, <1>5, <1>6, <1>7

\* A claim adds a row that nothing refers to yet.
LEMMA ClaimKeepsInv ==
    ASSUME CallsInv, NEW i \in DOMAIN calls, ClaimNext(i)
    PROVE  CallsInv'
<1> USE DEF AllStages, Result
<1> DEFINE n == Len(attempts) + 1
           r == [profile |-> calls[i].profile, status |-> "running", claimedBy |-> i, endedBy |-> 0]
<1>1. PICK t \in {"ok", "failed"} : MoveTo(i, t)
    BY DEF ClaimNext, Effective
<1>2. CallsTypeOK /\ UnusedInv /\ AttemptInv /\ MetricsOnce /\ HoldInv
    BY DEF CallsInv
<1>3. /\ calls' \in Seq(Call) /\ Len(calls') = Len(calls) /\ DOMAIN calls' = DOMAIN calls
      /\ \A j \in DOMAIN calls :
            /\ calls'[j].op = calls[j].op
            /\ calls'[j].attempt = calls[j].attempt
            /\ calls'[j].profile = calls[j].profile
            /\ calls'[j].cost = calls[j].cost
    BY <1>1, <1>2, MoveToFacts
<1>4. /\ r \in Attempt /\ i \in 1 .. Len(calls)
      /\ r.profile = calls[i].profile /\ r.status = "running" /\ r.claimedBy = i /\ r.endedBy = 0
    BY <1>2, Rows DEF Call, Attempt, AttemptStatus
<1>5. /\ attempts' = Append(attempts, r) /\ Len(attempts) < MaxAttempts
      /\ calls[i].op = "claim" /\ \A a \in DOMAIN attempts : ~ Running(a)
      /\ UNCHANGED <<metrics, checkpoints, tickets, told>>
    BY DEF ClaimNext
<1> HIDE DEF r
<1>6. /\ attempts' \in Seq(Attempt) /\ Len(attempts') = n /\ DOMAIN attempts' = 1 .. n
      /\ DOMAIN attempts = 1 .. Len(attempts) /\ Len(attempts) \in Nat
      /\ n \in DOMAIN attempts' \ DOMAIN attempts /\ n \in 1 .. MaxAttempts
      /\ \A a \in DOMAIN attempts : attempts'[a] = attempts[a]
      /\ attempts'[n] = r
  <2>1. attempts \in Seq(Attempt)
    BY <1>2 DEF CallsTypeOK
  <2> QED
    BY CallsAssumption, <1>2, <1>4, <1>5, <2>1, Rows, AppendProperties, LenProperties
<1> HIDE DEF n
<1>7. /\ DOMAIN attempts' = DOMAIN attempts \cup {n}
      /\ metrics[n] = NoMetrics /\ checkpoints[n] = {}
    BY <1>2, <1>6 DEF UnusedInv, n
<1>8. CallsTypeOK'
    BY CallsAssumption, <1>2, <1>3, <1>5, <1>6, <1>7 DEF CallsTypeOK, n
<1>9. UnusedInv'
    BY <1>2, <1>5, <1>7 DEF UnusedInv
<1>10. AttemptInv'
  <2> SUFFICES ASSUME NEW a \in DOMAIN attempts'
               PROVE  /\ attempts'[a].claimedBy \in 0 .. Len(calls)
                      /\ attempts'[a].endedBy \in 0 .. Len(calls)
                      /\ attempts'[a].status = "running" => attempts'[a].endedBy = 0
    BY <1>3 DEF AttemptInv, Running
  <2>1. CASE a = n
    BY <1>2, <1>4, <1>6, <2>1, Rows
  <2>2. CASE a \in DOMAIN attempts
    BY <1>2, <1>6, <2>2 DEF AttemptInv, Running
  <2> QED BY <1>7, <2>1, <2>2
<1>11. MetricsOnce'
  <2>1. \A a \in DOMAIN attempts : attempts[a].endedBy \in {0} \cup DOMAIN calls
    BY <1>2, Rows DEF AttemptInv
  <2> QED
    BY <1>2, <1>3, <1>4, <1>5, <1>6, <1>7, <2>1 DEF MetricsOnce
<1>12. MayMoveTo(i, t)
    BY <1>3, <1>4, <1>5, <1>6, <1>7 DEF MayMoveTo, Happened, Quiet, Ending
<1>13. OthersKept(i)
  <2>0. \A j \in DOMAIN calls : calls[j].op \in OnAttempt => calls[j].attempt \in DOMAIN attempts
    BY <1>2 DEF CallsTypeOK
  <2>1. \A j \in DOMAIN calls \ {i} : Changed(j)' => Changed(j)
    BY <1>4, <1>5, <1>6, <1>7, Rows, <1>2 DEF Changed
  <2>2. \A j \in DOMAIN calls : Happened(j) => Happened(j)'
    BY <1>3, <1>5, <1>6, <1>7, <2>0 DEF Happened, OnAttempt
  <2>3. \A j \in DOMAIN calls : Working(j) /\ calls[j].op \in Carries => Running(calls[j].attempt)'
    BY <1>2, <1>3, <1>6, <2>0 DEF HoldInv, Running, OnAttempt, Carries, Ending
  <2> QED
    BY <1>5, <1>6, <2>1, <2>2, <2>3 DEF OthersKept, Running
<1> QED
    BY <1>1, <1>8, <1>9, <1>10, <1>11, <1>12, <1>13, StepKeepsInv

\* A checkpoint is one row more for the attempt.
LEMMA CheckpointKeepsInv ==
    ASSUME CallsInv, NEW i \in DOMAIN calls, Checkpoint(i)
    PROVE  CallsInv'
<1> USE DEF AllStages, Result
<1>1. PICK t \in {"ok", "failed"} : MoveTo(i, t)
    BY DEF Checkpoint, Effective
<1>2. CallsTypeOK /\ UnusedInv /\ AttemptInv /\ MetricsOnce /\ HoldInv
    BY DEF CallsInv
<1>3. /\ calls' \in Seq(Call) /\ Len(calls') = Len(calls) /\ DOMAIN calls' = DOMAIN calls
      /\ \A j \in DOMAIN calls :
            /\ calls'[j].op = calls[j].op
            /\ calls'[j].attempt = calls[j].attempt
            /\ calls'[j].profile = calls[j].profile
            /\ calls'[j].cost = calls[j].cost
    BY <1>1, <1>2, MoveToFacts
<1>4. /\ calls[i].op = "checkpoint"
      /\ calls[i].attempt \in DOMAIN attempts /\ calls[i].attempt \in 1 .. MaxAttempts
      /\ checkpoints' = [checkpoints EXCEPT ![calls[i].attempt] = @ \cup {i}]
      /\ UNCHANGED <<attempts, metrics, tickets, told>>
    BY <1>2, Rows DEF Checkpoint, Reaches, CallsTypeOK, OnAttempt
<1>5. \A a \in 1 .. MaxAttempts :
          checkpoints'[a] = IF a = calls[i].attempt THEN checkpoints[a] \cup {i} ELSE checkpoints[a]
    BY <1>2, <1>4 DEF CallsTypeOK
<1>6. CallsTypeOK'
  <2>1. i \in 1 .. Len(calls)
    BY <1>2, Rows
  <2> QED
    BY <1>2, <1>3, <1>4, <2>1 DEF CallsTypeOK
<1>7. UnusedInv'
    BY <1>2, <1>4, <1>5 DEF UnusedInv
<1>8. AttemptInv'
    BY <1>2, <1>3, <1>4 DEF AttemptInv, Running
<1>9. MetricsOnce'
  <2>1. \A a \in DOMAIN attempts : attempts[a].endedBy \in {0} \cup DOMAIN calls
    BY <1>2, Rows DEF AttemptInv
  <2> QED
    BY <1>2, <1>3, <1>4, <2>1 DEF MetricsOnce
<1>10. MayMoveTo(i, t)
  <2>0. calls'[i].op = "checkpoint" /\ calls'[i].attempt = calls[i].attempt
    BY <1>3, <1>4
  <2>1. i \in checkpoints'[calls'[i].attempt]
    <3>1. checkpoints'[calls[i].attempt] = checkpoints[calls[i].attempt] \cup {i}
      BY <1>4, <1>5
    <3> QED BY <2>0, <3>1
  <2>2. Happened(i)'
    BY <2>0, <2>1 DEF Happened, Ending
  <2> QED
    BY <2>2 DEF MayMoveTo, Quiet
<1>11. OthersKept(i)
  <2>0. \A j \in DOMAIN calls : calls[j].op \in OnAttempt => calls[j].attempt \in DOMAIN attempts
    BY <1>2 DEF CallsTypeOK
  <2>1. \A j \in DOMAIN calls \ {i} : Changed(j)' => Changed(j)
    BY <1>2, <1>4, <1>5, Rows DEF Changed
  <2>2. \A j \in DOMAIN calls : Happened(j) => Happened(j)'
    BY <1>2, <1>3, <1>4, <1>5, <2>0, Rows DEF Happened, OnAttempt
  <2>3. \A j \in DOMAIN calls : Working(j) /\ calls[j].op \in Carries => Running(calls[j].attempt)'
    BY <1>2, <1>3, <1>4 DEF HoldInv, Running
  <2> QED
    BY <1>4, <2>1, <2>2, <2>3 DEF OthersKept, Running
<1> QED
    BY <1>1, <1>6, <1>7, <1>8, <1>9, <1>10, <1>11, StepKeepsInv

\* An end, by cancel or by the commit of a transaction: nobody else holds the attempt,
\* and it has neither an end nor metrics.
LEMMA EndKeepsInv ==
    ASSUME CallsInv, NEW i \in DOMAIN calls, calls[i].op \in Ending,
           ~ Changed(i),
           Running(calls[i].attempt),
           \A j \in DOMAIN calls \ {i} :
               Working(j) /\ calls[j].op \in Carries => calls[j].attempt # calls[i].attempt,
           EndBy(i), Effective(i),
           metrics' = IF calls[i].cost = NoMetrics THEN metrics
                      ELSE [metrics EXCEPT ![calls[i].attempt] = calls[i].cost],
           UNCHANGED <<checkpoints, tickets, told>>
    PROVE  CallsInv'
<1> USE DEF AllStages, Result
<1> DEFINE b == calls[i].attempt
<1>1. PICK t \in {"ok", "failed"} : MoveTo(i, t)
    BY DEF Effective
<1>2. CallsTypeOK /\ UnusedInv /\ AttemptInv /\ MetricsOnce /\ HoldInv
    BY DEF CallsInv
<1>3. /\ calls' \in Seq(Call) /\ Len(calls') = Len(calls) /\ DOMAIN calls' = DOMAIN calls
      /\ \A j \in DOMAIN calls :
            /\ calls'[j].op = calls[j].op
            /\ calls'[j].attempt = calls[j].attempt
            /\ calls'[j].profile = calls[j].profile
            /\ calls'[j].cost = calls[j].cost
    BY <1>1, <1>2, MoveToFacts
<1>4. /\ attempts' \in Seq(Attempt) /\ Len(attempts') = Len(attempts)
      /\ DOMAIN attempts' = DOMAIN attempts
      /\ \A a \in DOMAIN attempts :
            /\ attempts'[a].profile = attempts[a].profile
            /\ attempts'[a].claimedBy = attempts[a].claimedBy
            /\ attempts'[a].endedBy = IF a = b THEN i ELSE attempts[a].endedBy
            /\ attempts'[a].status = IF a = b THEN Outcome(calls[i].op) ELSE attempts[a].status
    BY <1>2, EndByFacts
<1>5. /\ b \in DOMAIN attempts /\ b \in 1 .. MaxAttempts
      /\ Outcome(calls[i].op) # "running"
      /\ attempts[b].endedBy = 0 /\ metrics[b] = NoMetrics
      /\ i \in 1 .. Len(calls) /\ i # 0
      /\ calls[i].cost \in Cost \cup {NoMetrics}
  <2>1. b \in DOMAIN attempts /\ b \in 1 .. MaxAttempts
    BY <1>2, Rows DEF CallsTypeOK, OnAttempt
  <2>2. i \in 1 .. Len(calls) /\ i # 0 /\ calls[i].cost \in Cost \cup {NoMetrics}
    BY <1>2, Rows DEF Call
  <2> QED
    BY <1>2, <2>1, <2>2, OutcomeEnds DEF AttemptInv, MetricsOnce
<1>6. \A a \in 1 .. MaxAttempts : metrics'[a] = IF a = b THEN calls[i].cost ELSE metrics[a]
    BY <1>2, <1>5 DEF CallsTypeOK
<1> HIDE DEF b
<1>7. CallsTypeOK'
  <2>1. metrics' \in [1 .. MaxAttempts -> Cost \cup {NoMetrics}]
    BY <1>2, <1>5 DEF CallsTypeOK, b
  <2> QED
    BY <1>2, <1>3, <1>4, <2>1 DEF CallsTypeOK
<1>8. UnusedInv'
    BY <1>2, <1>4, <1>5, <1>6 DEF UnusedInv
<1>9. AttemptInv'
  <2> SUFFICES ASSUME NEW a \in DOMAIN attempts
               PROVE  /\ attempts'[a].claimedBy \in 0 .. Len(calls)
                      /\ attempts'[a].endedBy \in 0 .. Len(calls)
                      /\ attempts'[a].status = "running" => attempts'[a].endedBy = 0
    BY <1>3, <1>4 DEF AttemptInv, Running
  <2>1. /\ attempts[a].claimedBy \in 0 .. Len(calls)
        /\ attempts[a].endedBy \in 0 .. Len(calls)
        /\ attempts[a].status = "running" => attempts[a].endedBy = 0
    BY <1>2 DEF AttemptInv, Running
  <2> QED BY <1>2, <1>4, <1>5, <2>1, Rows
<1>10. MetricsOnce'
  <2>1. \A a \in DOMAIN attempts : attempts[a].endedBy \in {0} \cup DOMAIN calls
    BY <1>2, Rows DEF AttemptInv
  <2>2. DOMAIN attempts \subseteq 1 .. MaxAttempts
    BY <1>2, Rows
  <2> QED
    BY <1>2, <1>3, <1>4, <1>5, <1>6, <2>1, <2>2 DEF MetricsOnce
<1>11. MayMoveTo(i, t)
    BY <1>3, <1>4, <1>5, <1>6 DEF MayMoveTo, Happened, Quiet, Ending, b
<1>12. OthersKept(i)
  <2>0. \A j \in DOMAIN calls : calls[j].op \in OnAttempt => calls[j].attempt \in DOMAIN attempts
    BY <1>2 DEF CallsTypeOK
  <2>1. \A j \in DOMAIN calls \ {i} : Changed(j)' => Changed(j)
    BY <1>4 DEF Changed
  <2>2. \A j \in DOMAIN calls \ {i} : calls[j].stage = "ok" /\ Happened(j) => Happened(j)'
    <3> SUFFICES ASSUME NEW j \in DOMAIN calls \ {i}, Happened(j)
                 PROVE  Happened(j)'
      OBVIOUS
    <3>1. calls[j].op \in Ending => calls[j].attempt # b /\ calls[j].attempt \in 1 .. MaxAttempts
      <4>1. j # 0
        BY <1>2, Rows
      <4> QED
        BY <1>2, <1>5, <2>0, <4>1, Rows DEF Happened, OnAttempt
    <3>2. calls[j].op \in Ending => calls[j].attempt \in DOMAIN attempts
      BY <2>0 DEF OnAttempt
    <3>3. calls[j].op \in Ending =>
              /\ attempts'[calls'[j].attempt].endedBy = j
              /\ attempts'[calls'[j].attempt].status = Outcome(calls'[j].op)
              /\ metrics'[calls'[j].attempt] = calls'[j].cost
      BY <1>3, <1>4, <1>6, <3>1, <3>2 DEF Happened
    <3>4. calls[j].op = "claim" =>
              \E a \in DOMAIN attempts' :
                  attempts'[a].claimedBy = j /\ attempts'[a].profile = calls'[j].profile
      BY <1>3, <1>4 DEF Happened
    <3> QED
      BY <1>3, <3>3, <3>4 DEF Happened
  <2>3. \A j \in DOMAIN calls \ {i} : Working(j) /\ calls[j].op \in Carries => Running(calls[j].attempt)'
    BY <1>2, <1>3, <1>4, <2>0 DEF HoldInv, Running, b, OnAttempt, Carries, Ending
  <2> QED
    BY <1>4, <1>5, <2>1, <2>2, <2>3 DEF OthersKept, Running
<1> QED
    BY <1>1, <1>7, <1>8, <1>9, <1>10, <1>11, <1>12, StepKeepsInv

\* The steps that end an attempt.
LEMMA EndsKeepInv ==
    ASSUME CallsInv, NEW i \in DOMAIN calls,
           Cancel(i) \/ (CommitCall(i) /\ calls[i].op # "create")
    PROVE  CallsInv'
<1>1. CallsTypeOK /\ AskedInv /\ QuietInv /\ HoldInv
    BY DEF CallsInv
<1>2. CASE Cancel(i)
  <2>1. calls[i].op \in Ending /\ calls[i].cost = NoMetrics /\ ~ Changed(i)
    BY <1>1, <1>2 DEF Cancel, Reaches, Stage, Ending, AskedInv, Carries, QuietInv, Quiet
  <2>2. \A j \in DOMAIN calls \ {i} :
            Working(j) /\ calls[j].op \in Carries => calls[j].attempt # calls[i].attempt
    BY <1>2 DEF Cancel, Reaches, Held, Working
  <2> QED
    BY <1>2, <2>1, <2>2, EndKeepsInv DEF Cancel
<1>3. CASE CommitCall(i) /\ calls[i].op # "create"
  <2>1. Working(i) /\ calls[i].op # "follow_up"
    BY <1>1, <1>3 DEF CommitCall, Stage, HoldInv, Working
  <2>2. calls[i].op \in Carries /\ calls[i].op \in Ending /\ ~ Changed(i) /\ Running(calls[i].attempt)
    BY <1>1, <1>3, <2>1 DEF HoldInv, QuietInv, Carries, Ending
  <2>3. \A j \in DOMAIN calls \ {i} :
            Working(j) /\ calls[j].op \in Carries => calls[j].attempt # calls[i].attempt
    BY <1>1, <2>1, <2>2 DEF HoldInv
  <2> QED
    BY <1>3, <2>2, <2>3, EndKeepsInv DEF CommitCall
<1> QED BY <1>2, <1>3

\* The steps that make a new ticket visible, or its event.
LEMMA TicketsKeepInv ==
    ASSUME CallsInv, NEW i \in DOMAIN calls,
           (CommitCall(i) /\ calls[i].op = "create") \/ InsertFollowUp(i) \/ TellFollowUp(i)
    PROVE  CallsInv'
<1> USE DEF AllStages, Result
<1>1. CallsTypeOK /\ UnusedInv /\ AttemptInv /\ MetricsOnce /\ HoldInv
    BY DEF CallsInv
<1>2. PICK t \in {"ok", "failed", "updated"} :
          /\ MoveTo(i, t)
          /\ calls[i].op \in {"create", "follow_up"}
          /\ tickets \subseteq tickets' /\ tickets' \subseteq tickets \cup {i}
          /\ told \subseteq told' /\ told' \subseteq told \cup {i}
          /\ t = "ok" => i \in tickets' \cap told'
          /\ t = "updated" => calls[i].op = "follow_up" /\ i \in tickets'
          /\ UNCHANGED <<attempts, metrics, checkpoints>>
  <2>1. CASE CommitCall(i) /\ calls[i].op = "create"
    BY <2>1 DEF CommitCall, Effective
  <2>2. CASE InsertFollowUp(i)
    BY <2>2 DEF InsertFollowUp
  <2>3. CASE TellFollowUp(i)
    <3>1. i \in tickets
      BY <1>1, <2>3 DEF TellFollowUp, Stage, HoldInv, Working
    <3> QED BY <2>3, <3>1 DEF TellFollowUp, Effective
  <2> QED BY <2>1, <2>2, <2>3
<1>3. /\ calls' \in Seq(Call) /\ Len(calls') = Len(calls) /\ DOMAIN calls' = DOMAIN calls
      /\ \A j \in DOMAIN calls :
            /\ calls'[j].op = calls[j].op
            /\ calls'[j].attempt = calls[j].attempt
            /\ calls'[j].profile = calls[j].profile
            /\ calls'[j].cost = calls[j].cost
    BY <1>1, <1>2, MoveToFacts
<1>4. CallsTypeOK'
  <2>1. i \in 1 .. Len(calls)
    BY <1>1, Rows
  <2> QED
    BY <1>1, <1>2, <1>3, <2>1 DEF CallsTypeOK
<1>5. UnusedInv'
    BY <1>1, <1>2 DEF UnusedInv
<1>6. AttemptInv'
    BY <1>1, <1>2, <1>3 DEF AttemptInv, Running
<1>7. MetricsOnce'
  <2>1. \A a \in DOMAIN attempts : attempts[a].endedBy \in {0} \cup DOMAIN calls
    BY <1>1, Rows DEF AttemptInv
  <2> QED
    BY <1>1, <1>2, <1>3, <2>1 DEF MetricsOnce
<1>8. MayMoveTo(i, t)
    BY <1>2, <1>3 DEF MayMoveTo, Happened, Quiet, Ending, Carries
<1>9. OthersKept(i)
  <2>1. \A j \in DOMAIN calls \ {i} : Changed(j)' => Changed(j)
    BY <1>2 DEF Changed
  <2>2. \A j \in DOMAIN calls : Happened(j) => Happened(j)'
    BY <1>2, <1>3 DEF Happened
  <2>3. \A j \in DOMAIN calls : Working(j) /\ calls[j].op \in Carries => Running(calls[j].attempt)'
    BY <1>1, <1>2, <1>3 DEF HoldInv, Running
  <2> QED
    BY <1>2, <2>1, <2>2, <2>3 DEF OthersKept, Running
<1> QED
    BY <1>2, <1>4, <1>5, <1>6, <1>7, <1>8, <1>9, StepKeepsInv

\* A new call refers to nothing that any row refers to.
LEMMA SendKeepsInv ==
    ASSUME CallsInv, NEW op \in Op, NEW a \in 0 .. MaxAttempts, NEW p \in Profile,
           NEW cost \in Cost \cup {NoMetrics}, Send(op, a, p, cost)
    PROVE  CallsInv'
<1>n. PICK n : n = Len(calls) + 1
    OBVIOUS
<1> DEFINE c == [op |-> op, attempt |-> a, profile |-> p, cost |-> cost, stage |-> "sent"]
<1>1. CallsTypeOK /\ UnusedInv /\ AttemptInv /\ AskedInv /\ MetricsOnce /\ QuietInv /\ HoldInv /\ ResultInv
    BY DEF CallsInv
<1>2. /\ calls' = Append(calls, c) /\ Len(calls) < MaxCalls
      /\ UNCHANGED <<attempts, metrics, checkpoints, tickets, told>>
      /\ op \in OnAttempt => a \in DOMAIN attempts
      /\ op \notin Carries => cost = NoMetrics
    BY DEF Send, Transactional, Carries
<1>3. /\ c \in Call /\ c.op = op /\ c.attempt = a /\ c.cost = cost /\ c.stage = "sent"
    BY CallsAssumption DEF Call
<1> HIDE DEF c
<1>4. /\ calls' \in Seq(Call) /\ Len(calls') = n /\ DOMAIN calls' = 1 .. n
      /\ DOMAIN calls = 1 .. Len(calls) /\ Len(calls) \in Nat
      /\ \A j \in DOMAIN calls : calls'[j] = calls[j]
      /\ calls'[n] = c
  <2>1. calls \in Seq(Call)
    BY <1>1 DEF CallsTypeOK
  <2> QED BY <1>n, <1>1, <1>2, <1>3, <2>1, Rows, AppendProperties, LenProperties
<1>5. /\ DOMAIN calls' = DOMAIN calls \cup {n} /\ n \notin DOMAIN calls
      /\ n \notin 0 .. Len(calls) /\ 0 .. Len(calls) \subseteq 0 .. n /\ n <= MaxCalls
      /\ 1 .. Len(calls) \subseteq 1 .. n
    BY CallsAssumption, <1>n, <1>2, <1>4
<1>6. CallsTypeOK'
  <2>1. \A i \in DOMAIN calls' : calls'[i].op \in OnAttempt => calls'[i].attempt \in DOMAIN attempts
    BY <1>1, <1>2, <1>3, <1>4, <1>5 DEF CallsTypeOK
  <2>2. checkpoints \in [1 .. MaxAttempts -> SUBSET (1 .. n)]
    BY <1>1, <1>5 DEF CallsTypeOK
  <2>3. Len(calls') = n /\ tickets \subseteq 1 .. n /\ told \subseteq 1 .. n
    BY <1>1, <1>4, <1>5 DEF CallsTypeOK
  <2> QED
    BY <1>1, <1>2, <1>4, <1>5, <2>1, <2>2, <2>3 DEF CallsTypeOK
<1>7. UnusedInv'
    BY <1>1, <1>2 DEF UnusedInv
<1>8. AttemptInv'
    BY <1>1, <1>2, <1>4, <1>5 DEF AttemptInv, Running
<1>9. AskedInv'
    BY <1>1, <1>2, <1>3, <1>4, <1>5 DEF AskedInv
<1>10. MetricsOnce'
  <2>1. \A b \in DOMAIN attempts : attempts[b].endedBy \in {0} \cup DOMAIN calls
    BY <1>1, Rows DEF AttemptInv
  <2> QED
    BY <1>1, <1>2, <1>4, <2>1 DEF MetricsOnce
<1>11. ~ Changed(n)'
  <2>1. \A b \in DOMAIN attempts : attempts[b].claimedBy # n /\ attempts[b].endedBy # n
    BY <1>1, <1>5 DEF AttemptInv
  <2>2. n \notin tickets /\ \A b \in DOMAIN attempts : n \notin checkpoints[b]
    BY <1>1, <1>4, <1>5, Rows DEF CallsTypeOK
  <2> QED
    BY <1>2, <2>1, <2>2 DEF Changed
<1>12. \A j \in DOMAIN calls : Changed(j)' => Changed(j)
    BY <1>2 DEF Changed
<1>13. QuietInv'
    BY <1>1, <1>3, <1>4, <1>5, <1>11, <1>12 DEF QuietInv, Working
<1>14. HoldInv'
  <2>1. \A j \in DOMAIN calls' : Working(j)' => j \in DOMAIN calls /\ Working(j)
    BY <1>3, <1>4, <1>5 DEF Working
  <2> QED
    BY <1>1, <1>2, <1>4, <1>5, <2>1 DEF HoldInv, Running
<1>15. ResultInv'
  <2>1. \A j \in DOMAIN calls : Happened(j) => Happened(j)'
    BY <1>2, <1>4 DEF Happened
  <2> QED
    BY <1>1, <1>2, <1>3, <1>4, <1>5, <2>1 DEF ResultInv, Running
<1> QED
    BY <1>6, <1>7, <1>8, <1>9, <1>10, <1>13, <1>14, <1>15 DEF CallsInv

\* An expiry waits for whoever holds the attempt, and ends no other.
LEMMA ExpireKeepsInv ==
    ASSUME CallsInv, NEW a \in DOMAIN attempts, Expire(a)
    PROVE  CallsInv'
<1> DEFINE r == [attempts[a] EXCEPT !.status = "expired"]
<1>1. CallsTypeOK /\ UnusedInv /\ AttemptInv /\ AskedInv /\ MetricsOnce /\ QuietInv /\ HoldInv /\ ResultInv
    BY DEF CallsInv
<1>2. /\ Running(a) /\ ~ Held(a)
      /\ attempts' = [attempts EXCEPT ![a] = r]
      /\ UNCHANGED <<metrics, checkpoints, tickets, told, calls>>
    BY DEF Expire
<1>3. /\ r \in Attempt /\ r.profile = attempts[a].profile /\ r.status = "expired"
      /\ r.claimedBy = attempts[a].claimedBy /\ r.endedBy = attempts[a].endedBy
    BY <1>1, Rows DEF Attempt, AttemptStatus
<1> HIDE DEF r
<1>4. /\ attempts' \in Seq(Attempt) /\ Len(attempts') = Len(attempts)
      /\ DOMAIN attempts' = DOMAIN attempts
      /\ \A b \in DOMAIN attempts : attempts'[b] = IF b = a THEN r ELSE attempts[b]
  <2>1. attempts \in Seq(Attempt) /\ a \in 1 .. Len(attempts) /\ DOMAIN attempts = 1 .. Len(attempts)
    BY <1>1, Rows DEF CallsTypeOK
  <2>2. /\ attempts' \in Seq(Attempt) /\ Len(attempts') = Len(attempts)
        /\ \A b \in 1 .. Len(attempts) : attempts'[b] = IF b = a THEN r ELSE attempts[b]
    BY <1>2, <1>3, <2>1, ExceptSeq
  <2> QED BY <2>1, <2>2
<1>5. \A b \in DOMAIN attempts :
          /\ attempts'[b].profile = attempts[b].profile
          /\ attempts'[b].claimedBy = attempts[b].claimedBy
          /\ attempts'[b].endedBy = attempts[b].endedBy
          /\ attempts'[b].status = IF b = a THEN "expired" ELSE attempts[b].status
    BY <1>3, <1>4
<1>6. CallsTypeOK'
    BY <1>1, <1>2, <1>4 DEF CallsTypeOK
<1>7. UnusedInv' /\ AskedInv'
    BY <1>1, <1>2, <1>4 DEF UnusedInv, AskedInv
<1>8. AttemptInv'
    BY <1>1, <1>2, <1>4, <1>5 DEF AttemptInv, Running
<1>9. MetricsOnce'
    BY <1>1, <1>2, <1>4, <1>5 DEF MetricsOnce
<1>10. \A i \in DOMAIN calls : Changed(i)' => Changed(i)
    BY <1>2, <1>4, <1>5 DEF Changed
<1>11. QuietInv'
    BY <1>1, <1>2, <1>10 DEF QuietInv, Working
<1>12. \A i \in DOMAIN calls : calls[i].op \in OnAttempt => calls[i].attempt \in DOMAIN attempts
    BY <1>1 DEF CallsTypeOK
<1>13. HoldInv'
  <2>1. \A i \in DOMAIN calls : Working(i) /\ calls[i].op \in Carries =>
            calls[i].attempt # a /\ Running(calls[i].attempt)
    BY <1>1, <1>2 DEF HoldInv, Held, Working
  <2>2. \A i \in DOMAIN calls : Working(i) /\ calls[i].op \in Carries => Running(calls[i].attempt)'
    BY <1>2, <1>5, <1>12, <2>1 DEF Running, OnAttempt, Carries, Ending
  <2> QED
    BY <1>1, <1>2, <2>2 DEF HoldInv, Working
<1>14. ResultInv'
  <2>1. ASSUME NEW i \in DOMAIN calls, Happened(i)
        PROVE  Happened(i)'
    <3>1. ASSUME calls[i].op \in Ending
          PROVE  /\ attempts'[calls[i].attempt].endedBy = i
                 /\ attempts'[calls[i].attempt].status = Outcome(calls[i].op)
      <4>1. calls[i].attempt \in DOMAIN attempts /\ i # 0
        BY <1>1, <1>12, <3>1, Rows DEF OnAttempt
      <4>2. attempts[calls[i].attempt].endedBy = i /\ attempts[calls[i].attempt].status = Outcome(calls[i].op)
        BY <2>1, <3>1 DEF Happened
      <4>3. calls[i].attempt # a
        BY <1>1, <1>2, <4>1, <4>2 DEF AttemptInv
      <4> QED BY <1>5, <4>1, <4>2, <4>3
    <3> QED
      BY <1>2, <1>4, <1>5, <2>1, <3>1 DEF Happened
  <2> QED
    BY <1>1, <1>2, <1>5, <1>12, <2>1 DEF ResultInv, Running
<1> QED
    BY <1>6, <1>7, <1>8, <1>9, <1>11, <1>13, <1>14 DEF CallsInv

-----------------------------------------------------------------------------
(* AgentCalls: the theorems.                                               *)

LEMMA CallsInitInv == CallsInit => CallsInv
<1> SUFFICES ASSUME CallsInit PROVE CallsInv
    OBVIOUS
<1> USE CallsAssumption
<1>1. /\ calls = <<>> /\ Len(calls) = 0 /\ DOMAIN calls = {} /\ calls \in Seq(Call)
    BY DEF CallsInit
<1>2. /\ attempts \in Seq(Attempt) /\ Len(attempts) <= 1
      /\ \A a \in DOMAIN attempts : attempts[a].claimedBy = 0 /\ attempts[a].endedBy = 0
      /\ DOMAIN attempts \subseteq 1 .. MaxAttempts
  <2>1. CASE attempts = <<>>
    BY <2>1
  <2>2. ASSUME NEW p \in Profile,
               attempts = <<[profile |-> p, status |-> "running", claimedBy |-> 0, endedBy |-> 0]>>
        PROVE  <1>2
    <3> DEFINE r == [profile |-> p, status |-> "running", claimedBy |-> 0, endedBy |-> 0]
    <3>1. r \in Attempt /\ r.claimedBy = 0 /\ r.endedBy = 0
      BY DEF Attempt, AttemptStatus
    <3> HIDE DEF r
    <3>2. attempts = <<r>>
      BY <2>2 DEF r
    <3> QED BY <3>1, <3>2
  <2> QED BY <2>1, <2>2 DEF CallsInit
<1>3. CallsTypeOK
    BY <1>1, <1>2 DEF CallsInit, CallsTypeOK
<1>4. UnusedInv /\ AttemptInv /\ AskedInv /\ MetricsOnce
    BY <1>1, <1>2 DEF CallsInit, UnusedInv, AttemptInv, AskedInv, MetricsOnce
<1>5. QuietInv /\ HoldInv /\ ResultInv
    BY <1>1 DEF QuietInv, HoldInv, ResultInv
<1> QED BY <1>3, <1>4, <1>5 DEF CallsInv

LEMMA CallsNextInv == CallsInv /\ [CallsNext]_callVars => CallsInv'
<1> SUFFICES ASSUME CallsInv, [CallsNext]_callVars PROVE CallsInv'
    OBVIOUS
<1>1. CASE \E op \in Op, a \in 0 .. MaxAttempts, p \in Profile, cost \in Cost \cup {NoMetrics} :
               Send(op, a, p, cost)
    BY <1>1, SendKeepsInv
<1>2. ASSUME NEW i \in DOMAIN calls, Serve(i)
      PROVE  CallsInv'
  <2>1. CASE \/ RejectArguments(i) \/ RejectRequest(i) \/ Unavailable(i) \/ NoneClaimable(i)
             \/ Heartbeat(i) \/ NotRunning(i) \/ Update(i) \/ Store(i) \/ Abort(i)
    BY <2>1, MovesKeepInv
  <2>2. CASE ClaimNext(i)
    BY <2>2, ClaimKeepsInv
  <2>3. CASE Checkpoint(i)
    BY <2>3, CheckpointKeepsInv
  <2>4. CASE Cancel(i) \/ (CommitCall(i) /\ calls[i].op # "create")
    BY <2>4, EndsKeepInv
  <2>5. CASE (CommitCall(i) /\ calls[i].op = "create") \/ InsertFollowUp(i) \/ TellFollowUp(i)
    BY <2>5, TicketsKeepInv
  <2> QED
    BY <1>2, <2>1, <2>2, <2>3, <2>4, <2>5 DEF Serve
<1>3. CASE \E a \in DOMAIN attempts : Expire(a)
    BY <1>3, ExpireKeepsInv
<1>4. CASE UNCHANGED callVars
    BY <1>4 DEF callVars, CallsInv, CallsTypeOK, UnusedInv, AttemptInv, AskedInv, MetricsOnce,
                QuietInv, HoldInv, ResultInv, Running, Working, Changed, Happened
<1> QED
    BY <1>1, <1>2, <1>3, <1>4 DEF CallsNext

LEMMA CallsInvHolds == CallsSpec => []CallsInv
BY CallsInitInv, CallsNextInv, PTL DEF CallsSpec

\* Rows and calls keep their types and refer to rows and calls that exist.
THEOREM CallsTypeCorrect == CallsSpec => []CallsTypeOK
<1>1. CallsInv => CallsTypeOK
    BY DEF CallsInv
<1> QED BY <1>1, CallsInvHolds, PTL

\* An attempt has the metrics of the one call that ended it: of the statements that
\* could overwrite them (recordAttemptMetrics, ON CONFLICT DO UPDATE) none gets there,
\* since a second end finds the attempt not running or waits for the row.
THEOREM MetricsOnceHolds == CallsSpec => []MetricsOnce
<1>1. CallsInv => MetricsOnce
    BY DEF CallsInv
<1> QED BY <1>1, CallsInvHolds, PTL

\* The answers of REST, MCP and the command line are true of the database for any number
\* of concurrent calls: success means done and still so, a refusal means nothing changed.
THEOREM AnswersAreTrueHold == CallsSpec => []AnswersAreTrue
<1>1. CallsInv => AnswersAreTrue
  <2> SUFFICES ASSUME CallsInv, NEW i \in DOMAIN calls, NEW c \in {"rest", "mcp", "cli"},
                      Answered(i)
               PROVE  LET answer == Answer(c, calls[i].stage) IN
                      /\ answer \in Success => Happened(i)
                      /\ answer \in {"400", "404", "409", "exit 2"} => ~ Changed(i)
                      /\ answer = "409" /\ calls[i].op \in OnAttempt => ~ Running(calls[i].attempt)
    BY DEF AnswersAreTrue, Offered
  <2>1. QuietInv /\ ResultInv /\ calls[i].stage \in Result
    BY DEF CallsInv, Answered
  <2> DEFINE answer == Answer(c, calls[i].stage)
  <2>2. /\ answer \in Success => calls[i].stage = "ok"
        /\ answer \in {"400", "404", "409", "exit 2"} => calls[i].stage \in Quiet
        /\ answer = "409" => calls[i].stage \in {"not_running", "no_claimable"}
    BY <2>1 DEF Answer, RestAnswer, McpAnswer, CliAnswer, Success, Result, Quiet
  <2> HIDE DEF answer
  <2>3. answer = "409" /\ calls[i].op \in OnAttempt => ~ Running(calls[i].attempt)
    BY <2>1, <2>2 DEF ResultInv, OnAttempt, Ending
  <2> QED
    BY <2>1, <2>2, <2>3 DEF QuietInv, ResultInv, answer
<1> QED BY <1>1, CallsInvHolds, PTL

-----------------------------------------------------------------------------
(* Sums over finite sets, as Functions and Folds define them. An induction *)
(* is an argument about a counterexample with the fewest elements.         *)

\* The induction: a family of subsets of a finite set that has the empty set and, with
\* all smaller sets, every set, has them all.
LEMMA SmallestSet ==
    ASSUME NEW S, IsFiniteSet(S), NEW Good,
           \A A \in SUBSET S : (\A B \in SUBSET A : B # A => B \in Good) => A \in Good
    PROVE  \A A \in SUBSET S : A \in Good
<1> DEFINE Bad == {A \in SUBSET S : A \notin Good}
           Sizes == {Cardinality(A) : A \in Bad}
<1> SUFFICES ASSUME Bad # {} PROVE FALSE
    OBVIOUS
<1>1. \A A \in SUBSET S : IsFiniteSet(A) /\ Cardinality(A) \in Nat
    BY FS_Subset, FS_CardinalityType
<1>2. PICK m \in Sizes : \A n \in Sizes : m <= n
  <2>1. Sizes \in SUBSET Nat /\ Sizes # {}
    BY <1>1
  <2> HIDE DEF Sizes
  <2> QED BY <2>1, LeastNumber
<1>3. PICK A \in Bad : Cardinality(A) = m
    OBVIOUS
<1>4. ASSUME NEW B \in SUBSET A, B # A PROVE B \in Good
  <2>1. Cardinality(B) < Cardinality(A)
    BY <1>1, <1>4, FS_Subset
  <2>2. B \in SUBSET S /\ Cardinality(B) \in Nat /\ Cardinality(A) \in Nat
    BY <1>1, <1>4
  <2> SUFFICES ASSUME B \in Bad PROVE FALSE
    BY <2>2
  <2>3. Cardinality(A) <= Cardinality(B)
    BY <1>2, <1>3
  <2> QED BY <2>1, <2>2, <2>3
<1> QED BY <1>3, <1>4

\* The recursive function behind a sum (Folds, MapThenFoldSet).
First(A) == CHOOSE x \in A : TRUE

Adds(g, f, S) == g = [A \in SUBSET S |-> IF A = {} THEN 0 ELSE f[First(A)] + g[A \ {First(A)}]]

Adder(f, S) == CHOOSE g : Adds(g, f, S)

LEMMA SumByAdder ==
    ASSUME NEW f, NEW S
    PROVE  SumFunctionOnSet(f, S) = Adder(f, S)[S]
BY DEF SumFunctionOnSet, FoldFunctionOnSet, MapThenFoldSet, Adder, Adds, First

\* The recursion has a solution: one for the sets of up to n elements, for every n.
LEMMA AdderExists ==
    ASSUME NEW f, NEW S, IsFiniteSet(S)
    PROVE  Adds(Adder(f, S), f, S)
<1> DEFINE Small(n) == {A \in SUBSET S : Cardinality(A) <= n}
           Solves(g, n) == g = [A \in Small(n) |->
                                  IF A = {} THEN 0 ELSE f[First(A)] + g[A \ {First(A)}]]
           Unsolved == {n \in Nat : ~ \E g : Solves(g, n)}
<1>1. \A A \in SUBSET S : IsFiniteSet(A) /\ Cardinality(A) \in Nat
    BY FS_Subset, FS_CardinalityType
<1>2. \A A \in SUBSET S : A # {} =>
         /\ A \ {First(A)} \in SUBSET S
         /\ Cardinality(A \ {First(A)}) = Cardinality(A) - 1
    BY <1>1, FS_RemoveElement DEF First
<1>3. ASSUME Unsolved # {} PROVE FALSE
  <2>1. PICK n \in Unsolved : \A m \in Unsolved : n <= m
    BY <1>3, LeastNumber
  <2>2. n # 0
    <3> SUFFICES ASSUME n = 0 PROVE FALSE
      OBVIOUS
    <3>1. ASSUME NEW A \in Small(0) PROVE A = {}
      <4>1. A \in SUBSET S /\ IsFiniteSet(A) /\ Cardinality(A) = 0
        <5>1. A \in SUBSET S /\ Cardinality(A) <= 0
          OBVIOUS
        <5>2. IsFiniteSet(A) /\ Cardinality(A) \in Nat
          BY <1>1, <5>1
        <5> QED BY <5>1, <5>2
      <4> QED BY <4>1, FS_EmptySet
    <3>2. Solves([A \in Small(0) |-> 0], 0)
      BY <3>1
    <3> QED BY <2>1, <3>2
  <2>3. n - 1 \in Nat /\ n - 1 \notin Unsolved
    <3>1. n \in Nat
      OBVIOUS
    <3> HIDE DEF Unsolved
    <3>2. n - 1 \in Unsolved => n <= n - 1
      BY <2>1
    <3> QED BY <2>2, <3>1, <3>2
  <2>4. PICK g : Solves(g, n - 1)
    BY <2>3
  <2> DEFINE h == [A \in Small(n) |->
                     IF A = {} THEN 0 ELSE f[First(A)] + g[A \ {First(A)}]]
  <2>5. ASSUME NEW A \in Small(n), A # {}
        PROVE  A \ {First(A)} \in Small(n - 1)
    BY <1>1, <1>2, <2>1, <2>5
  <2>6. ASSUME NEW B \in Small(n - 1)
        PROVE  B \in Small(n) /\ g[B] = h[B]
    <3>1. B \in Small(n)
      BY <1>1, <2>1
    <3>2. g[B] = IF B = {} THEN 0 ELSE f[First(B)] + g[B \ {First(B)}]
      BY <2>4
    <3> QED BY <3>1, <3>2
  <2>7. \A A \in Small(n) : A # {} => g[A \ {First(A)}] = h[A \ {First(A)}]
    BY <2>5, <2>6
  <2>8. Solves(h, n)
    BY <2>7
  <2> QED BY <2>1, <2>8
<1>4. PICK g : Solves(g, Cardinality(S))
    BY <1>1, <1>3
<1>5. Small(Cardinality(S)) = SUBSET S
    BY <1>1, FS_Subset
<1>6. Adds(g, f, S)
    BY <1>4, <1>5 DEF Adds
<1> QED BY <1>6 DEF Adder

\* What an adder says of a subset does not depend on the set it is for.
LEMMA AddersAgree ==
    ASSUME NEW f, NEW S, IsFiniteSet(S), NEW A \in SUBSET S
    PROVE  Adder(f, S)[A] = SumFunctionOnSet(f, A)
<1> DEFINE g == Adder(f, S)
           h == Adder(f, A)
           Good == {B \in SUBSET A : g[B] = h[B]}
<1>1. IsFiniteSet(A)
    BY FS_Subset
<1>2. Adds(g, f, S) /\ Adds(h, f, A)
    BY <1>1, AdderExists
<1>3. ASSUME NEW B \in SUBSET A, \A C \in SUBSET B : C # B => C \in Good PROVE B \in Good
  <2>1. g[B] = IF B = {} THEN 0 ELSE f[First(B)] + g[B \ {First(B)}]
    BY <1>2 DEF Adds
  <2>2. h[B] = IF B = {} THEN 0 ELSE f[First(B)] + h[B \ {First(B)}]
    BY <1>2 DEF Adds
  <2>3. B # {} => B \ {First(B)} \in SUBSET B /\ B \ {First(B)} # B
    BY DEF First
  <2>4. B # {} => B \ {First(B)} \in Good
    BY <1>3, <2>3
  <2>5. B # {} => g[B \ {First(B)}] = h[B \ {First(B)}]
    BY <2>4
  <2> QED BY <2>1, <2>2, <2>5
<1>4. A \in Good
  <2> HIDE DEF Good
  <2> QED BY <1>1, <1>3, SmallestSet
<1> QED BY <1>4, SumByAdder

\* The two equations of a sum.
LEMMA SumEmpty ==
    ASSUME NEW f
    PROVE  SumFunctionOnSet(f, {}) = 0
<1>1. Adds(Adder(f, {}), f, {})
    BY FS_EmptySet, AdderExists
<1>2. Adder(f, {})[{}] = 0
    BY <1>1 DEF Adds
<1> QED BY <1>2, SumByAdder

LEMMA SumFirst ==
    ASSUME NEW f, NEW S, IsFiniteSet(S), S # {}
    PROVE  /\ First(S) \in S
           /\ SumFunctionOnSet(f, S) = f[First(S)] + SumFunctionOnSet(f, S \ {First(S)})
<1>1. First(S) \in S
    BY DEF First
<1>2. Adder(f, S)[S] = f[First(S)] + Adder(f, S)[S \ {First(S)}]
  <2>1. Adds(Adder(f, S), f, S)
    BY AdderExists
  <2> QED BY <2>1 DEF Adds
<1>3. Adder(f, S)[S \ {First(S)}] = SumFunctionOnSet(f, S \ {First(S)})
    BY AddersAgree
<1> QED BY <1>1, <1>2, <1>3, SumByAdder

LEMMA SumNatural ==
    ASSUME NEW f, NEW S, IsFiniteSet(S), \A x \in S : f[x] \in Nat
    PROVE  \A A \in SUBSET S : SumFunctionOnSet(f, A) \in Nat
<1> DEFINE Good == {A \in SUBSET S : SumFunctionOnSet(f, A) \in Nat}
<1>1. ASSUME NEW A \in SUBSET S, \A B \in SUBSET A : B # A => B \in Good PROVE A \in Good
  <2>1. CASE A = {}
    BY <2>1, SumEmpty
  <2>2. CASE A # {}
    <3>1. IsFiniteSet(A)
      BY FS_Subset
    <3>2. First(A) \in A /\ SumFunctionOnSet(f, A) = f[First(A)] + SumFunctionOnSet(f, A \ {First(A)})
      BY <2>2, <3>1, SumFirst
    <3>3. A \ {First(A)} \in Good
      BY <1>1, <3>2
    <3>4. SumFunctionOnSet(f, A \ {First(A)}) \in Nat
      BY <3>3
    <3>5. f[First(A)] \in Nat
      BY <3>2
    <3> QED BY <3>2, <3>4, <3>5
  <2> QED BY <2>1, <2>2
<1>2. \A A \in SUBSET S : A \in Good
  <2> HIDE DEF Good
  <2> QED BY <1>1, SmallestSet
<1> QED BY <1>2

\* Any element can be taken out first: addition is associative and commutative.
LEMMA SumRemove ==
    ASSUME NEW f, NEW S, IsFiniteSet(S), \A x \in S : f[x] \in Nat, NEW x \in S
    PROVE  SumFunctionOnSet(f, S) = f[x] + SumFunctionOnSet(f, S \ {x})
<1> DEFINE Good == {A \in SUBSET S : \A y \in A :
                      SumFunctionOnSet(f, A) = f[y] + SumFunctionOnSet(f, A \ {y})}
<1>1. ASSUME NEW A \in SUBSET S, \A B \in SUBSET A : B # A => B \in Good PROVE A \in Good
  <2> SUFFICES ASSUME NEW y \in A
               PROVE  SumFunctionOnSet(f, A) = f[y] + SumFunctionOnSet(f, A \ {y})
    OBVIOUS
  <2> DEFINE z == First(A)
  <2>1. IsFiniteSet(A)
    BY FS_Subset
  <2>2. z \in A /\ SumFunctionOnSet(f, A) = f[z] + SumFunctionOnSet(f, A \ {z})
    BY <2>1, SumFirst
  <2> HIDE DEF z
  <2>3. CASE y = z
    BY <2>2, <2>3
  <2>4. CASE y # z
    <3>1. A \ {y} \in Good /\ A \ {z} \in Good
      BY <1>1, <2>2
    <3>2. SumFunctionOnSet(f, A \ {z}) = f[y] + SumFunctionOnSet(f, (A \ {z}) \ {y})
      BY <2>4, <3>1
    <3>3. SumFunctionOnSet(f, A \ {y}) = f[z] + SumFunctionOnSet(f, (A \ {y}) \ {z})
      BY <2>2, <2>4, <3>1
    <3>4. (A \ {z}) \ {y} = (A \ {y}) \ {z} /\ (A \ {y}) \ {z} \in SUBSET S
      OBVIOUS
    <3>5. f[y] \in Nat /\ f[z] \in Nat /\ SumFunctionOnSet(f, (A \ {y}) \ {z}) \in Nat
      BY <2>2, <3>4, SumNatural
    <3> QED BY <2>2, <3>2, <3>3, <3>4, <3>5
  <2> QED BY <2>3, <2>4
<1>2. \A A \in SUBSET S : A \in Good
  <2> HIDE DEF Good
  <2> QED BY <1>1, SmallestSet
<1> QED BY <1>2
\* A sum reads its function on the set only.
LEMMA SumSame ==
    ASSUME NEW f, NEW g, NEW S, IsFiniteSet(S), \A x \in S : f[x] = g[x]
    PROVE  SumFunctionOnSet(f, S) = SumFunctionOnSet(g, S)
<1> DEFINE Good == {A \in SUBSET S : SumFunctionOnSet(f, A) = SumFunctionOnSet(g, A)}
<1>1. ASSUME NEW A \in SUBSET S, \A B \in SUBSET A : B # A => B \in Good PROVE A \in Good
  <2>1. CASE A = {}
    BY <2>1, SumEmpty
  <2>2. CASE A # {}
    <3>1. IsFiniteSet(A)
      BY FS_Subset
    <3>2. /\ First(A) \in A
          /\ SumFunctionOnSet(f, A) = f[First(A)] + SumFunctionOnSet(f, A \ {First(A)})
      BY <2>2, <3>1, SumFirst
    <3>3. SumFunctionOnSet(g, A) = g[First(A)] + SumFunctionOnSet(g, A \ {First(A)})
      BY <2>2, <3>1, SumFirst
    <3>4. A \ {First(A)} \in Good
      BY <1>1, <3>2
    <3> QED BY <3>2, <3>3, <3>4
  <2> QED BY <2>1, <2>2
<1>2. \A A \in SUBSET S : A \in Good
  <2> HIDE DEF Good
  <2> QED BY <1>1, SmallestSet
<1> QED BY <1>2

LEMMA SumZero ==
    ASSUME NEW f, NEW S, IsFiniteSet(S), \A x \in S : f[x] = 0
    PROVE  SumFunctionOnSet(f, S) = 0
<1> DEFINE Good == {A \in SUBSET S : SumFunctionOnSet(f, A) = 0}
<1>1. ASSUME NEW A \in SUBSET S, \A B \in SUBSET A : B # A => B \in Good PROVE A \in Good
  <2>1. CASE A = {}
    BY <2>1, SumEmpty
  <2>2. CASE A # {}
    <3>1. IsFiniteSet(A)
      BY FS_Subset
    <3>2. /\ First(A) \in A
          /\ SumFunctionOnSet(f, A) = f[First(A)] + SumFunctionOnSet(f, A \ {First(A)})
      BY <2>2, <3>1, SumFirst
    <3>3. A \ {First(A)} \in Good
      BY <1>1, <3>2
    <3> QED BY <3>2, <3>3
  <2> QED BY <2>1, <2>2
<1>2. \A A \in SUBSET S : A \in Good
  <2> HIDE DEF Good
  <2> QED BY <1>1, SmallestSet
<1> QED BY <1>2

\* The parts of a set that a label cuts it into, summed up one by one.
PartSums(f, label, G, S) ==
    [g \in G |-> SumFunctionOnSet(f, {x \in S : label[x] = g})]

LEMMA SumOfParts ==
    ASSUME NEW f, NEW label, NEW S, IsFiniteSet(S), \A x \in S : f[x] \in Nat,
           NEW G, IsFiniteSet(G), \A x \in S : label[x] \in G
    PROVE  SumFunctionOnSet(PartSums(f, label, G, S), G) = SumFunctionOnSet(f, S)
<1> DEFINE Part(A, g) == {x \in A : label[x] = g}
           P(A) == PartSums(f, label, G, A)
           Good == {A \in SUBSET S : SumFunctionOnSet(P(A), G) = SumFunctionOnSet(f, A)}
<1>1. ASSUME NEW A \in SUBSET S, \A B \in SUBSET A : B # A => B \in Good PROVE A \in Good
  <2>1. CASE A = {}
    <3>1. ASSUME NEW g \in G PROVE P(A)[g] = 0
      <4>1. {x \in A : label[x] = g} = {}
        BY <2>1
      <4> QED BY <4>1, SumEmpty DEF PartSums
    <3>2. SumFunctionOnSet(P(A), G) = 0
      <4> HIDE DEF P
      <4> QED BY <3>1, SumZero
    <3> QED BY <2>1, <3>2, SumEmpty
  <2>2. CASE A # {}
    <3>1. PICK x \in A : TRUE
      BY <2>2
    <3> DEFINE B == A \ {x}
               k == label[x]
    <3>2. SumFunctionOnSet(P(B), G) = SumFunctionOnSet(f, B)
      BY <1>1, <3>1
    <3>3. k \in G /\ \A g \in G \ {k} : Part(A, g) = Part(B, g)
      OBVIOUS
    <3>4. x \in Part(A, k) /\ Part(A, k) \ {x} = Part(B, k)
      OBVIOUS
    <3>5. IsFiniteSet(Part(A, k)) /\ IsFiniteSet(A) /\ IsFiniteSet(G \ {k})
      BY FS_Subset
    <3>6. \A C \in SUBSET S : \A g \in G : P(C)[g] \in Nat
      <4> SUFFICES ASSUME NEW C \in SUBSET S, NEW g \in G PROVE P(C)[g] \in Nat
        OBVIOUS
      <4>1. {y \in C : label[y] = g} \in SUBSET S
        OBVIOUS
      <4> QED BY <4>1, SumNatural DEF PartSums
    <3>7. P(A)[k] = f[x] + P(B)[k]
      <4>1. \A y \in Part(A, k) : f[y] \in Nat
        OBVIOUS
      <4>2. SumFunctionOnSet(f, Part(A, k)) = f[x] + SumFunctionOnSet(f, Part(A, k) \ {x})
        <5> HIDE DEF Part
        <5> QED BY <3>4, <3>5, <4>1, SumRemove
      <4>3. /\ P(A)[k] = SumFunctionOnSet(f, Part(A, k))
            /\ P(B)[k] = SumFunctionOnSet(f, Part(B, k))
        BY <3>3 DEF PartSums
      <4> QED BY <3>4, <4>2, <4>3
    <3>8. \A g \in G \ {k} : P(A)[g] = P(B)[g]
      BY <3>3 DEF PartSums
    <3> HIDE DEF P, k
    <3>9. SumFunctionOnSet(P(A), G \ {k}) = SumFunctionOnSet(P(B), G \ {k})
      BY <3>5, <3>8, SumSame
    <3>10. /\ SumFunctionOnSet(P(A), G) = P(A)[k] + SumFunctionOnSet(P(A), G \ {k})
           /\ SumFunctionOnSet(P(B), G) = P(B)[k] + SumFunctionOnSet(P(B), G \ {k})
      BY <3>3, <3>6, SumRemove
    <3>11. SumFunctionOnSet(f, A) = f[x] + SumFunctionOnSet(f, B)
      BY <3>5, SumRemove
    <3>12. /\ f[x] \in Nat /\ P(B)[k] \in Nat
           /\ SumFunctionOnSet(P(B), G \ {k}) \in Nat
      BY <3>3, <3>6, SumNatural
    <3>13. SumFunctionOnSet(P(A), G) = SumFunctionOnSet(f, A)
      BY <3>2, <3>7, <3>9, <3>10, <3>11, <3>12
    <3> QED BY <3>13
  <2> QED BY <2>1, <2>2
<1>2. \A A \in SUBSET S : A \in Good
  <2> HIDE DEF Good
  <2> QED BY <1>1, SmallestSet
<1> QED BY <1>2

\* A count is a sum of ones.
LEMMA CountIsSum ==
    ASSUME NEW f, NEW S, IsFiniteSet(S), \A x \in S : f[x] = 1
    PROVE  Cardinality(S) = SumFunctionOnSet(f, S)
<1> DEFINE Good == {A \in SUBSET S : Cardinality(A) = SumFunctionOnSet(f, A)}
<1>1. ASSUME NEW A \in SUBSET S, \A B \in SUBSET A : B # A => B \in Good PROVE A \in Good
  <2>1. CASE A = {}
    BY <2>1, SumEmpty, FS_EmptySet
  <2>2. CASE A # {}
    <3>1. IsFiniteSet(A)
      BY FS_Subset
    <3>2. /\ First(A) \in A
          /\ SumFunctionOnSet(f, A) = f[First(A)] + SumFunctionOnSet(f, A \ {First(A)})
      BY <2>2, <3>1, SumFirst
    <3>3. A \ {First(A)} \in Good
      BY <1>1, <3>2
    <3>4. Cardinality(A \ {First(A)}) = Cardinality(A) - 1 /\ Cardinality(A) \in Nat
      BY <3>1, <3>2, FS_RemoveElement, FS_CardinalityType
    <3> QED BY <3>2, <3>3, <3>4
  <2> QED BY <2>1, <2>2
<1>2. \A A \in SUBSET S : A \in Good
  <2> HIDE DEF Good
  <2> QED BY <1>1, SmallestSet
<1> QED BY <1>2

LEMMA CountOfParts ==
    ASSUME NEW label, NEW S, IsFiniteSet(S), NEW G, IsFiniteSet(G), \A x \in S : label[x] \in G
    PROVE  SumFunctionOnSet([g \in G |-> Cardinality({x \in S : label[x] = g})], G) = Cardinality(S)
<1> DEFINE one == [x \in S |-> 1]
           counts == [g \in G |-> Cardinality({x \in S : label[x] = g})]
<1>1. ASSUME NEW g \in G PROVE counts[g] = PartSums(one, label, G, S)[g]
  <2> DEFINE A == {x \in S : label[x] = g}
  <2>1. IsFiniteSet(A) /\ \A x \in A : one[x] = 1
    BY FS_Subset
  <2>2. Cardinality(A) = SumFunctionOnSet(one, A)
    <3> HIDE DEF A, one
    <3> QED BY <2>1, CountIsSum
  <2> QED BY <2>2 DEF PartSums
<1>2. \A x \in S : one[x] = 1 /\ one[x] \in Nat
    OBVIOUS
<1> HIDE DEF one, counts
<1>3. SumFunctionOnSet(counts, G) = SumFunctionOnSet(PartSums(one, label, G, S), G)
    BY <1>1, SumSame
<1>4. SumFunctionOnSet(PartSums(one, label, G, S), G) = SumFunctionOnSet(one, S)
    BY <1>2, SumOfParts
<1>5. Cardinality(S) = SumFunctionOnSet(one, S)
    BY <1>2, CountIsSum
<1> QED BY <1>3, <1>4, <1>5 DEF counts

-----------------------------------------------------------------------------
(* Analytics.                                                              *)

\* What the grouping of the attempts says of them as a function.
Labels(dimension) == [a \in DOMAIN attempts |-> Label(a, dimension)]

\* The sets that the reports count and sum up are finite, and the sums are of numbers.
LEMMA ReportRows ==
    ASSUME CallsInv
    PROVE  /\ IsFiniteSet(DOMAIN attempts) /\ Cardinality(DOMAIN attempts) = Len(attempts)
           /\ \A W \in SUBSET DOMAIN attempts : IsFiniteSet(W)
           /\ \A a \in WithMetrics(DOMAIN attempts) : metrics[a] \in Nat
           /\ \A d \in Dimension : IsFiniteSet(Groups(d)) /\ \A a \in DOMAIN attempts : Labels(d)[a] \in Groups(d)
<1>1. /\ attempts \in Seq(Attempt) /\ DOMAIN attempts = 1 .. Len(attempts) /\ Len(attempts) \in Nat
      /\ Len(attempts) <= MaxAttempts
      /\ metrics \in [1 .. MaxAttempts -> Cost \cup {NoMetrics}]
    BY LenProperties DEF CallsInv, CallsTypeOK
<1>2. IsFiniteSet(DOMAIN attempts) /\ Cardinality(DOMAIN attempts) = Len(attempts)
  <2>1. /\ IsFiniteSet(1 .. Len(attempts))
        /\ Cardinality(1 .. Len(attempts)) = IF 1 > Len(attempts) THEN 0 ELSE Len(attempts) - 1 + 1
    BY <1>1, FS_Interval
  <2> QED BY <1>1, <2>1
<1>3. ASSUME NEW a \in WithMetrics(DOMAIN attempts) PROVE metrics[a] \in Nat
  <2>1. a \in DOMAIN attempts /\ metrics[a] # NoMetrics
    BY DEF WithMetrics
  <2>2. a \in 1 .. MaxAttempts
    BY <1>1, <2>1, CallsAssumption
  <2> QED BY <1>1, <2>1, <2>2, CallsAssumption
<1>4. ASSUME NEW d \in Dimension
      PROVE  IsFiniteSet(Groups(d)) /\ \A a \in DOMAIN attempts : Labels(d)[a] \in Groups(d)
  <2>1. Groups(d) = {Labels(d)[a] : a \in DOMAIN attempts}
    BY DEF Groups, Labels, LeftJoin
  <2>2. /\ Labels(d) \in Surjection(DOMAIN attempts, Groups(d))
    BY <2>1 DEF Surjection, Labels
  <2> QED BY <1>2, <2>1, <2>2, FS_Surjection
<1> QED BY <1>2, <1>3, <1>4, FS_Subset

\* A column that counts adds up, and so does the column that sums up costs.
LEMMA CountColumn ==
    ASSUME CallsInv, NEW d \in Dimension, NEW W \in SUBSET DOMAIN attempts
    PROVE  SumFunction([g \in Groups(d) |-> Cardinality({a \in W : Labels(d)[a] = g})]) = Cardinality(W)
<1>1. /\ IsFiniteSet(W) /\ IsFiniteSet(Groups(d))
      /\ \A a \in W : Labels(d)[a] \in Groups(d)
    BY ReportRows
<1>2. SumFunctionOnSet([g \in Groups(d) |-> Cardinality({a \in W : Labels(d)[a] = g})], Groups(d))
        = Cardinality(W)
    BY <1>1, CountOfParts
<1>3. DOMAIN [g \in Groups(d) |-> Cardinality({a \in W : Labels(d)[a] = g})] = Groups(d)
    OBVIOUS
<1> QED BY <1>2, <1>3 DEF SumFunction

\* The rows of a group, and the part of a set of rows that is in it.
LEMMA GroupRows ==
    ASSUME NEW d, NEW g
    PROVE  /\ {a \in LeftJoin : Label(a, d) = g} = {a \in DOMAIN attempts : Labels(d)[a] = g}
           /\ \A s : {a \in {b \in LeftJoin : Label(b, d) = g} : attempts[a].status = s}
                      = {a \in {b \in LeftJoin : attempts[b].status = s} : Labels(d)[a] = g}
           /\ WithMetrics({a \in LeftJoin : Label(a, d) = g})
                = {a \in WithMetrics(LeftJoin) : Labels(d)[a] = g}
BY DEF LeftJoin, Labels, WithMetrics

LEMMA ReportColumns ==
    ASSUME NEW W
    PROVE  LET Of(s) == {a \in W : attempts[a].status = s}
               cost == SumFunctionOnSet(metrics, WithMetrics(W))
           IN  /\ DOMAIN Report(W) = {"attempts", "succeeded", "failed", "blocked", "withMetrics", "cost", "fails"}
               /\ Report(W)["attempts"] = Cardinality(W)
               /\ Report(W)["succeeded"] = Cardinality(Of("succeeded"))
               /\ Report(W)["failed"] = Cardinality(Of("failed"))
               /\ Report(W)["blocked"] = Cardinality(Of("blocked"))
               /\ Report(W)["withMetrics"] = Cardinality(WithMetrics(W))
               /\ Report(W)["cost"] = cost
               /\ Report(W)["fails"] <=> ~ Fits(cost)
BY DEF Report, CountStatus

LEMMA CostColumn ==
    ASSUME CallsInv, NEW d \in Dimension
    PROVE  LET costs == [g \in Groups(d) |->
                           SumFunctionOnSet(metrics, {a \in WithMetrics(LeftJoin) : Labels(d)[a] = g})]
               total == SumFunctionOnSet(metrics, WithMetrics(LeftJoin))
           IN  /\ SumFunction(costs) = total
               /\ total \in Nat
               /\ \A g \in Groups(d) : costs[g] \in Nat /\ costs[g] <= total
<1> DEFINE W == WithMetrics(LeftJoin)
           G == Groups(d)
           costs == PartSums(metrics, Labels(d), G, W)
           total == SumFunctionOnSet(metrics, W)
<1>1. W \in SUBSET DOMAIN attempts
    BY DEF WithMetrics, LeftJoin
<1>2. /\ IsFiniteSet(W) /\ IsFiniteSet(G)
      /\ \A a \in W : Labels(d)[a] \in G
      /\ \A a \in W : metrics[a] \in Nat
    BY <1>1, ReportRows DEF LeftJoin
<1>3. \A A \in SUBSET W : SumFunctionOnSet(metrics, A) \in Nat
    BY <1>2, SumNatural
<1>4. costs = [g \in G |-> SumFunctionOnSet(metrics, {a \in W : Labels(d)[a] = g})]
    BY DEF PartSums
<1>5. total \in Nat /\ \A g \in G : costs[g] \in Nat
    BY <1>3, <1>4
<1> HIDE DEF W, G
<1>6. SumFunctionOnSet(costs, G) = total
    BY <1>2, SumOfParts
<1>7. ASSUME NEW g \in G PROVE costs[g] <= total
  <2> HIDE DEF costs
  <2>1. SumFunctionOnSet(costs, G) = costs[g] + SumFunctionOnSet(costs, G \ {g})
    BY <1>2, <1>5, SumRemove
  <2>2. SumFunctionOnSet(costs, G \ {g}) \in Nat
    BY <1>2, <1>5, SumNatural
  <2> QED BY <1>5, <1>6, <2>1, <2>2
<1>8. SumFunction(costs) = total
    BY <1>4, <1>6 DEF SumFunction
<1> QED BY <1>4, <1>5, <1>7, <1>8 DEF W, G

\* Every attempt is in the analytics summary, and the groups by model, harness, agent
\* and status add up to it in every column, for any number of attempts and any costs;
\* while the summary can be given, so can every grouping (GetAnalyticsSummary and
\* GetAnalyticsBy...).
THEOREM AnalyticsAddUpHolds == CallsSpec => []AnalyticsAddUp
<1>1. CallsInv => AnalyticsAddUp
  <2> SUFFICES ASSUME CallsInv PROVE AnalyticsAddUp
    OBVIOUS
  <2> DEFINE all == LeftJoin
             Of(s) == {a \in LeftJoin : attempts[a].status = s}
             cost == SumFunctionOnSet(metrics, WithMetrics(LeftJoin))
  <2>1. /\ Summary["attempts"] = Cardinality(LeftJoin)
        /\ Summary["succeeded"] = Cardinality(Of("succeeded"))
        /\ Summary["failed"] = Cardinality(Of("failed"))
        /\ Summary["blocked"] = Cardinality(Of("blocked"))
        /\ Summary["withMetrics"] = Cardinality(WithMetrics(LeftJoin))
        /\ Summary["cost"] = cost
        /\ Summary.fails <=> ~ Fits(cost)
        /\ DOMAIN Summary \ {"fails"} = {"attempts", "succeeded", "failed", "blocked", "withMetrics", "cost"}
    BY ReportColumns DEF Summary
  <2>2. Summary.attempts = Len(attempts)
    BY <2>1, ReportRows DEF LeftJoin
  <2>3. ASSUME ~ Summary.fails, NEW d \in Dimension
        PROVE  /\ \A g \in Groups(d) : ~ Group(d, g).fails
               /\ \A column \in DOMAIN Summary \ {"fails"} :
                     SumFunction([g \in Groups(d) |-> Group(d, g)[column]]) = Summary[column]
    <3> DEFINE Part(W, g) == {a \in W : Labels(d)[a] = g}
    <3>1. \A g :
            /\ Group(d, g)["attempts"] = Cardinality(Part(LeftJoin, g))
            /\ Group(d, g)["succeeded"] = Cardinality(Part(Of("succeeded"), g))
            /\ Group(d, g)["failed"] = Cardinality(Part(Of("failed"), g))
            /\ Group(d, g)["blocked"] = Cardinality(Part(Of("blocked"), g))
            /\ Group(d, g)["withMetrics"] = Cardinality(Part(WithMetrics(LeftJoin), g))
            /\ Group(d, g)["cost"] = SumFunctionOnSet(metrics, Part(WithMetrics(LeftJoin), g))
            /\ Group(d, g).fails <=> ~ Fits(SumFunctionOnSet(metrics, Part(WithMetrics(LeftJoin), g)))
      <4> SUFFICES ASSUME NEW g
                   PROVE  /\ Group(d, g)["attempts"] = Cardinality(Part(LeftJoin, g))
                          /\ Group(d, g)["succeeded"] = Cardinality(Part(Of("succeeded"), g))
                          /\ Group(d, g)["failed"] = Cardinality(Part(Of("failed"), g))
                          /\ Group(d, g)["blocked"] = Cardinality(Part(Of("blocked"), g))
                          /\ Group(d, g)["withMetrics"] = Cardinality(Part(WithMetrics(LeftJoin), g))
                          /\ Group(d, g)["cost"] = SumFunctionOnSet(metrics, Part(WithMetrics(LeftJoin), g))
                          /\ Group(d, g).fails <=> ~ Fits(SumFunctionOnSet(metrics, Part(WithMetrics(LeftJoin), g)))
        OBVIOUS
      <4> DEFINE mine == {a \in LeftJoin : Label(a, d) = g}
      <4>1. /\ mine = Part(LeftJoin, g)
            /\ \A s : {a \in mine : attempts[a].status = s} = Part(Of(s), g)
            /\ WithMetrics(mine) = Part(WithMetrics(LeftJoin), g)
        BY GroupRows DEF LeftJoin
      <4>2. Group(d, g) = Report(mine)
        BY DEF Group
      <4> HIDE DEF mine, Part, Of
      <4> QED BY <4>1, <4>2, ReportColumns
    <3>2. /\ LeftJoin \in SUBSET DOMAIN attempts
          /\ \A s : Of(s) \in SUBSET DOMAIN attempts
          /\ WithMetrics(LeftJoin) \in SUBSET DOMAIN attempts
      BY DEF LeftJoin, WithMetrics
    <3> HIDE DEF Of
    <3>3. ASSUME NEW c, NEW W \in SUBSET DOMAIN attempts,
                 \A g : Group(d, g)[c] = Cardinality(Part(W, g)), Summary[c] = Cardinality(W)
          PROVE  SumFunction([g \in Groups(d) |-> Group(d, g)[c]]) = Summary[c]
      <4>1. [g \in Groups(d) |-> Group(d, g)[c]] = [g \in Groups(d) |-> Cardinality(Part(W, g))]
        BY <3>3
      <4>2. SumFunction([g \in Groups(d) |-> Cardinality(Part(W, g))]) = Cardinality(W)
        BY CountColumn
      <4> QED BY <3>3, <4>1, <4>2
    <3>4. /\ SumFunction([g \in Groups(d) |-> Group(d, g)["cost"]]) = Summary["cost"]
          /\ cost \in Nat
          /\ \A g \in Groups(d) :
                /\ SumFunctionOnSet(metrics, Part(WithMetrics(LeftJoin), g)) \in Nat
                /\ SumFunctionOnSet(metrics, Part(WithMetrics(LeftJoin), g)) <= cost
      BY <2>1, <3>1, CostColumn
    <3>5. ASSUME NEW g \in Groups(d) PROVE ~ Group(d, g).fails
      <4> DEFINE part == SumFunctionOnSet(metrics, Part(WithMetrics(LeftJoin), g))
      <4>1. part \in Nat /\ part <= cost /\ cost \in Nat
        BY <3>4
      <4>2. cost < CostLimit /\ CostLimit \in Nat
        BY <2>1, <2>3, CallsAssumption DEF Fits
      <4> HIDE DEF cost, part
      <4>3. part < CostLimit
        BY <4>1, <4>2
      <4> QED BY <3>1, <4>3 DEF Fits, part
    <3> HIDE DEF cost, Part
    <3>6. /\ SumFunction([g \in Groups(d) |-> Group(d, g)["attempts"]]) = Summary["attempts"]
          /\ SumFunction([g \in Groups(d) |-> Group(d, g)["succeeded"]]) = Summary["succeeded"]
          /\ SumFunction([g \in Groups(d) |-> Group(d, g)["failed"]]) = Summary["failed"]
          /\ SumFunction([g \in Groups(d) |-> Group(d, g)["blocked"]]) = Summary["blocked"]
          /\ SumFunction([g \in Groups(d) |-> Group(d, g)["withMetrics"]]) = Summary["withMetrics"]
      BY <2>1, <3>1, <3>2, <3>3
    <3>7. ASSUME NEW column \in DOMAIN Summary \ {"fails"}
          PROVE  SumFunction([g \in Groups(d) |-> Group(d, g)[column]]) = Summary[column]
      BY <2>1, <3>4, <3>6
    <3> QED BY <3>5, <3>7
  <2> QED BY <2>2, <2>3 DEF AnalyticsAddUp
<1> QED BY <1>1, CallsInvHolds, PTL

-----------------------------------------------------------------------------
(* The parts together.                                                     *)

PartsInv == MigrationsInv /\ PlanInv /\ SessionInv /\ CallsInv

LEMMA PartsNextInv == PartsInv /\ [PartsNext]_partsVars => PartsInv'
<1> SUFFICES ASSUME PartsInv, [PartsNext]_partsVars PROVE PartsInv'
    OBVIOUS
<1>1. MigrationsInv /\ PlanInv /\ SessionInv /\ CallsInv
    BY DEF PartsInv
<1>2. /\ [MigrationsNext]_migrationVars /\ [PlanNext]_planVars
      /\ [SessionNext]_sessionVars /\ [CallsNext]_callVars
    BY DEF PartsNext, partsVars, Migrating, Planning, Serving, Calling
<1>3. MigrationsInv'
    BY <1>1, <1>2, MigrationsNextInv
<1>4. PlanInv'
    BY <1>1, <1>2, PlanNextInv
<1>5. SessionInv'
    BY <1>1, <1>2, SessionNextInv
<1>6. CallsInv'
    BY <1>1, <1>2, CallsNextInv
<1> QED BY <1>3, <1>4, <1>5, <1>6 DEF PartsInv

\* Side by side over one database, whichever of them takes the next step, migrations,
\* plans, sessions and calls keep their types, and the lock on the table of migrations
\* its one holder (ApplyMigrationsWithOptions).
THEOREM PartsTypeCorrect == PartsSpec => []PartsTypeOK
<1>1. PartsInit => PartsInv
    BY MigrationsInitInv, PlanInitInv, SessionInitInv, CallsInitInv DEF PartsInit, PartsInv
<1>2. PartsInv => PartsTypeOK
    BY DEF PartsInv, PartsTypeOK, MigrationsInv, PlanInv, SessionInv, CallsInv
<1> QED BY <1>1, <1>2, PartsNextInv, PTL DEF PartsSpec
=============================================================================
