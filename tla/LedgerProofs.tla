---------------------------- MODULE LedgerProofs ----------------------------
(* The safety of Ledger, for every value of its constants.                 *)
EXTENDS Ledger, FiniteSetTheorems, WellFoundedInduction, TLAPS

-----------------------------------------------------------------------------
(* The shapes of a step. The statements that change a ticket or end an     *)
(* attempt differ in their guards and targets only; the invariants below   *)
(* need to know no more of them than these lemmas say.                     *)

\* A transition of a ticket or its creation: never from or to in_progress, and
\* never from archived.
TicketMove(t, s) ==
    /\ status[t] \notin {"in_progress", "archived"}
    /\ s \in {"backlog", "todo", "needs_review", "done", "archived"}
    /\ SetStatus(t, s)
    /\ UNCHANGED <<attemptVars, now, claimVars, workerVars>>

\* The end of a running attempt, by its agent or by the worker.
AttemptEnd(a) ==
    \E outcome \in Terminal, s \in {"todo", "needs_review", "done", "failed", "blocked"} :
        /\ EndAttempt(a, outcome, s)
        /\ UNCHANGED claimVars

\* Every operation on tickets is such a transition.
LEMMA TicketStepShape ==
    TicketStep => \E t \in Ticket : \E s \in TicketStatus : TicketMove(t, s)
  <1> SUFFICES ASSUME NEW t \in Ticket,
                      \/ \E s \in TicketStatus : CreateTicket(t, s)
                      \/ MarkReady(t) \/ Reopen(t) \/ Unblock(t)
                      \/ RequestReview(t) \/ Archive(t) \/ Review(t)
               PROVE  \E s \in TicketStatus : TicketMove(t, s)
    BY DEF TicketStep
  <1> USE DEF TicketMove, TicketStatus
  <1>1. CASE \E s \in TicketStatus : CreateTicket(t, s)
    <2> PICK s \in TicketStatus : CreateTicket(t, s)
      BY <1>1
    <2> QED BY DEF CreateTicket
  <1>2. CASE MarkReady(t) \/ Reopen(t) \/ Unblock(t)
    <2>1. TicketMove(t, "todo")
      BY <1>2 DEF MarkReady, Reopen, Unblock, TransitionTicket
    <2> QED BY <2>1
  <1>3. CASE RequestReview(t)
    <2>1. TicketMove(t, "needs_review")
      BY <1>3 DEF RequestReview, TransitionTicket
    <2> QED BY <2>1
  <1>4. CASE Archive(t)
    <2>1. TicketMove(t, "archived")
      BY <1>4 DEF Archive, TransitionTicket
    <2> QED BY <2>1
  <1>5. CASE Review(t)
    <2> PICK s \in {"done", "todo"} : TransitionTicket(t, {"needs_review"}, s)
      BY <1>5 DEF Review
    <2>1. TicketMove(t, s)
      BY DEF TransitionTicket
    <2> QED BY <2>1
  <1> QED BY <1>1, <1>2, <1>3, <1>4, <1>5

\* The statuses a failure or an expiry can send a ticket to.
LEMMA AfterFailureType ==
    ASSUME NEW t
    PROVE  /\ RetryOrFail(t) \in {"failed", "todo"}
           /\ AfterFailure(t) \in {"failed", "needs_review", "todo"}
  <1>1. RetryOrFail(t) \in {"failed", "todo"}
    BY DEF RetryOrFail
  <1> QED BY <1>1 DEF AfterFailure

\* Completing, failing, blocking and cancelling are ends of attempts.
LEMMA AgentEndShape ==
    ASSUME NEW a \in Attempt,
           CompleteAttempt(a) \/ FailAttempt(a) \/ BlockAttempt(a) \/ CancelAttempt(a)
    PROVE  AttemptEnd(a)
  <1> USE DEF AttemptEnd, Terminal
  <1>1. CASE CompleteAttempt(a)
    BY <1>1 DEF CompleteAttempt
  <1>2. CASE FailAttempt(a)
    BY <1>2, AfterFailureType DEF FailAttempt
  <1>3. CASE BlockAttempt(a)
    BY <1>3 DEF BlockAttempt
  <1>4. CASE CancelAttempt(a)
    BY <1>4 DEF CancelAttempt
  <1> QED BY <1>1, <1>2, <1>3, <1>4

\* Expiring is an end of an attempt.
LEMMA ExpireShape ==
    ASSUME NEW a \in Attempt, NEW w \in Worker, ExpireAttempt(w, a)
    PROVE  AttemptEnd(a)
  BY AfterFailureType DEF ExpireAttempt, Handled, AttemptEnd, Terminal

\* A step that leaves tickets, claims and the attempts' status alone: a
\* heartbeat, the clock, and what the worker does beside expiring.
Quiet == UNCHANGED <<ticketVars, attStatus, attTicket, claimVars>>

\* Every step has one of six shapes.
LEMMA StepShape ==
    ASSUME [Next]_vars
    PROVE  \/ \E t \in Ticket : \E s \in TicketStatus : TicketMove(t, s)
           \/ \E c \in Claimer : ClaimNext(c)
           \/ \E c \in Claimer, t \in Ticket, a \in Attempt, len \in Lease : ClaimNextTicket(c, t, a, len)
           \/ \E c \in Claimer : ClaimMiss(c)
           \/ \E a \in Attempt : AttemptEnd(a)
           \/ Quiet
  <1>1. CASE TicketStep
    BY <1>1, TicketStepShape
  <1>2. CASE ClaimStep
    BY <1>2 DEF ClaimStep
  <1>3. CASE AttemptStep
    <2> PICK a \in Attempt : \/ \E len \in Lease : HeartbeatAttempt(a, len)
                             \/ CompleteAttempt(a) \/ FailAttempt(a)
                             \/ BlockAttempt(a) \/ CancelAttempt(a)
      BY <1>3 DEF AttemptStep
    <2>1. CASE \E len \in Lease : HeartbeatAttempt(a, len)
      BY <2>1 DEF HeartbeatAttempt, Quiet
    <2>2. CASE CompleteAttempt(a) \/ FailAttempt(a) \/ BlockAttempt(a) \/ CancelAttempt(a)
      BY <2>2, AgentEndShape
    <2> QED BY <2>1, <2>2
  <1>4. CASE WorkerStep
    <2> PICK w \in Worker : RunOnce(w) \/ StopPass(w)
      BY <1>4 DEF WorkerStep
    <2>1. CASE StartPass(w) \/ StopPass(w)
      BY <2>1 DEF StartPass, StopPass, Quiet, attemptVars
    <2>2. ASSUME NEW a \in Attempt, ExpireAttempt(w, a) PROVE AttemptEnd(a)
      BY <2>2, ExpireShape
    <2>3. ASSUME NEW a \in Attempt, SkipExpiryRace(w, a) PROVE Quiet
      BY <2>3 DEF SkipExpiryRace, Handled, Quiet, attemptVars
    <2> QED BY <2>1, <2>2, <2>3 DEF RunOnce
  <1>5. CASE Tick \/ UNCHANGED vars
    BY <1>5 DEF Tick, vars, Quiet, attemptVars
  <1> QED BY <1>1, <1>2, <1>3, <1>4, <1>5 DEF Next

-----------------------------------------------------------------------------
(* Type correctness.                                                       *)

\* The types of what the tickets, attempts and claims hold.
LedgerTypes ==
    /\ status \in [Ticket -> TicketStatus]
    /\ finished \subseteq Ticket
    /\ attStatus \in [Attempt -> AttemptStatus]
    /\ attTicket \in [Attempt -> Ticket \cup {NoTicket}]
    /\ \A a \in Attempt : attStatus[a] # "absent" => attTicket[a] \in Ticket
    /\ snapshot \in [Claimer -> SUBSET Ticket]

\* The types of the clock, the leases and the worker's pass.
ClockTypes ==
    /\ lease \in [Attempt -> Nat]
    /\ now \in 0 .. MaxTime
    /\ cutoff \in [Worker -> 0 .. MaxTime]
    /\ batch \in [Worker -> SUBSET Attempt]
    /\ stops \in 0 .. MaxStops

\* Every statement keeps the tickets, attempts and claims within their types.
LEMMA LedgerTypesStep == LedgerTypes /\ [Next]_vars => LedgerTypes'
  <1> SUFFICES ASSUME LedgerTypes, [Next]_vars PROVE LedgerTypes'
    OBVIOUS
  <1> USE DEF LedgerTypes, ticketVars, attemptVars, claimVars
  <1>1. ASSUME NEW t \in Ticket, NEW s \in TicketStatus, TicketMove(t, s) PROVE LedgerTypes'
    BY <1>1 DEF TicketMove, SetStatus
  <1>2. ASSUME NEW c \in Claimer, ClaimNext(c) PROVE LedgerTypes'
    BY <1>2, LedgerAssumption DEF ClaimNext
  <1>3. ASSUME NEW c \in Claimer, NEW t \in Ticket, NEW a \in Attempt, NEW len \in Lease,
               ClaimNextTicket(c, t, a, len)
        PROVE  LedgerTypes'
    BY <1>3 DEF ClaimNextTicket, SetStatus, TicketStatus, AttemptStatus
  <1>4. ASSUME NEW c \in Claimer, ClaimMiss(c) PROVE LedgerTypes'
    BY <1>4 DEF ClaimMiss
  <1>5. ASSUME NEW a \in Attempt, AttemptEnd(a) PROVE LedgerTypes'
    BY <1>5 DEF AttemptEnd, EndAttempt, SetStatus, TicketStatus, AttemptStatus
  <1>6. CASE Quiet
    BY <1>6 DEF Quiet
  <1> QED BY <1>1, <1>2, <1>3, <1>4, <1>5, <1>6, StepShape

\* Every statement keeps the leases, the clock and the pass within their types.
LEMMA ClockTypesStep == ClockTypes /\ [Next]_vars => ClockTypes'
  <1> SUFFICES ASSUME ClockTypes, [Next]_vars PROVE ClockTypes'
    OBVIOUS
  <1> USE LedgerAssumption DEF ClockTypes, attemptVars, workerVars
  <1>1. CASE TicketStep
    BY <1>1, TicketStepShape DEF TicketMove
  <1>2. CASE ClaimStep
    BY <1>2 DEF ClaimStep, ClaimNext, ClaimNextTicket, ClaimMiss
  <1>3. CASE AttemptStep
    BY <1>3 DEF AttemptStep, HeartbeatAttempt, CompleteAttempt, FailAttempt, BlockAttempt,
                CancelAttempt, EndAttempt
  <1>4. CASE WorkerStep
    <2> PICK w \in Worker : RunOnce(w) \/ StopPass(w)
      BY <1>4 DEF WorkerStep
    <2>1. CASE StartPass(w)
      BY <2>1 DEF StartPass, ListExpiredRunningAttempts
    <2>2. ASSUME NEW a \in Attempt, ExpireAttempt(w, a) \/ SkipExpiryRace(w, a) PROVE ClockTypes'
      BY <2>2 DEF ExpireAttempt, SkipExpiryRace, EndAttempt, Handled
    <2>3. CASE StopPass(w)
      BY <2>3 DEF StopPass
    <2> QED BY <2>1, <2>2, <2>3 DEF RunOnce
  <1>5. CASE Tick
    BY <1>5 DEF Tick
  <1>6. CASE UNCHANGED vars
    BY <1>6 DEF vars
  <1> QED BY <1>1, <1>2, <1>3, <1>4, <1>5, <1>6 DEF Next

\* Type correctness of the ledger.
THEOREM TypeCorrect == Spec => []TypeOK
  <1>1. Init => LedgerTypes /\ ClockTypes
    BY LedgerAssumption DEF Init, LedgerTypes, ClockTypes, TicketStatus, AttemptStatus
  <1>2. LedgerTypes /\ ClockTypes <=> TypeOK
    BY DEF TypeOK, LedgerTypes, ClockTypes
  <1> QED BY <1>1, <1>2, LedgerTypesStep, ClockTypesStep, PTL DEF Spec

-----------------------------------------------------------------------------
(* The two tables agree.                                                   *)

\* The agreement is inductive once the types are known: a claim is the only
\* step to in_progress and brings the running attempt, the end of the one
\* running attempt is the only step from it.
LEMMA AgreementStep == LedgerTypes /\ RunningIffInProgress /\ [Next]_vars => RunningIffInProgress'
  <1> SUFFICES ASSUME LedgerTypes, RunningIffInProgress, [Next]_vars PROVE RunningIffInProgress'
    OBVIOUS
  <1> USE DEF LedgerTypes, RunningIffInProgress, Running, ticketVars, attemptVars, claimVars
  <1>1. ASSUME NEW t \in Ticket, NEW s \in TicketStatus, TicketMove(t, s)
        PROVE  RunningIffInProgress'
    BY <1>1 DEF TicketMove, SetStatus
  <1>2. ASSUME NEW c \in Claimer, ClaimNext(c) \/ ClaimMiss(c) PROVE RunningIffInProgress'
    BY <1>2 DEF ClaimNext, ClaimMiss
  <1>3. ASSUME NEW c \in Claimer, NEW t \in Ticket, NEW a \in Attempt, NEW len \in Lease,
               ClaimNextTicket(c, t, a, len)
        PROVE  RunningIffInProgress'
    <2>1. /\ attStatus' = [attStatus EXCEPT ![a] = "running"]
          /\ attTicket' = [attTicket EXCEPT ![a] = t]
          /\ status' = [status EXCEPT ![t] = "in_progress"]
          /\ attStatus[a] = "absent"
          /\ ~ \E b \in Attempt : Running(b, t)
      BY <1>3 DEF ClaimNextTicket, SetStatus
    <2> QED BY <2>1
  <1>4. ASSUME NEW a \in Attempt, AttemptEnd(a) PROVE RunningIffInProgress'
    <2> PICK outcome \in Terminal, s \in {"todo", "needs_review", "done", "failed", "blocked"} :
                EndAttempt(a, outcome, s)
      BY <1>4 DEF AttemptEnd
    <2>1. /\ attStatus[a] = "running"
          /\ attStatus' = [attStatus EXCEPT ![a] = outcome]
          /\ attTicket' = attTicket
          /\ status' = [status EXCEPT ![attTicket[a]] = s]
          /\ outcome # "running"
          /\ s # "in_progress"
      BY DEF EndAttempt, SetStatus, Terminal
    <2>2. attTicket[a] \in Ticket
      BY <2>1
    <2> QED BY <2>1, <2>2
  <1>5. CASE Quiet
    BY <1>5 DEF Quiet
  <1> QED BY <1>1, <1>2, <1>3, <1>4, <1>5, StepShape

\* A ticket is in_progress exactly while one running attempt works on it.
THEOREM RunningIffInProgressHolds == Spec => []RunningIffInProgress
  <1>1. Init => LedgerTypes /\ RunningIffInProgress
    BY DEF Init, LedgerTypes, RunningIffInProgress, Running, TicketStatus, AttemptStatus
  <1> QED BY <1>1, LedgerTypesStep, AgreementStep, PTL DEF Spec

-----------------------------------------------------------------------------
(* Dependencies.                                                           *)

\* What a claim in flight relies on: its candidates' dependencies were done
\* when its snapshot was taken, and a ticket that was done stays in "finished".
DependencyInv ==
    /\ \A t \in Ticket : status[t] = "done" => t \in finished
    /\ \A c \in Claimer : \A t \in snapshot[c] : DependsOn[t] \subseteq finished
    /\ StartedAfterDependencies

\* The claim's snapshot carries the dependencies to the ticket it starts.
LEMMA DependencyStep == LedgerTypes /\ DependencyInv /\ [Next]_vars => DependencyInv'
  <1> SUFFICES ASSUME LedgerTypes, DependencyInv, [Next]_vars PROVE DependencyInv'
    OBVIOUS
  <1> USE LedgerAssumption DEF LedgerTypes, DependencyInv, StartedAfterDependencies,
        ticketVars, attemptVars, claimVars
  <1>1. ASSUME NEW t \in Ticket, NEW s \in TicketStatus, TicketMove(t, s) PROVE DependencyInv'
    BY <1>1 DEF TicketMove, SetStatus
  <1>2. ASSUME NEW c \in Claimer, ClaimNext(c) PROVE DependencyInv'
    BY <1>2 DEF ClaimNext, Claimable
  <1>3. ASSUME NEW c \in Claimer, NEW t \in Ticket, NEW a \in Attempt, NEW len \in Lease,
               ClaimNextTicket(c, t, a, len)
        PROVE  DependencyInv'
    BY <1>3 DEF ClaimNextTicket, SetStatus
  <1>4. ASSUME NEW c \in Claimer, ClaimMiss(c) PROVE DependencyInv'
    BY <1>4 DEF ClaimMiss
  <1>5. ASSUME NEW a \in Attempt, AttemptEnd(a) PROVE DependencyInv'
    BY <1>5 DEF AttemptEnd, EndAttempt, SetStatus
  <1>6. CASE Quiet
    BY <1>6 DEF Quiet
  <1> QED BY <1>1, <1>2, <1>3, <1>4, <1>5, <1>6, StepShape

\* No ticket is worked on before each of its dependencies was done once.
THEOREM StartedAfterDependenciesHolds == Spec => []StartedAfterDependencies
  <1>1. Init => LedgerTypes /\ DependencyInv
    BY DEF Init, LedgerTypes, DependencyInv, StartedAfterDependencies, TicketStatus, AttemptStatus
  <1>2. DependencyInv => StartedAfterDependencies
    BY DEF DependencyInv
  <1> QED BY <1>1, <1>2, LedgerTypesStep, DependencyStep, PTL DEF Spec

-----------------------------------------------------------------------------
(* The retry budget and its bounded overrun.                               *)

\* The claims in flight that saw the ticket as a candidate.
InFlight(t) == {c \in Claimer : t \in snapshot[c]}

\* The part of the budget that is used: failures, and the attempt running now.
Spent(t) == Cardinality(Failures(t)) + (IF status[t] = "in_progress" THEN 1 ELSE 0)

\* Either the budget is not used up, or the claims that could still overrun it
\* leave room for the one that used it up. Nothing weaker is inductive: a claim
\* trades its own place in InFlight for the attempt it starts.
OverrunInv ==
    \A t \in Ticket :
        \/ Spent(t) < RetryPolicy[t].max_attempts
        \/ Spent(t) + Cardinality(InFlight(t)) < RetryPolicy[t].max_attempts + Cardinality(Claimer)

\* The sets that are counted are finite.
LEMMA CountedSets ==
    ASSUME NEW t \in Ticket
    PROVE  /\ IsFiniteSet(Failures(t)) /\ Cardinality(Failures(t)) \in Nat
           /\ IsFiniteSet(InFlight(t)) /\ Cardinality(InFlight(t)) \in Nat
           /\ Cardinality(Claimer) \in Nat \ {0}
           /\ RetryPolicy[t].max_attempts \in Nat
           /\ Spent(t) \in Nat
  <1>1. IsFiniteSet(Failures(t)) /\ Cardinality(Failures(t)) \in Nat
    BY FS_Subset, FS_CardinalityType, LedgerAssumption DEF Failures
  <1>2. IsFiniteSet(InFlight(t)) /\ Cardinality(InFlight(t)) \in Nat
    BY FS_Subset, FS_CardinalityType, LedgerAssumption DEF InFlight
  <1>3. Cardinality(Claimer) \in Nat \ {0}
    BY FS_EmptySet, FS_CardinalityType, LedgerAssumption
  <1>4. RetryPolicy[t].max_attempts \in Nat
    BY LedgerAssumption
  <1> QED BY <1>1, <1>2, <1>3, <1>4 DEF Spent

\* A step after which no more is spent and no more claims are in flight.
LEMMA NoMoreSpent ==
    ASSUME NEW t \in Ticket, OverrunInv,
           IsFiniteSet(InFlight(t)'), Cardinality(InFlight(t)') \in Nat,
           InFlight(t)' \subseteq InFlight(t), Spent(t)' \in Nat, Spent(t)' <= Spent(t)
    PROVE  \/ Spent(t)' < RetryPolicy[t].max_attempts
           \/ Spent(t)' + Cardinality(InFlight(t)') < RetryPolicy[t].max_attempts + Cardinality(Claimer)
  <1>1. Cardinality(InFlight(t)') <= Cardinality(InFlight(t))
    BY CountedSets, FS_Subset
  <1>2. \/ Spent(t) < RetryPolicy[t].max_attempts
        \/ Spent(t) + Cardinality(InFlight(t)) < RetryPolicy[t].max_attempts + Cardinality(Claimer)
    BY DEF OverrunInv
  <1> QED BY <1>1, <1>2, CountedSets

\* The bound survives every step.
LEMMA OverrunStep ==
    LedgerTypes /\ RunningIffInProgress /\ OverrunInv /\ [Next]_vars => OverrunInv'
  <1> SUFFICES ASSUME LedgerTypes, RunningIffInProgress, OverrunInv, [Next]_vars, NEW u \in Ticket
               PROVE  \/ Spent(u)' < RetryPolicy[u].max_attempts
                      \/ Spent(u)' + Cardinality(InFlight(u)')
                            < RetryPolicy[u].max_attempts + Cardinality(Claimer)
    BY DEF OverrunInv
  <1>a. /\ IsFiniteSet(Failures(u)') /\ Cardinality(Failures(u)') \in Nat
        /\ IsFiniteSet(InFlight(u)') /\ Cardinality(InFlight(u)') \in Nat
    <2>1. Failures(u)' \subseteq Attempt /\ InFlight(u)' \subseteq Claimer
      BY DEF Failures, InFlight
    <2> QED BY <2>1, FS_Subset, FS_CardinalityType, LedgerAssumption
  <1>b. Spent(u)' \in Nat
    BY <1>a DEF Spent
  <1> USE DEF LedgerTypes, ticketVars, attemptVars, claimVars
  <1>1. ASSUME NEW t \in Ticket, NEW s \in TicketStatus, TicketMove(t, s)
        PROVE  Spent(u)' <= Spent(u) /\ InFlight(u)' \subseteq InFlight(u)
    <2>1. Failures(u)' = Failures(u) /\ InFlight(u)' = InFlight(u)
      BY <1>1 DEF TicketMove, Failures, InFlight
    <2>2. status'[u] = "in_progress" <=> status[u] = "in_progress"
      BY <1>1 DEF TicketMove, SetStatus
    <2> QED BY <2>1, <2>2, CountedSets DEF Spent
  <1>2. ASSUME NEW c \in Claimer, ClaimNext(c)
        PROVE  \/ Spent(u)' <= Spent(u) /\ InFlight(u)' \subseteq InFlight(u)
               \/ Spent(u)' < RetryPolicy[u].max_attempts
    <2>1. Failures(u)' = Failures(u) /\ status' = status
      BY <1>2 DEF ClaimNext, Failures
    <2>2. Spent(u)' = Spent(u)
      BY <2>1 DEF Spent
    <2>3. CASE u \in Suits[c] /\ Claimable(u)
      BY <2>2, <2>3, CountedSets DEF Claimable, Exhausted, Spent
    <2>4. CASE ~(u \in Suits[c] /\ Claimable(u))
      <3>1. InFlight(u)' \subseteq InFlight(u)
        BY <1>2, <2>4 DEF ClaimNext, InFlight
      <3> QED BY <2>2, <3>1, CountedSets
    <2> QED BY <2>3, <2>4
  <1>3. ASSUME NEW c \in Claimer, NEW t \in Ticket, NEW a \in Attempt, NEW len \in Lease,
               ClaimNextTicket(c, t, a, len)
        PROVE  \/ Spent(u)' <= Spent(u) /\ InFlight(u)' \subseteq InFlight(u)
               \/ Spent(u)' < RetryPolicy[u].max_attempts
               \/ Spent(u)' + Cardinality(InFlight(u)')
                     < RetryPolicy[u].max_attempts + Cardinality(Claimer)
    <2>1. Failures(u)' = Failures(u)
      BY <1>3 DEF ClaimNextTicket, Failures
    <2>2. InFlight(u)' = InFlight(u) \ {c}
      BY <1>3 DEF ClaimNextTicket, InFlight
    <2>3. CASE u # t
      <3>1. status'[u] = status[u]
        BY <1>3, <2>3 DEF ClaimNextTicket, SetStatus
      <3> QED BY <2>1, <2>2, <3>1, CountedSets DEF Spent
    <2>4. CASE u = t
      <3>1. Spent(u)' = Spent(u) + 1
        BY <1>3, <2>1, <2>4, CountedSets DEF ClaimNextTicket, SetStatus, Spent
      <3>2. c \in InFlight(u)
        BY <1>3, <2>4 DEF ClaimNextTicket, InFlight
      <3>3. Cardinality(InFlight(u)') = Cardinality(InFlight(u)) - 1
        BY <2>2, <3>2, CountedSets, FS_RemoveElement
      <3>4. Cardinality(InFlight(u)) <= Cardinality(Claimer)
        BY FS_Subset, LedgerAssumption DEF InFlight
      <3>5. \/ Spent(u) < RetryPolicy[u].max_attempts
            \/ Spent(u) + Cardinality(InFlight(u)) < RetryPolicy[u].max_attempts + Cardinality(Claimer)
        BY DEF OverrunInv
      <3> QED BY <3>1, <3>3, <3>4, <3>5, CountedSets
    <2> QED BY <2>3, <2>4
  <1>4. ASSUME NEW c \in Claimer, ClaimMiss(c)
        PROVE  Spent(u)' <= Spent(u) /\ InFlight(u)' \subseteq InFlight(u)
    <2>1. Failures(u)' = Failures(u) /\ status' = status /\ InFlight(u)' \subseteq InFlight(u)
      BY <1>4 DEF ClaimMiss, Failures, InFlight
    <2> QED BY <2>1, CountedSets DEF Spent
  <1>5. ASSUME NEW a \in Attempt, AttemptEnd(a)
        PROVE  Spent(u)' <= Spent(u) /\ InFlight(u)' \subseteq InFlight(u)
    <2> PICK outcome \in Terminal, s \in {"todo", "needs_review", "done", "failed", "blocked"} :
                EndAttempt(a, outcome, s) /\ UNCHANGED claimVars
      BY <1>5 DEF AttemptEnd
    <2>1. /\ attStatus[a] = "running"
          /\ attStatus' = [attStatus EXCEPT ![a] = outcome]
          /\ attTicket' = attTicket
          /\ status' = [status EXCEPT ![attTicket[a]] = s]
          /\ s # "in_progress"
      BY DEF EndAttempt, SetStatus
    <2>2. InFlight(u)' = InFlight(u)
      BY DEF InFlight
    <2>3. CASE attTicket[a] = u
      <3>1. status[u] = "in_progress" /\ status'[u] # "in_progress"
        BY <2>1, <2>3 DEF RunningIffInProgress, Running
      <3>2. a \notin Failures(u) /\ Failures(u)' \subseteq Failures(u) \cup {a}
        BY <2>1 DEF Failures
      <3>3. Cardinality(Failures(u)') <= Cardinality(Failures(u)) + 1
        <4>1. /\ IsFiniteSet(Failures(u) \cup {a})
              /\ Cardinality(Failures(u) \cup {a}) = Cardinality(Failures(u)) + 1
          BY <3>2, CountedSets, FS_AddElement
        <4> QED BY <3>2, <4>1, FS_Subset
      <3> QED BY <2>2, <3>1, <3>3, <1>a, CountedSets DEF Spent
    <2>4. CASE attTicket[a] # u
      <3>1. Failures(u)' = Failures(u) /\ status'[u] = status[u]
        BY <2>1, <2>4 DEF Failures
      <3> QED BY <2>2, <3>1, CountedSets DEF Spent
    <2> QED BY <2>3, <2>4
  <1>6. ASSUME Quiet PROVE Spent(u)' <= Spent(u) /\ InFlight(u)' \subseteq InFlight(u)
    <2>1. Failures(u)' = Failures(u) /\ InFlight(u)' = InFlight(u) /\ status' = status
      BY <1>6 DEF Quiet, Failures, InFlight
    <2> QED BY <2>1, CountedSets DEF Spent
  <1>c. Spent(u)' <= Spent(u) /\ InFlight(u)' \subseteq InFlight(u)
        => \/ Spent(u)' < RetryPolicy[u].max_attempts
           \/ Spent(u)' + Cardinality(InFlight(u)') < RetryPolicy[u].max_attempts + Cardinality(Claimer)
    BY <1>a, <1>b, NoMoreSpent
  <1> QED BY <1>1, <1>2, <1>3, <1>4, <1>5, <1>6, <1>c, StepShape

\* Concurrent claims overrun a ticket's max_attempts by less than their number.
THEOREM RetryOverrunBoundedHolds == Spec => []RetryOverrunBounded
  <1>1. Init => LedgerTypes /\ RunningIffInProgress /\ OverrunInv
    <2> SUFFICES ASSUME Init PROVE LedgerTypes /\ RunningIffInProgress /\ OverrunInv
      OBVIOUS
    <2>1. LedgerTypes /\ RunningIffInProgress
      BY DEF Init, LedgerTypes, RunningIffInProgress, Running, TicketStatus, AttemptStatus
    <2>2. ASSUME NEW t \in Ticket
          PROVE  Spent(t) + Cardinality(InFlight(t)) < RetryPolicy[t].max_attempts + Cardinality(Claimer)
      <3>1. Failures(t) = {} /\ InFlight(t) = {} /\ status[t] = "absent"
        BY DEF Init, Failures, InFlight
      <3> QED BY <3>1, FS_EmptySet, CountedSets DEF Spent
    <2> QED BY <2>1, <2>2 DEF OverrunInv
  <1>2. OverrunInv => RetryOverrunBounded
    <2> SUFFICES ASSUME OverrunInv, NEW t \in Ticket
                 PROVE  Cardinality(Failures(t)) < RetryPolicy[t].max_attempts + Cardinality(Claimer)
      BY DEF RetryOverrunBounded
    <2>1. Cardinality(Failures(t)) <= Spent(t)
      BY CountedSets DEF Spent
    <2> QED BY <2>1, CountedSets DEF OverrunInv
  <1> QED BY <1>1, <1>2, LedgerTypesStep, AgreementStep, OverrunStep, PTL DEF Spec

-----------------------------------------------------------------------------
(* What a step may never do.                                               *)

\* An archived ticket stays archived: the agreement of the two tables keeps the
\* unconditional ticket updates of ending attempts away from it.
THEOREM ArchivedIsFinalHolds == Spec => ArchivedIsFinal
  <1>1. LedgerTypes /\ RunningIffInProgress /\ [Next]_vars
        => [\A t \in Ticket : status[t] = "archived" => status'[t] = "archived"]_vars
    <2> SUFFICES ASSUME LedgerTypes, RunningIffInProgress, [Next]_vars,
                        NEW u \in Ticket, status[u] = "archived"
                 PROVE  status'[u] = "archived"
      OBVIOUS
    <2> USE DEF LedgerTypes, ticketVars
    <2>1. ASSUME NEW t \in Ticket, NEW s \in TicketStatus, TicketMove(t, s)
          PROVE  status'[u] = "archived"
      BY <2>1 DEF TicketMove, SetStatus
    <2>2. ASSUME NEW c \in Claimer, NEW t \in Ticket, NEW a \in Attempt, NEW len \in Lease,
                 ClaimNextTicket(c, t, a, len)
          PROVE  status'[u] = "archived"
      BY <2>2 DEF ClaimNextTicket, SetStatus
    <2>3. ASSUME NEW a \in Attempt, AttemptEnd(a) PROVE status'[u] = "archived"
      <3>1. attStatus[a] = "running"
            /\ \E s : status' = [status EXCEPT ![attTicket[a]] = s]
        BY <2>3 DEF AttemptEnd, EndAttempt, SetStatus
      <3>2. attTicket[a] # u
        BY <3>1 DEF RunningIffInProgress, Running
      <3> QED BY <3>1, <3>2
    <2>4. ASSUME NEW c \in Claimer, ClaimNext(c) \/ ClaimMiss(c) PROVE status'[u] = "archived"
      BY <2>4 DEF ClaimNext, ClaimMiss
    <2>5. ASSUME Quiet PROVE status'[u] = "archived"
      BY <2>5 DEF Quiet
    <2> QED BY <2>1, <2>2, <2>3, <2>4, <2>5, StepShape
  <1>2. Init => LedgerTypes /\ RunningIffInProgress
    BY DEF Init, LedgerTypes, RunningIffInProgress, Running, TicketStatus, AttemptStatus
  <1> QED BY <1>1, <1>2, LedgerTypesStep, AgreementStep, PTL DEF Spec, ArchivedIsFinal

\* An attempt that ended never changes again.
THEOREM TerminalIsFinalHolds == Spec => TerminalIsFinal
  <1>1. LedgerTypes /\ ClockTypes /\ [Next]_vars
        => [\A a \in Attempt : attStatus[a] \in Terminal =>
              /\ attStatus'[a] = attStatus[a]
              /\ attTicket'[a] = attTicket[a]
              /\ lease'[a] = lease[a]]_vars
    <2> SUFFICES ASSUME LedgerTypes, ClockTypes, [Next]_vars,
                        NEW b \in Attempt, attStatus[b] \in Terminal
                 PROVE  /\ attStatus'[b] = attStatus[b]
                        /\ attTicket'[b] = attTicket[b]
                        /\ lease'[b] = lease[b]
      OBVIOUS
    <2>a. attStatus[b] \notin {"absent", "running"}
      BY DEF Terminal
    <2> USE DEF LedgerTypes, ClockTypes, attemptVars
    <2>1. CASE TicketStep
      BY <2>1, TicketStepShape DEF TicketMove
    <2>2. CASE ClaimStep
      BY <2>a, <2>2 DEF ClaimStep, ClaimNext, ClaimNextTicket, ClaimMiss
    <2>3. CASE AttemptStep
      BY <2>a, <2>3 DEF AttemptStep, HeartbeatAttempt, CompleteAttempt, FailAttempt, BlockAttempt,
                        CancelAttempt, EndAttempt
    <2>4. CASE WorkerStep
      BY <2>a, <2>4 DEF WorkerStep, RunOnce, StartPass, StopPass, ExpireAttempt, SkipExpiryRace,
                        EndAttempt
    <2>5. CASE Tick \/ UNCHANGED vars
      BY <2>5 DEF Tick, vars
    <2> QED BY <2>1, <2>2, <2>3, <2>4, <2>5 DEF Next
  <1>2. Init => LedgerTypes /\ ClockTypes
    BY LedgerAssumption DEF Init, LedgerTypes, ClockTypes, TicketStatus, AttemptStatus
  <1> QED BY <1>1, <1>2, LedgerTypesStep, ClockTypesStep, PTL DEF Spec, TerminalIsFinal

\* A worker's cutoff is a past reading of the clock.
CutoffInv == \A w \in Worker : cutoff[w] <= now

\* The clock only moves on under a pass.
LEMMA CutoffStep == ClockTypes /\ CutoffInv /\ [Next]_vars => CutoffInv'
  <1> SUFFICES ASSUME ClockTypes, CutoffInv, [Next]_vars PROVE CutoffInv'
    OBVIOUS
  <1> USE LedgerAssumption DEF ClockTypes, CutoffInv, workerVars
  <1>1. CASE TicketStep
    BY <1>1, TicketStepShape DEF TicketMove
  <1>2. CASE ClaimStep
    BY <1>2 DEF ClaimStep, ClaimNext, ClaimNextTicket, ClaimMiss
  <1>3. CASE AttemptStep
    BY <1>3 DEF AttemptStep, HeartbeatAttempt, CompleteAttempt, FailAttempt, BlockAttempt,
                CancelAttempt, EndAttempt
  <1>4. CASE WorkerStep
    BY <1>4 DEF WorkerStep, RunOnce, StartPass, StopPass, ExpireAttempt, SkipExpiryRace,
                EndAttempt, Handled
  <1>5. CASE Tick
    BY <1>5 DEF Tick
  <1>6. CASE UNCHANGED vars
    BY <1>6 DEF vars
  <1> QED BY <1>1, <1>2, <1>3, <1>4, <1>5, <1>6 DEF Next

\* The worker expires an attempt only while its lease is lapsed.
THEOREM RenewedLeaseSurvivesHolds == Spec => RenewedLeaseSurvives
  <1>1. LedgerTypes /\ ClockTypes /\ CutoffInv /\ [Next]_vars
        => [\A a \in Attempt :
              attStatus[a] = "running" /\ attStatus'[a] = "expired" => lease[a] < now]_vars
    <2> SUFFICES ASSUME LedgerTypes, ClockTypes, CutoffInv, [Next]_vars, NEW b \in Attempt,
                        attStatus[b] = "running", attStatus'[b] = "expired"
                 PROVE  lease[b] < now
      OBVIOUS
    <2> USE DEF LedgerTypes, ClockTypes, CutoffInv, attemptVars
    <2>1. CASE TicketStep
      BY <2>1, TicketStepShape DEF TicketMove
    <2>2. CASE ClaimStep
      BY <2>2 DEF ClaimStep, ClaimNext, ClaimNextTicket, ClaimMiss
    <2>3. CASE AttemptStep
      BY <2>3 DEF AttemptStep, HeartbeatAttempt, CompleteAttempt, FailAttempt, BlockAttempt,
                  CancelAttempt, EndAttempt
    <2>4. CASE WorkerStep
      BY <2>4, LedgerAssumption DEF WorkerStep, RunOnce, StartPass, StopPass, ExpireAttempt,
                  SkipExpiryRace, EndAttempt, Lapsed
    <2>5. CASE Tick \/ UNCHANGED vars
      BY <2>5 DEF Tick, vars
    <2> QED BY <2>1, <2>2, <2>3, <2>4, <2>5 DEF Next
  <1>2. Init => LedgerTypes /\ ClockTypes /\ CutoffInv
    BY LedgerAssumption DEF Init, LedgerTypes, ClockTypes, CutoffInv, TicketStatus, AttemptStatus
  <1> QED BY <1>1, <1>2, LedgerTypesStep, ClockTypesStep, CutoffStep, PTL
          DEF Spec, RenewedLeaseSurvives

-----------------------------------------------------------------------------
(* The ledger implements the board.                                        *)

LEMMA BoardColumns ==
    /\ BoardColumn["absent"] = "none" /\ BoardColumn["backlog"] = "idle"
    /\ BoardColumn["todo"] = "ready" /\ BoardColumn["in_progress"] = "held"
    /\ BoardColumn["blocked"] = "idle" /\ BoardColumn["needs_review"] = "idle"
    /\ BoardColumn["done"] = "done" /\ BoardColumn["failed"] = "idle"
    /\ BoardColumn["archived"] = "gone"
BY DEF BoardColumn

\* A status set by a statement is a ticket put into its column.
LEMMA SetStatusPuts ==
    ASSUME LedgerTypes, NEW t \in Ticket, NEW s \in TicketStatus, SetStatus(t, s)
    PROVE  Board!Put(t, BoardColumn[s])
<1>1. status' = [status EXCEPT ![t] = s] /\ finished' = IF s = "done" THEN finished \cup {t} ELSE finished
    BY DEF SetStatus
<1>2. [u \in Ticket |-> BoardColumn[status[u]]]' =
          [[u \in Ticket |-> BoardColumn[status[u]]] EXCEPT ![t] = BoardColumn[s]]
    BY <1>1 DEF LedgerTypes
<1>3. BoardColumn[s] = "done" <=> s = "done"
    BY BoardColumns DEF TicketStatus
<1> QED BY <1>1, <1>2, <1>3 DEF Board!Put

\* An operation on tickets adds a ticket to the board or moves one nobody holds.
LEMMA TicketStepOnBoard ==
    ASSUME LedgerTypes, RunningIffInProgress, TicketStep
    PROVE  Board!BoardNext
<1>1. PICK t \in Ticket :
          \/ \E s \in TicketStatus : CreateTicket(t, s)
          \/ MarkReady(t) \/ Reopen(t) \/ Unblock(t)
          \/ RequestReview(t) \/ Archive(t) \/ Review(t)
    BY DEF TicketStep
<1>2. status[t] # "in_progress" => {a \in Attempt : Running(a, t)} = {}
    BY DEF RunningIffInProgress
<1>3. ASSUME UNCHANGED attemptVars
      PROVE  /\ [u \in Ticket |-> {a \in Attempt : Running(a, u)}]' =
                    [u \in Ticket |-> {a \in Attempt : Running(a, u)}]
             /\ {a \in Attempt : attStatus[a] # "absent"}' = {a \in Attempt : attStatus[a] # "absent"}
    BY <1>3 DEF attemptVars, Running
<1>4. ASSUME NEW s \in TicketStatus, CreateTicket(t, s) PROVE Board!BoardNext
  <2>1. Board!Add(t, BoardColumn[s]) /\ BoardColumn[s] \in Board!Column
    BY <1>3, <1>4, SetStatusPuts, BoardColumns DEF CreateTicket, Board!Add, Board!Column
  <2> QED BY <2>1 DEF Board!BoardNext
<1>5. ASSUME NEW allowed, NEW s \in {"todo", "needs_review", "archived", "done"},
             TransitionTicket(t, allowed, s),
             allowed \subseteq TicketStatus \ {"absent", "in_progress", "archived"},
             s = "done" => allowed = {"needs_review"}
      PROVE  Board!BoardNext
  <2>1. /\ status[t] \in {"backlog", "todo", "blocked", "needs_review", "done", "failed"}
        /\ SetStatus(t, s) /\ UNCHANGED attemptVars /\ s \in TicketStatus
        /\ s = "done" => status[t] = "needs_review"
    BY <1>5 DEF TransitionTicket, TicketStatus
  <2>2. Board!Put(t, BoardColumn[s])
    BY <2>1, SetStatusPuts
  <2>3. /\ BoardColumn[status[t]] \in {"idle", "ready", "done"}
        /\ BoardColumn[s] \in {"idle", "ready", "gone"} \/ (BoardColumn[s] = "done" /\ BoardColumn[status[t]] = "idle")
    BY <1>5, <2>1, BoardColumns
  <2>4. Board!Decide(t, BoardColumn[s])
    BY <1>2, <1>3, <2>1, <2>2, <2>3 DEF Board!Decide
  <2> QED BY <2>3, <2>4 DEF Board!BoardNext, Board!Column
<1>6. CASE MarkReady(t) \/ Reopen(t) \/ Unblock(t)
    BY <1>5, <1>6 DEF MarkReady, Reopen, Unblock, TicketStatus
<1>7. CASE RequestReview(t)
    BY <1>5, <1>7 DEF RequestReview, TicketStatus
<1>8. CASE Archive(t)
    BY <1>5, <1>8 DEF Archive, TicketStatus
<1>9. CASE Review(t)
    BY <1>5, <1>9 DEF Review, TicketStatus
<1> QED BY <1>1, <1>4, <1>6, <1>7, <1>8, <1>9

\* A claim takes a ready ticket with a fresh turn, although the dependencies were
\* looked at earlier, in the snapshot.
LEMMA ClaimOnBoard ==
    ASSUME LedgerTypes, RunningIffInProgress, DependencyInv,
           NEW c \in Claimer, NEW t \in Ticket, NEW a \in Attempt, NEW len \in Lease,
           ClaimNextTicket(c, t, a, len)
    PROVE  Board!BoardNext
<1>1. /\ t \in snapshot[c] /\ status[t] = "todo" /\ attStatus[a] = "absent"
      /\ ~ \E b \in Attempt : Running(b, t)
      /\ SetStatus(t, "in_progress")
      /\ attStatus' = [attStatus EXCEPT ![a] = "running"]
      /\ attTicket' = [attTicket EXCEPT ![a] = t]
    BY DEF ClaimNextTicket
<1>2. Board!Put(t, "held")
    BY <1>1, SetStatusPuts, BoardColumns DEF TicketStatus
<1>3. {b \in Attempt : attStatus[b] # "absent"}' = {b \in Attempt : attStatus[b] # "absent"} \cup {a}
    BY <1>1 DEF LedgerTypes
<1>4. \A u \in Ticket, b \in Attempt : Running(b, u)' <=> IF u = t THEN b = a ELSE Running(b, u)
    BY <1>1 DEF LedgerTypes, Running
<1>5. [u \in Ticket |-> {b \in Attempt : Running(b, u)}]' =
          [[u \in Ticket |-> {b \in Attempt : Running(b, u)}] EXCEPT ![t] = {a}]
    BY <1>4
<1>6. DependsOn[t] \subseteq finished
    BY <1>1 DEF DependencyInv
<1>7. Board!Take(t, a)
    BY <1>1, <1>2, <1>3, <1>5, <1>6, BoardColumns DEF Board!Take
<1> QED BY <1>7 DEF Board!BoardNext

\* However an attempt ends, its ticket is the one it holds alone.
LEMMA EndOnBoard ==
    ASSUME LedgerTypes, RunningIffInProgress, NEW a \in Attempt, AttemptEnd(a)
    PROVE  Board!BoardNext
<1>1. PICK outcome \in Terminal, s \in {"todo", "needs_review", "done", "failed", "blocked"} :
          EndAttempt(a, outcome, s)
    BY DEF AttemptEnd
<1> attStatus[a] = "running" /\ attTicket[a] \in Ticket
    BY <1>1 DEF EndAttempt, LedgerTypes
<1> PICK t \in Ticket : t = attTicket[a]
    OBVIOUS
<1>2. /\ status[t] = "in_progress"
      /\ attStatus' = [attStatus EXCEPT ![a] = outcome] /\ attTicket' = attTicket
      /\ outcome \notin {"running", "absent"}
      /\ SetStatus(t, s) /\ s \in TicketStatus
    BY <1>1 DEF EndAttempt, LedgerTypes, RunningIffInProgress, Running, Terminal, TicketStatus
<1>3. Board!Put(t, BoardColumn[s]) /\ BoardColumn[s] \in {"idle", "ready", "done"}
    BY <1>2, SetStatusPuts, BoardColumns
<1>4. {b \in Attempt : attStatus[b] # "absent"}' = {b \in Attempt : attStatus[b] # "absent"}
    BY <1>2 DEF LedgerTypes
<1>5. \A b \in Attempt : Running(b, t) <=> b = a
    BY <1>2 DEF RunningIffInProgress, Running
<1>6. \A u \in Ticket, b \in Attempt : Running(b, u)' <=> Running(b, u) /\ u # t
    BY <1>2, <1>5 DEF LedgerTypes, Running
<1>7. [u \in Ticket |-> {b \in Attempt : Running(b, u)}]' =
          [[u \in Ticket |-> {b \in Attempt : Running(b, u)}] EXCEPT ![t] = {}]
    BY <1>6
<1>8. {b \in Attempt : Running(b, t)} = {a}
    BY <1>5
<1>9. Board!GiveBack(t, a, BoardColumn[s])
    BY <1>2, <1>3, <1>4, <1>7, <1>8, BoardColumns DEF Board!GiveBack
<1>10. BoardColumn[s] \in Board!Column
    BY <1>3 DEF Board!Column
<1> QED BY <1>9, <1>10 DEF Board!BoardNext

\* Snapshots, leases, the clock and the workers' lists are not on the board.
LEMMA HiddenFromBoard ==
    ASSUME UNCHANGED <<ticketVars, attStatus, attTicket>>
    PROVE  UNCHANGED Board!board
BY DEF Board!board, ticketVars, Running

LEMMA BoardStep ==
    LedgerTypes /\ RunningIffInProgress /\ DependencyInv /\ [Next]_vars
        => [Board!BoardNext]_(Board!board)
<1> SUFFICES ASSUME LedgerTypes, RunningIffInProgress, DependencyInv, [Next]_vars
             PROVE  Board!BoardNext \/ UNCHANGED Board!board
    OBVIOUS
<1>1. CASE TicketStep
    BY <1>1, TicketStepOnBoard
<1>2. CASE ClaimStep
    BY <1>2, ClaimOnBoard, HiddenFromBoard DEF ClaimStep, ClaimNext, ClaimMiss, attemptVars
<1>3. CASE AttemptStep
    BY <1>3, AgentEndShape, EndOnBoard, HiddenFromBoard DEF AttemptStep, HeartbeatAttempt
<1>4. CASE WorkerStep
    BY <1>4, ExpireShape, EndOnBoard, HiddenFromBoard
       DEF WorkerStep, RunOnce, StartPass, SkipExpiryRace, StopPass, attemptVars
<1>5. CASE Tick \/ UNCHANGED vars
    BY <1>5, HiddenFromBoard DEF Tick, vars, attemptVars
<1> QED BY <1>1, <1>2, <1>3, <1>4, <1>5 DEF Next

\* To its users the ledger is the board, for any tickets, claims in flight, attempts,
\* leases and workers: what a statement does not check when it writes (the dependencies
\* after the snapshot, the ticket's status when an attempt ends) never shows.
THEOREM KeepsBoardHolds == Spec => KeepsBoard
<1>1. Init => LedgerTypes /\ RunningIffInProgress /\ DependencyInv
    BY DEF Init, LedgerTypes, RunningIffInProgress, Running, DependencyInv, StartedAfterDependencies,
           TicketStatus, AttemptStatus
<1>2. Init => Board!BoardInit
    BY BoardColumns DEF Init, Board!BoardInit, Running
<1> QED
    BY <1>1, <1>2, LedgerTypesStep, AgreementStep, DependencyStep, BoardStep, PTL
       DEF Spec, KeepsBoard, Board!BoardSpec

-----------------------------------------------------------------------------
(* The worker's list, at any limit.                                        *)

\* The least natural number of a set.
LEMMA LeastNumber ==
    ASSUME NEW N \in SUBSET Nat, N # {}
    PROVE  \E m \in N : \A n \in N : m <= n
<1> DEFINE Less == {ss \in Nat \X Nat : ss[1] < ss[2]}
<1>1. IsWellFoundedOn(Less, Nat)
    BY NatLessThanWellFounded DEF OpToRel
<1>2. PICK m \in N : \A n \in N : ~(<<n, m>> \in Less)
    BY <1>1, WFMin
<1>3. ASSUME NEW n \in N PROVE m <= n
  <2>1. m \in Nat /\ n \in Nat /\ <<n, m>> \in Nat \X Nat
    OBVIOUS
  <2>2. <<n, m>>[1] = n /\ <<n, m>>[2] = m
    OBVIOUS
  <2>3. ~(n < m)
    BY <1>2, <2>1, <2>2
  <2> QED BY <2>1, <2>3
<1> QED BY <1>3

\* T has the k oldest elements of S.
IsOldest(T, S, age, k) ==
    /\ Cardinality(T) = k
    /\ \A a \in T, b \in S \ T : age[a] <= age[b]

\* ORDER BY with a LIMIT has an answer: of k elements too many for it, one fewer have one,
\* and the oldest of the others joins them.
LEMMA OldestExist ==
    ASSUME NEW S, IsFiniteSet(S), NEW age \in [S -> Nat], NEW k \in 0 .. Cardinality(S)
    PROVE  \E T \in SUBSET S : IsOldest(T, S, age, k)
<1> DEFINE Bad == {n \in 0 .. Cardinality(S) : ~ \E T \in SUBSET S : IsOldest(T, S, age, n)}
<1>0. Cardinality(S) \in Nat
    BY FS_CardinalityType
<1> SUFFICES ASSUME Bad # {} PROVE FALSE
    OBVIOUS
<1>1. PICK m \in Bad : \A n \in Bad : m <= n
  <2>1. Bad \in SUBSET Nat
    BY <1>0
  <2> HIDE DEF Bad
  <2> QED BY <2>1, LeastNumber
<1>2. m # 0
  <2>1. IsOldest({}, S, age, 0)
    BY FS_EmptySet DEF IsOldest
  <2> QED BY <2>1
<1>3. m - 1 \in 0 .. Cardinality(S) /\ ~(m <= m - 1)
    BY <1>0, <1>1, <1>2
<1>4. PICK T \in SUBSET S : IsOldest(T, S, age, m - 1)
    BY <1>1, <1>3
<1>5. IsFiniteSet(T) /\ T # S
    BY <1>0, <1>3, <1>4, FS_Subset DEF IsOldest
<1>6. PICK b \in S \ T : \A x \in S \ T : age[b] <= age[x]
  <2> DEFINE Ages == {age[x] : x \in S \ T}
  <2>1. Ages \in SUBSET Nat /\ Ages # {}
    BY <1>5
  <2>2. PICK n \in Ages : \A o \in Ages : n <= o
    <3> HIDE DEF Ages
    <3> QED BY <2>1, LeastNumber
  <2> QED BY <2>2
<1>7. Cardinality(T \cup {b}) = m
  <2>1. Cardinality(T) = m - 1 /\ m \in Nat
    BY <1>0, <1>1, <1>4 DEF IsOldest
  <2>2. Cardinality(T \cup {b}) = Cardinality(T) + 1
    BY <1>5, <1>6, FS_AddElement
  <2> QED BY <2>1, <2>2
<1>8. ASSUME NEW a \in T \cup {b}, NEW x \in S \ (T \cup {b}) PROVE age[a] <= age[x]
  <2>1. CASE a \in T
    BY <1>4, <2>1 DEF IsOldest
  <2>2. CASE a = b
    BY <1>6, <2>2
  <2> QED BY <2>1, <2>2
<1>9. IsOldest(T \cup {b}, S, age, m)
    BY <1>7, <1>8 DEF IsOldest
<1>10. T \cup {b} \in SUBSET S
    OBVIOUS
<1> QED BY <1>9, <1>10

\* A pass that starts gets an answer, an empty one only if no lease has lapsed, and
\* the attempt whose lease lapsed first is never crowded out of it.
FirstLapsedIsListed ==
    LET listings == ListExpiredRunningAttempts(now)
        lapsed == {a \in Attempt : Lapsed(a, now)}
    IN  /\ listings # {}
        /\ {} \in listings => lapsed = {}
        /\ \A S \in listings, a \in lapsed :
              (\A b \in lapsed \ {a} : lease[a] < lease[b]) => a \in S

\* For any number of lapsed attempts and any limit of the list, a pass has something to
\* expire as long as a lease has lapsed, beginning with the oldest: what keeps
\* LapsedIsHandled from failing by starvation (ListExpiredRunningAttempts).
THEOREM FirstLapsedIsListedHolds == Spec => []FirstLapsedIsListed
<1>1. TypeOK => FirstLapsedIsListed
  <2> SUFFICES ASSUME TypeOK PROVE FirstLapsedIsListed
    OBVIOUS
  <2> DEFINE lapsed == {a \in Attempt : Lapsed(a, now)}
  <2>1. IsFiniteSet(lapsed) /\ Cardinality(lapsed) \in Nat
    BY LedgerAssumption, FS_Subset, FS_CardinalityType
  <2>2. lease \in [Attempt -> Nat] /\ BatchLimit \in Nat \ {0}
    BY LedgerAssumption DEF TypeOK
  <2>3. \A S : S \in ListExpiredRunningAttempts(now) <=>
            /\ S \in SUBSET lapsed
            /\ IF Cardinality(lapsed) <= BatchLimit THEN S = lapsed ELSE Cardinality(S) = BatchLimit
            /\ \A a \in S, b \in lapsed \ S : lease[a] <= lease[b]
    BY DEF ListExpiredRunningAttempts
  <2> HIDE DEF lapsed
  <2>4. ListExpiredRunningAttempts(now) # {}
    <3>1. CASE Cardinality(lapsed) <= BatchLimit
      BY <2>3, <3>1
    <3>2. CASE ~(Cardinality(lapsed) <= BatchLimit)
      <4> DEFINE age == [a \in lapsed |-> lease[a]]
      <4>1. age \in [lapsed -> Nat] /\ BatchLimit \in 0 .. Cardinality(lapsed)
        BY <2>1, <2>2, <3>2 DEF lapsed
      <4>2. PICK T \in SUBSET lapsed : IsOldest(T, lapsed, age, BatchLimit)
        <5> HIDE DEF age
        <5> QED BY <2>1, <4>1, OldestExist
      <4>3. \A a \in T, b \in lapsed \ T : lease[a] <= lease[b]
        BY <4>2 DEF IsOldest
      <4>4. T \in ListExpiredRunningAttempts(now)
        BY <2>3, <3>2, <4>2, <4>3 DEF IsOldest
      <4> QED BY <4>4
    <3> QED BY <3>1, <3>2
  <2>5. \A S \in ListExpiredRunningAttempts(now) : S = {} => lapsed = {}
    BY <2>1, <2>2, <2>3, FS_EmptySet
  <2>6. ASSUME NEW S \in ListExpiredRunningAttempts(now), NEW a \in lapsed,
               \A b \in lapsed \ {a} : lease[a] < lease[b], a \notin S
        PROVE  FALSE
    <3>1. S # {}
      BY <2>5
    <3>2. PICK b \in S : b \in lapsed \ {a}
      BY <2>3, <2>6, <3>1
    <3>3. lease[b] <= lease[a] /\ lease[a] < lease[b]
      BY <2>3, <2>6, <3>2
    <3>4. lease[a] \in Nat /\ lease[b] \in Nat
      BY <2>2, <3>2 DEF lapsed
    <3> QED BY <3>3, <3>4
  <2> QED BY <2>4, <2>5, <2>6 DEF FirstLapsedIsListed, lapsed
<1> QED BY <1>1, TypeCorrect, PTL
=============================================================================
