--------------------------- MODULE TicketHistory ---------------------------
(***************************************************************************)
(* The tickets as the consoles read them. Every statement that changes a   *)
(* ticket's status writes its event, and a claim its attempt, so all that  *)
(* a console can read of a ticket at some instant is a prefix of one       *)
(* history: the sequence of statuses it went through. The n-th attempt     *)
(* starts with the n-th "in_progress" and ends with the entry after it,    *)
(* whose statement may also have stored the metrics the agent reported.    *)
(* Module Ledger has the statements themselves.                            *)
(***************************************************************************)
EXTENDS Naturals, FiniteSets, Sequences

CONSTANTS
    Ticket,     \* the tickets of the project
    Proposal,   \* those an agent created in backlog
    MaxEvents   \* bound on the length of a ticket's history

ASSUME HistoryAssumption == Proposal \subseteq Ticket /\ MaxEvents \in Nat \ {0}

VARIABLE history

Status == {"backlog", "todo", "in_progress", "blocked", "needs_review",
           "done", "failed", "archived"}

Entry == [status : Status, metrics : BOOLEAN]

HistoryInit ==
    history \in [Ticket -> {<<[status |-> s, metrics |-> FALSE]>> : s \in {"backlog", "todo"}}]

CurrentStatus(t) == history[t][Len(history[t])].status

\* What a statement that ran when the history had length v returned.
StatusAt(t, v) == history[t][v].status

ClaimsUpTo(t, v) == Cardinality({i \in 1 .. v : history[t][i].status = "in_progress"})

\* Where the n-th attempt of a ticket was claimed.
ClaimOf(t, n) ==
    CHOOSE i \in DOMAIN history[t] :
        history[t][i].status = "in_progress" /\ ClaimsUpTo(t, i) = n

\* The n-th attempt has ended, as far as a reader at length v can see.
EndedAt(t, n, v) == ClaimOf(t, n) < v

HasMetricsAt(t, n, v) == EndedAt(t, n, v) /\ history[t][ClaimOf(t, n) + 1].metrics

-----------------------------------------------------------------------------

\* A status change and its event; m: it ended an attempt and stored metrics.
Record(t, s, m) ==
    /\ Len(history[t]) < MaxEvents
    /\ history' = [history EXCEPT ![t] = Append(@, [status |-> s, metrics |-> m])]

TicketAction == {"ready", "reopen", "unblock", "request-review", "archive"}

\* The statuses each transition of the ticket service starts from.
AllowedStatuses(action) ==
    CASE action = "ready"          -> {"backlog"}
      [] action = "reopen"         -> {"done", "failed"}
      [] action = "unblock"        -> {"blocked"}
      [] action = "request-review" -> {"blocked", "todo", "failed", "done"}
      [] action = "archive"        -> {"backlog", "todo", "blocked", "needs_review", "done", "failed"}

TargetStatus(action) ==
    CASE action = "request-review" -> "needs_review"
      [] action = "archive"        -> "archived"
      [] OTHER                     -> "todo"

\* Anybody else who uses the ticket service, and the agents that work.
Transition(t, action) ==
    /\ CurrentStatus(t) \in AllowedStatuses(action)
    /\ Record(t, TargetStatus(action), FALSE)

Review(t) == CurrentStatus(t) = "needs_review" /\ \E s \in {"done", "todo"} : Record(t, s, FALSE)

Claim(t) == CurrentStatus(t) = "todo" /\ Record(t, "in_progress", FALSE)

\* Complete, fail and block may carry metrics.
Finish(t) ==
    /\ CurrentStatus(t) = "in_progress"
    /\ \E s \in {"done", "needs_review", "todo", "failed", "blocked"}, m \in BOOLEAN : Record(t, s, m)

\* An attempt that is cancelled or expires has none.
Lose(t) == CurrentStatus(t) = "in_progress" /\ \E s \in {"todo", "failed"} : Record(t, s, FALSE)

IsProposed(t) == t \in Proposal /\ CurrentStatus(t) = "backlog"

Elsewhere(t) ==
    \/ \E action \in TicketAction : Transition(t, action)
    \/ Review(t)
    \/ Claim(t)
    \/ Finish(t)
    \/ Lose(t)
=============================================================================
