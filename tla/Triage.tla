------------------------------- MODULE Triage -------------------------------
(***************************************************************************)
(* Proposed work and its triage. Agents leave proposals in backlog; humans *)
(* mark them ready, enqueue, refine, merge, reject or archive them, each   *)
(* call reading the ticket first and writing it by a later statement. The  *)
(* decisions write with a condition on the status; a refinement writes     *)
(* without one. Refinements and follow-up tickets are not wrapped in a     *)
(* transaction: their row and their event are two statements, and a call   *)
(* may be cut off between them.                                            *)
(*                                                                         *)
(* The ticket's text is a version number. The rest of a ticket's life is   *)
(* reduced to claim and completion, which Ledger has in full.              *)
(***************************************************************************)
EXTENDS Naturals, Sequences

CONSTANTS
    Ticket,
    TriageCall,  \* the triage and follow-up calls
    MaxVersion   \* bound on the changes of a ticket's text

ASSUME TriageAssumption == MaxVersion \in Nat

VARIABLES
    status,    \* tickets.status, "none" before the row exists
    author,    \* tickets.created_by
    version,   \* the ticket's text
    history,   \* the ticket's events in the order they were inserted
    call       \* per call: its operation, its ticket and where it is

vars == <<status, author, version, history, call>>

Accept == {"ready_proposed", "enqueue_proposed"}

Dismiss == {"reject_proposed", "archive_proposed", "merge_proposed"}

Decision == Accept \cup Dismiss

FollowUp == {"follow_up", "follow_up_enqueued"}

Operation == Decision \cup FollowUp \cup {"refine_proposed"}

\* The events of a new ticket. Its status is in their data: backlog in a proposal, and
\* in the event of a person's ticket what that was created with.
Creation == {"created", "created_in_backlog", "proposed"}

\* The other events that tell a status.
Moved == Decision \cup {"ready", "archived", "claimed", "completed"}

StatusTold ==
    [event \in Creation \cup Moved |->
        CASE event \in {"created_in_backlog", "proposed"} -> "backlog"
          [] event \in Accept \cup {"created", "ready"}   -> "todo"
          [] event = "claimed"                            -> "in_progress"
          [] event = "completed"                          -> "done"
          [] event \in Dismiss \cup {"archived"}          -> "archived"]

\* Tickets, their events and the calls hold values of their types, and an event
\* belongs to a ticket that exists.
TypeOK ==
    /\ status \in [Ticket -> {"none", "backlog", "todo", "in_progress", "done", "archived"}]
    /\ author \in [Ticket -> {"human", "agent"}]
    /\ version \in [Ticket -> 0 .. MaxVersion]
    /\ \A t \in Ticket :
          \A i \in 1 .. Len(history[t]) :
              /\ history[t][i] \in Creation \cup Moved \cup {"updated"}
              /\ status[t] # "none"
    /\ \A c \in TriageCall :
          \/ call[c].at \in {"idle", "over"}
          \/ /\ call[c].at \in {"checked", "written", "cut_off"}
             /\ call[c].op \in Operation
             /\ status[call[c].ticket] # "none"

Idle == [at |-> "idle"]

Over == [at |-> "over"]

Init ==
    /\ status = [t \in Ticket |-> "none"]
    /\ author = [t \in Ticket |-> "human"]
    /\ version = [t \in Ticket |-> 0]
    /\ history = [t \in Ticket |-> <<>>]
    /\ call = [c \in TriageCall |-> Idle]

-----------------------------------------------------------------------------

Log(t, event) == history' = [history EXCEPT ![t] = Append(@, event)]

\* The row of a new ticket.
Insert(t, by, s) ==
    /\ status[t] = "none"
    /\ status' = [status EXCEPT ![t] = s]
    /\ author' = [author EXCEPT ![t] = by]

\* CreateTicket and ProposeTicket: row and event in one transaction.
CreateTicket(t) ==
    /\ \E by \in {"human", "agent"} :
          \/ Insert(t, by, "todo") /\ Log(t, "created")
          \/ Insert(t, by, "backlog") /\ Log(t, "created_in_backlog")
    /\ UNCHANGED <<version, call>>

ProposeTicket(t) ==
    /\ Insert(t, "agent", "backlog")
    /\ Log(t, "proposed")
    /\ UNCHANGED <<version, call>>

\* CreateTicketFromAttempt: the row is committed first.
CreateTicketFromAttempt(c, t, op) ==
    /\ call[c] = Idle
    /\ Insert(t, "agent", IF op = "follow_up" THEN "backlog" ELSE "todo")
    /\ call' = [call EXCEPT ![c] = [at |-> "written", op |-> op, ticket |-> t]]
    /\ UNCHANGED <<version, history>>

\* requireProposedTicket, and for a merge the reading of the target.
RequireProposedTicket(c, t, op) ==
    /\ call[c] = Idle
    /\ status[t] = "backlog" /\ author[t] = "agent"
    /\ op = "merge_proposed" => \E target \in Ticket \ {t} : status[target] # "none"
    /\ call' = [call EXCEPT ![c] = [at |-> "checked", op |-> op, ticket |-> t]]
    /\ UNCHANGED <<status, author, version, history>>

StandsAt(c, where, ops) == call[c].at = where /\ call[c].op \in ops

\* Mutant: the statement has no condition on the status.
SetAnyTicketStatus(c) ==
    /\ StandsAt(c, "checked", Decision)
    /\ LET t == call[c].ticket IN
        /\ status' = [status EXCEPT ![t] = IF call[c].op \in Accept THEN "todo" ELSE "archived"]
        /\ Log(t, call[c].op)
    /\ call' = [call EXCEPT ![c] = Over]
    /\ UNCHANGED <<author, version>>

\* The decision, if the ticket is still in backlog.
SetTicketStatus(c) ==
    /\ StandsAt(c, "checked", Decision)
    /\ LET t == call[c].ticket IN
        /\ status[t] = "backlog"
        /\ status' = [status EXCEPT ![t] = IF call[c].op \in Accept THEN "todo" ELSE "archived"]
        /\ Log(t, call[c].op)
    /\ call' = [call EXCEPT ![c] = Over]
    /\ UNCHANGED <<author, version>>

\* ErrTicketTransitionNotAllowed.
TransitionNotAllowed(c) ==
    /\ StandsAt(c, "checked", Decision)
    /\ status[call[c].ticket] # "backlog"
    /\ call' = [call EXCEPT ![c] = Over]
    /\ UNCHANGED <<status, author, version, history>>

\* Mutant: the refinement saves the whole row it has read.
SaveProposedTicket(c) ==
    /\ StandsAt(c, "checked", {"refine_proposed"})
    /\ version[call[c].ticket] < MaxVersion
    /\ version' = [version EXCEPT ![call[c].ticket] = @ + 1]
    /\ status' = [status EXCEPT ![call[c].ticket] = "backlog"]
    /\ call' = [call EXCEPT ![c].at = "written"]
    /\ UNCHANGED <<author, history>>

\* A refinement: UpdateTicket's first statement names the ticket and no status.
RefineProposedTicket(c) ==
    /\ StandsAt(c, "checked", {"refine_proposed"})
    /\ version[call[c].ticket] < MaxVersion
    /\ version' = [version EXCEPT ![call[c].ticket] = @ + 1]
    /\ call' = [call EXCEPT ![c].at = "written"]
    /\ UNCHANGED <<status, author, history>>

\* Mutant: the operation is stored as the event's type.
LogOperation(c) ==
    /\ StandsAt(c, "written", FollowUp \cup {"refine_proposed"})
    /\ Log(call[c].ticket, call[c].op)
    /\ call' = [call EXCEPT ![c] = Over]
    /\ UNCHANGED <<status, author, version>>

\* The event of a refinement or of a follow-up ticket.
CreateTicketEvent(c) ==
    /\ StandsAt(c, "written", FollowUp \cup {"refine_proposed"})
    /\ Log(call[c].ticket, CASE call[c].op = "refine_proposed" -> "updated"
                             [] call[c].op = "follow_up" -> "proposed"
                             [] OTHER -> "created")
    /\ call' = [call EXCEPT ![c] = Over]
    /\ UNCHANGED <<status, author, version>>

\* The process stops, or a statement fails, between two statements of a call. What it
\* has written stays.
BreakOff(c) ==
    /\ \/ call[c].at = "checked" /\ call' = [call EXCEPT ![c] = Over]
       \/ call[c].at = "written" /\ call' = [call EXCEPT ![c].at = "cut_off"]
    /\ UNCHANGED <<status, author, version, history>>

\* UpdateTicket in its transaction, in any status.
UpdateTicket(t) ==
    /\ status[t] # "none"
    /\ version[t] < MaxVersion
    /\ version' = [version EXCEPT ![t] = @ + 1]
    /\ Log(t, "updated")
    /\ UNCHANGED <<status, author, call>>

Move(t, from, to, event) ==
    /\ status[t] \in from
    /\ status' = [status EXCEPT ![t] = to]
    /\ Log(t, event)
    /\ UNCHANGED <<author, version, call>>

\* The rest of a ticket's life.
MarkReady(t) == Move(t, {"backlog"}, "todo", "ready")

Archive(t) == Move(t, {"backlog", "todo", "done"}, "archived", "archived")

ClaimNextTicket(t) == Move(t, {"todo"}, "in_progress", "claimed")

CompleteAttempt(t) == Move(t, {"in_progress"}, "done", "completed")

Next ==
    \/ \E c \in TriageCall :
          \/ \E t \in Ticket :
                \/ \E op \in FollowUp : CreateTicketFromAttempt(c, t, op)
                \/ \E op \in Decision \cup {"refine_proposed"} : RequireProposedTicket(c, t, op)
          \/ SetTicketStatus(c)
          \/ TransitionNotAllowed(c)
          \/ RefineProposedTicket(c)
          \/ CreateTicketEvent(c)
          \/ BreakOff(c)
    \/ \E t \in Ticket :
          \/ CreateTicket(t)
          \/ ProposeTicket(t)
          \/ UpdateTicket(t)
          \/ MarkReady(t)
          \/ Archive(t)
          \/ ClaimNextTicket(t)
          \/ CompleteAttempt(t)

Spec == Init /\ [][Next]_vars

-----------------------------------------------------------------------------

\* The events that end the triage of a ticket.
Decided == Decision \cup {"ready"}

\* A proposal is decided once: of the calls that read it in backlog, however many
\* and whatever they want, one takes effect, and none after somebody marked it
\* ready or archived it. Work that people wrote down is not decided on at all
\* (requireProposedTicket).
DecidedOnce ==
    \A t \in Ticket :
        /\ \A i, j \in 1 .. Len(history[t]) :
              /\ history[t][i] \in Decided /\ history[t][j] \in Decided => i = j
              /\ history[t][i] \in {"archived", "claimed"} /\ history[t][j] \in Decision => j < i
        /\ author[t] = "human" => \A i \in 1 .. Len(history[t]) : history[t][i] \notin Decision

\* The newest event of the given kinds in a ticket's history, if there is one.
Newest(t, kinds) ==
    {i \in 1 .. Len(history[t]) :
        /\ history[t][i] \in kinds
        /\ \A j \in 1 .. Len(history[t]) : history[t][j] \in kinds => j <= i}

Births(t) == {i \in 1 .. Len(history[t]) : history[t][i] \in Creation}

\* Call c has left the row of follow-up ticket t without its event, for now or for good.
Owes(c, t) ==
    call[c].at \in {"written", "cut_off"} /\ call[c].op \in FollowUp /\ call[c].ticket = t

EventOwed(t) == \E c \in TriageCall : Owes(c, t)

\* What the events of a ticket are worth to those who read them. The newest event that
\* moved it tells its status, or its creation does if nothing has moved it: no call that
\* read the row earlier undoes a move. The creation event is written once, and missing
\* only for a follow-up ticket (CreateTicketFromAttempt) whose call is between its two
\* statements or was cut off there; of a follow-up ticket it may also come after the
\* ticket was claimed or decided on, and then tells the status it was inserted with.
HistoryTellsStatus ==
    \A t \in Ticket :
        /\ \A i \in Newest(t, Moved) : StatusTold[history[t][i]] = status[t]
        /\ Newest(t, Moved) = {} => \A i \in Births(t) : StatusTold[history[t][i]] = status[t]
        /\ status[t] # "none" => (Births(t) = {} <=> EventOwed(t))
        /\ \A i, j \in Births(t) : i = j
        /\ author[t] = "human" => Births(t) \subseteq {1}

\* "RefineProposedTicket patches only proposed work": a refinement never changes
\* a ticket that has left backlog.
PatchesOnlyProposedWork ==
    [][\A c \in TriageCall : RefineProposedTicket(c) => status[call[c].ticket] = "backlog"]_vars
=============================================================================
