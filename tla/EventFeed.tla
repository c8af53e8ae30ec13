------------------------------ MODULE EventFeed ------------------------------
(***************************************************************************)
(* The event ledger and its cursor-polled feed. Every write of a ticket or *)
(* an attempt inserts an event, which draws its event_sequence at once and *)
(* is seen when its transaction commits. A reader asks for the events      *)
(* after the last number it has got, so an event that commits below that   *)
(* number is never asked for again. What keeps a feed whole is that most   *)
(* writers draw the number while they hold the lock of the ticket's or the *)
(* attempt's row.                                                          *)
(*                                                                         *)
(* The guards on ticket and attempt status are those of Ledger, reduced to *)
(* which attempt is running. An event that is not about an attempt has     *)
(* attempt NoAttempt.                                                      *)
(***************************************************************************)
EXTENDS Naturals, FiniteSets

CONSTANTS
    Ticket, Attempt,
    NoAttempt,       \* no attempt
    All,             \* a filter that is not given
    Writer,          \* the concurrent transactions
    Reader,          \* the clients that poll the feed
    Follows,         \* the filter each reader sends
    Limit,           \* the page size
    MaxSeq           \* bound on the numbers drawn

ASSUME FeedAssumption ==
    /\ NoAttempt \notin Attempt
    /\ All \notin Ticket \cup Attempt \cup {NoAttempt}
    /\ Follows \in [Reader -> [ticket : Ticket \cup {All}, attempt : Attempt \cup {All}]]
    /\ Limit \in Nat \ {0}
    /\ MaxSeq \in Nat

VARIABLES
    writer,    \* the uncommitted event of each transaction
    work,      \* the running attempt of each ticket
    spent,     \* the attempts that were created
    events,    \* the committed events
    nextSeq,   \* the next value of ticket_events_event_sequence_seq
    feed       \* per reader: its cursor, where its first page began, what it got

vars == <<writer, work, spent, events, nextSeq, feed>>

TicketRow == {"transition", "claimed", "outcome", "updated"}

AttemptRow == {"claimed", "progress", "outcome"}

Kind == TicketRow \cup AttemptRow \cup {"refined"}

Event == [kind : Kind, ticket : Ticket, attempt : Attempt \cup {NoAttempt}, seq : Nat]

Idle == [kind |-> "idle"]

Busy(w) == writer[w].kind # "idle"

\* Writers, events and readers hold values of their types; a number is drawn
\* below the sequence's next value, and a reader has only got committed events.
TypeOK ==
    /\ writer \in [Writer -> Event \cup {Idle}]
    /\ \A w \in Writer : Busy(w) => writer[w].seq < nextSeq
    /\ work \in [Ticket -> Attempt \cup {NoAttempt}]
    /\ spent \subseteq Attempt
    /\ events \subseteq Event
    /\ \A e \in events : e.seq < nextSeq
    /\ nextSeq \in Nat
    /\ feed \in [Reader -> [cursor : Nat, first : Nat, seen : SUBSET events]]

Init ==
    /\ writer = [w \in Writer |-> Idle]
    /\ work = [t \in Ticket |-> NoAttempt]
    /\ spent = {}
    /\ events = {}
    /\ nextSeq = 1
    /\ feed = [r \in Reader |-> [cursor |-> 0, first |-> 0, seen |-> {}]]

-----------------------------------------------------------------------------
\* Writers. A statement that updates a row waits for the transaction that holds
\* its lock, and its status condition is evaluated on what that one committed.

TicketFree(t) == \A w \in Writer : writer[w].kind \in TicketRow => writer[w].ticket # t

AttemptFree(a) == \A w \in Writer : writer[w].kind \in AttemptRow => writer[w].attempt # a

\* The row is inserted with the next number of the sequence.
CreateTicketEvent(w, kind, t, a) ==
    /\ ~Busy(w)
    /\ nextSeq <= MaxSeq
    /\ writer' = [writer EXCEPT ![w] = [kind |-> kind, ticket |-> t, attempt |-> a, seq |-> nextSeq]]
    /\ nextSeq' = nextSeq + 1
    /\ UNCHANGED <<work, events, feed>>

\* Mutant: the event is inserted before the ticket's row is locked.
TransitionUnlocked(w, t) ==
    /\ work[t] = NoAttempt
    /\ CreateTicketEvent(w, "transition", t, NoAttempt)
    /\ UNCHANGED spent

\* A lifecycle transition or a triage decision; none is allowed from in_progress.
TransitionTicket(w, t) ==
    /\ TicketFree(t)
    /\ work[t] = NoAttempt
    /\ CreateTicketEvent(w, "transition", t, NoAttempt)
    /\ UNCHANGED spent

ClaimNextTicket(w, t, a) ==
    /\ TicketFree(t)
    /\ work[t] = NoAttempt
    /\ a \notin spent
    /\ spent' = spent \cup {a}
    /\ CreateTicketEvent(w, "claimed", t, a)

\* Mutant: the event is inserted without updating the attempt.
ProgressUnlocked(w, t, a) ==
    /\ work[t] = a
    /\ CreateTicketEvent(w, "progress", t, a)
    /\ UNCHANGED spent

\* HeartbeatAttempt and CheckpointAttempt lock the attempt, not its ticket.
Progress(w, t, a) ==
    /\ AttemptFree(a)
    /\ work[t] = a
    /\ CreateTicketEvent(w, "progress", t, a)
    /\ UNCHANGED spent

\* CompleteAttempt, FailAttempt, BlockAttempt, CancelAttempt and ExpireAttempt
\* lock the attempt and its ticket.
Outcome(w, t, a) ==
    /\ AttemptFree(a) /\ TicketFree(t)
    /\ work[t] = a
    /\ CreateTicketEvent(w, "outcome", t, a)
    /\ UNCHANGED spent

\* UpdateTicket: the row and the event in one transaction, in any status.
UpdateTicket(w, t) ==
    /\ TicketFree(t)
    /\ CreateTicketEvent(w, "updated", t, NoAttempt)
    /\ UNCHANGED spent

\* RefineProposedTicket runs outside a transaction: its update has committed, and
\* released the row, before its event is inserted.
RefineProposedTicket(w, t) ==
    /\ CreateTicketEvent(w, "refined", t, NoAttempt)
    /\ UNCHANGED spent

Commit(w) ==
    /\ Busy(w)
    /\ events' = events \cup {writer[w]}
    /\ work' = [work EXCEPT ![writer[w].ticket] =
                   CASE writer[w].kind = "claimed" -> writer[w].attempt
                     [] writer[w].kind = "outcome" -> NoAttempt
                     [] OTHER -> @]
    /\ writer' = [writer EXCEPT ![w] = Idle]
    /\ UNCHANGED <<spent, nextSeq, feed>>

\* A later statement of the transaction fails: the number drawn is lost.
Rollback(w) ==
    /\ Busy(w)
    /\ writer' = [writer EXCEPT ![w] = Idle]
    /\ UNCHANGED <<work, spent, events, nextSeq, feed>>

-----------------------------------------------------------------------------
\* Readers.

Matches(r, e) ==
    /\ Follows[r].ticket \in {All, e.ticket}
    /\ Follows[r].attempt \in {All, e.attempt}

\* ORDER BY event_sequence ASC LIMIT.
Oldest(rows) == {e \in rows : Cardinality({f \in rows : f.seq < e.seq}) < Limit}

\* ORDER BY event_sequence DESC LIMIT.
Newest(rows) == {e \in rows : Cardinality({f \in rows : f.seq > e.seq}) < Limit}

ListRecentTicketEvents(r) == Newest({e \in events : Matches(r, e)})

\* Mutant: the rows are ordered as in ListRecentTicketEvents.
ListNewestAfterCursor(r) ==
    Newest({e \in events : Matches(r, e) /\ e.seq > feed[r].cursor})

\* Mutant: the row of the cursor itself is returned again.
ListFromCursor(r) ==
    Oldest({e \in events : Matches(r, e) /\ e.seq >= feed[r].cursor})

ListTicketEventsAfterCursor(r) ==
    Oldest({e \in events : Matches(r, e) /\ e.seq > feed[r].cursor})

\* The next cursor is the last event's number; an empty page keeps the cursor.
Take(r, page) ==
    \E last, first \in page :
        /\ \A e \in page : first.seq <= e.seq /\ e.seq <= last.seq
        /\ feed' = [feed EXCEPT ![r] =
                       [cursor |-> last.seq,
                        first |-> IF @.cursor = 0 THEN first.seq ELSE @.first,
                        seen |-> @.seen \cup page]]

\* A request without cursor gets the recent window, one with a cursor what
\* follows it. An answer that is lost leaves the reader where it was.
ListEvents(r) ==
    /\ Take(r, IF feed[r].cursor = 0 THEN ListRecentTicketEvents(r)
               ELSE ListTicketEventsAfterCursor(r))
    /\ UNCHANGED <<writer, work, spent, events, nextSeq>>

Next ==
    \/ \E w \in Writer :
          \/ \E t \in Ticket :
                \/ TransitionTicket(w, t)
                \/ UpdateTicket(w, t)
                \/ RefineProposedTicket(w, t)
                \/ \E a \in Attempt :
                      \/ ClaimNextTicket(w, t, a)
                      \/ Progress(w, t, a)
                      \/ Outcome(w, t, a)
          \/ Commit(w)
          \/ Rollback(w)
    \/ \E r \in Reader : ListEvents(r)

Spec == Init /\ [][Next]_vars

\* Readers keep polling.
FairSpec == Spec /\ \A r \in Reader : WF_vars(ListEvents(r))

-----------------------------------------------------------------------------

Missed(r) ==
    {e \in events \ feed[r].seen :
        Matches(r, e) /\ feed[r].first <= e.seq /\ e.seq <= feed[r].cursor}

\* A reader that follows one attempt misses none of its events: claim,
\* heartbeats, checkpoints and outcome, although their transactions overlap
\* others and page limits cut the answers.
AttemptFeedComplete ==
    \A r \in Reader : Follows[r].attempt # All => Missed(r) = {}

\* Whatever a reader follows, paging itself loses nothing: a request never moves
\* the cursor past an event that is committed and not returned. What a reader of
\* a ticket or a project can miss is an event that was still uncommitted when
\* the cursor passed its number.
PagingLosesNothing ==
    [][\A r \in Reader : feed'[r] # feed[r] => Missed(r)' \subseteq Missed(r)]_vars

\* The events that changed a ticket are numbered in the order they committed, so
\* that the one with the highest number tells the ticket's present status.
MovesInCommitOrder ==
    [][\A e \in events' \ events, f \in events :
          e.kind \in TicketRow /\ f.kind \in TicketRow /\ e.ticket = f.ticket
          => f.seq < e.seq]_vars

\* A reader that follows an attempt gets every later event of it.
FollowerCatchesUp ==
    \A r \in Reader, n \in 1 .. MaxSeq :
        Follows[r].attempt # All =>
            ((\E e \in events : e.seq = n /\ Matches(r, e) /\ feed[r].cursor # 0 /\ feed[r].first <= n)
             ~> (\E e \in feed[r].seen : e.seq = n))
=============================================================================
