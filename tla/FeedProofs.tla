----------------------------- MODULE FeedProofs -----------------------------
(***************************************************************************)
(* Theorems about EventFeed for any number of tickets, attempts, writers   *)
(* and readers, and any page size.                                         *)
(***************************************************************************)
EXTENDS EventFeed, FiniteSetTheorems, WellFoundedInduction, TLAPS

Row(e) == e \in Event /\ e.seq # 0 /\ (e.kind \in AttemptRow <=> e.attempt \in Attempt)

\* Numbers start at one, an event names an attempt exactly when its writer held
\* the attempt's row, and there are finitely many events.
RowInv ==
    /\ nextSeq # 0
    /\ IsFiniteSet(events)
    /\ \A e \in events : Row(e)
    /\ \A w \in Writer : Busy(w) => Row(writer[w])

\* An attempt that is running, or that a transaction writes about, was created.
SpentInv ==
    /\ \A t \in Ticket : work[t] \in spent \cup {NoAttempt}
    /\ \A w \in Writer : writer[w].kind \in AttemptRow => writer[w].attempt \in spent

\* A row is locked by one transaction.
LockInv ==
    \A v, w \in Writer :
        /\ writer[v].kind \in TicketRow /\ writer[w].kind \in TicketRow
           /\ writer[v].ticket = writer[w].ticket => v = w
        /\ writer[v].kind \in AttemptRow /\ writer[w].kind \in AttemptRow
           /\ writer[v].attempt = writer[w].attempt => v = w

\* The transaction that holds a row's lock has drawn a higher number than every
\* committed event of that row.
DrawnInv ==
    \A w \in Writer, e \in events :
        /\ writer[w].kind \in TicketRow /\ e.kind \in TicketRow
           /\ writer[w].ticket = e.ticket => e.seq < writer[w].seq
        /\ writer[w].kind \in AttemptRow /\ e.kind \in AttemptRow
           /\ writer[w].attempt = e.attempt => e.seq < writer[w].seq

\* A cursor is the number of an event the reader got and asked for.
CursorInv ==
    \A r \in Reader :
        feed[r].cursor # 0 => \E e \in feed[r].seen : Matches(r, e) /\ e.seq = feed[r].cursor

FeedInv ==
    /\ TypeOK
    /\ RowInv
    /\ SpentInv
    /\ LockInv
    /\ DrawnInv
    /\ CursorInv
    /\ AttemptFeedComplete

-----------------------------------------------------------------------------
\* Pages.

\* What LIMIT cuts off comes after what it keeps.
LEMMA OldestIsPrefix ==
    ASSUME NEW rows, IsFiniteSet(rows), \A e \in rows : e.seq \in Nat,
           NEW e \in rows, NEW f \in Oldest(rows), e.seq <= f.seq
    PROVE  e \in Oldest(rows)
<1> DEFINE below(x) == {g \in rows : g.seq < x.seq}
<1>1. f \in rows /\ Cardinality(below(f)) < Limit
    BY DEF Oldest
<1>2. below(e) \in SUBSET below(f)
    BY <1>1
<1>3. IsFiniteSet(below(f)) /\ IsFiniteSet(below(e))
    BY FS_Subset
<1>4. Cardinality(below(e)) <= Cardinality(below(f))
    BY <1>2, <1>3, FS_Subset
<1>5. Cardinality(below(e)) \in Nat /\ Cardinality(below(f)) \in Nat
    BY <1>3, FS_CardinalityType
<1>6. Cardinality(below(e)) < Limit
    BY <1>1, <1>4, <1>5, FeedAssumption
<1> QED
    BY <1>6 DEF Oldest

LEMMA NewestIsSuffix ==
    ASSUME NEW rows, IsFiniteSet(rows), \A e \in rows : e.seq \in Nat,
           NEW e \in rows, NEW f \in Newest(rows), f.seq <= e.seq
    PROVE  e \in Newest(rows)
<1> DEFINE above(x) == {g \in rows : g.seq > x.seq}
<1>1. f \in rows /\ Cardinality(above(f)) < Limit
    BY DEF Newest
<1>2. above(e) \in SUBSET above(f)
    BY <1>1
<1>3. IsFiniteSet(above(f)) /\ IsFiniteSet(above(e))
    BY FS_Subset
<1>4. Cardinality(above(e)) <= Cardinality(above(f))
    BY <1>2, <1>3, FS_Subset
<1>5. Cardinality(above(e)) \in Nat /\ Cardinality(above(f)) \in Nat
    BY <1>3, FS_CardinalityType
<1>6. Cardinality(above(e)) < Limit
    BY <1>1, <1>4, <1>5, FeedAssumption
<1> QED
    BY <1>6 DEF Newest

\* The reader's entry after a page.
LEMMA TakeEffect ==
    ASSUME TypeOK, NEW r \in Reader, NEW page, Take(r, page)
    PROVE  \E last, first \in page :
              /\ \A e \in page : first.seq <= e.seq /\ e.seq <= last.seq
              /\ feed'[r].cursor = last.seq
              /\ feed'[r].first = IF feed[r].cursor = 0 THEN first.seq ELSE feed[r].first
              /\ feed'[r].seen = feed[r].seen \cup page
              /\ \A q \in Reader : q # r => feed'[q] = feed[q]
BY DEF Take, TypeOK

\* A request adds nothing to what its reader has missed.
LEMMA ListEventsMisses ==
    ASSUME FeedInv, NEW r \in Reader, ListEvents(r)
    PROVE  Missed(r)' \subseteq Missed(r)
<1> USE DEF FeedInv
<1>0. /\ UNCHANGED events
      /\ \A e \in events : e.seq \in Nat /\ e.seq # 0
      /\ feed[r].cursor \in Nat
    BY DEF ListEvents, TypeOK, RowInv, Row, Event
<1> SUFFICES ASSUME NEW e \in Missed(r)', e \notin Missed(r) PROVE FALSE
    OBVIOUS
<1>1. /\ e \in events /\ e \notin feed'[r].seen
      /\ Matches(r, e)
      /\ feed'[r].first <= e.seq /\ e.seq <= feed'[r].cursor
    BY <1>0 DEF Missed, Matches
<1>2. CASE feed[r].cursor = 0
  <2> DEFINE rows == {x \in events : Matches(r, x)}
  <2>0. Take(r, Newest(rows))
      BY <1>2 DEF ListEvents, ListRecentTicketEvents
  <2>1. PICK last \in Newest(rows), first \in Newest(rows) :
            /\ feed'[r].first = first.seq
            /\ Newest(rows) \subseteq feed'[r].seen
    <3> DEFINE page == Newest(rows)
    <3> HIDE DEF page
    <3>1. Take(r, page)
        BY <2>0 DEF page
    <3>2. \E last, first \in page :
             /\ feed'[r].first = first.seq
             /\ page \subseteq feed'[r].seen
        BY <1>2, <3>1, TakeEffect
    <3> QED
        BY <3>2 DEF page
  <2>2. IsFiniteSet(rows) /\ e \in rows
      BY <1>1, FS_Subset DEF RowInv
  <2>3. e \in Newest(rows)
      BY <1>0, <1>1, <2>1, <2>2, NewestIsSuffix
  <2> QED
      BY <1>1, <2>1, <2>3
<1>3. CASE feed[r].cursor # 0
  <2> DEFINE rows == {x \in events : Matches(r, x) /\ x.seq > feed[r].cursor}
  <2>0. Take(r, Oldest(rows))
      BY <1>3 DEF ListEvents, ListTicketEventsAfterCursor
  <2>1. PICK last \in Oldest(rows), first \in Oldest(rows) :
            /\ feed'[r].first = feed[r].first
            /\ feed'[r].cursor = last.seq
            /\ feed'[r].seen = feed[r].seen \cup Oldest(rows)
    <3> DEFINE page == Oldest(rows)
    <3> HIDE DEF page
    <3>1. Take(r, page)
        BY <2>0 DEF page
    <3>2. \E last, first \in page :
             /\ feed'[r].first = feed[r].first
             /\ feed'[r].cursor = last.seq
             /\ feed'[r].seen = feed[r].seen \cup page
        BY <1>3, <3>1, TakeEffect
    <3> QED
        BY <3>2 DEF page
  <2>2. IsFiniteSet(rows)
      BY FS_Subset DEF RowInv
  <2>3. CASE e.seq > feed[r].cursor
    <3>1. e \in Oldest(rows)
        BY <1>0, <1>1, <2>1, <2>2, <2>3, OldestIsPrefix
    <3> QED
        BY <1>1, <2>1, <3>1
  <2>4. CASE e.seq <= feed[r].cursor
      BY <1>1, <2>1, <2>4 DEF Missed
  <2> QED
      BY <1>0, <1>1, <2>3, <2>4
<1> QED
    BY <1>2, <1>3

-----------------------------------------------------------------------------
\* The invariant, one lemma per kind of step.

LEMMA FeedInit == Init => FeedInv
<1> SUFFICES ASSUME Init PROVE FeedInv
    OBVIOUS
<1>1. TypeOK
    BY DEF Init, TypeOK, Idle, Busy
<1>2. RowInv
    BY FS_EmptySet DEF Init, RowInv, Busy, Idle
<1>3. SpentInv /\ LockInv /\ DrawnInv
    BY DEF Init, SpentInv, LockInv, DrawnInv, Idle, TicketRow, AttemptRow
<1>4. CursorInv /\ AttemptFeedComplete
    BY DEF Init, CursorInv, AttemptFeedComplete, Missed
<1> QED
    BY <1>1, <1>2, <1>3, <1>4 DEF FeedInv

\* Inserting an event under the lock its kind calls for.
LEMMA InsertKeepsInv ==
    ASSUME FeedInv, NEW w \in Writer, NEW kind \in Kind, NEW t \in Ticket,
           NEW a \in Attempt \cup {NoAttempt},
           CreateTicketEvent(w, kind, t, a),
           spent' \subseteq Attempt, spent \subseteq spent',
           kind \in TicketRow => TicketFree(t),
           kind \in AttemptRow => AttemptFree(a) /\ a \in spent',
           kind \in AttemptRow <=> a \in Attempt
    PROVE  FeedInv'
<1> USE DEF FeedInv
<1> DEFINE new == [kind |-> kind, ticket |-> t, attempt |-> a, seq |-> nextSeq]
<1>1. /\ new \in Event /\ new.seq = nextSeq /\ new.kind = kind
      /\ new.ticket = t /\ new.attempt = a
    BY DEF Event, TypeOK
<1>2. /\ writer' = [writer EXCEPT ![w] = new]
      /\ nextSeq' = nextSeq + 1
      /\ UNCHANGED <<work, events, feed>>
    BY DEF CreateTicketEvent
<1> HIDE DEF new
<1>3. /\ writer'[w] = new
      /\ \A v \in Writer : v # w => writer'[v] = writer[v]
    BY <1>2 DEF TypeOK
<1>4. TypeOK'
  <2>1. writer' \in [Writer -> Event \cup {Idle}]
      BY <1>1, <1>2 DEF TypeOK
  <2>2. \A v \in Writer : Busy(v)' => writer'[v].seq < nextSeq'
    <3>1. \A v \in Writer : writer[v].kind # "idle" => writer[v].seq < nextSeq /\ writer[v].seq \in Nat
        BY DEF TypeOK, Busy, Event, Idle
    <3> QED
        BY <1>1, <1>2, <1>3, <3>1 DEF TypeOK, Busy
  <2>3. \A e \in events : e.seq < nextSeq'
      BY <1>2 DEF TypeOK, Event
  <2> QED
      BY <1>2, <2>1, <2>2, <2>3 DEF TypeOK
<1>5. RowInv'
  <2>1. Row(new)
      BY <1>1 DEF Row, RowInv, TypeOK
  <2> QED
      BY <1>2, <1>3, <2>1 DEF RowInv, Busy, TypeOK, Row
<1>6. SpentInv'
    BY <1>1, <1>2, <1>3 DEF SpentInv
<1>7. LockInv'
    BY <1>1, <1>3 DEF LockInv, TicketFree, AttemptFree
<1>8. DrawnInv'
    BY <1>1, <1>2, <1>3 DEF DrawnInv, TypeOK
<1>9. CursorInv' /\ AttemptFeedComplete'
    BY <1>2 DEF CursorInv, AttemptFeedComplete, Missed, Matches
<1> QED
    BY <1>4, <1>5, <1>6, <1>7, <1>8, <1>9

LEMMA WriteKeepsInv ==
    ASSUME FeedInv, NEW w \in Writer, NEW t \in Ticket,
           \/ TransitionTicket(w, t)
           \/ UpdateTicket(w, t)
           \/ RefineProposedTicket(w, t)
           \/ \E a \in Attempt :
                 ClaimNextTicket(w, t, a) \/ Progress(w, t, a) \/ Outcome(w, t, a)
    PROVE  FeedInv'
<1> USE FeedAssumption
<1>0. spent \subseteq Attempt
    BY DEF FeedInv, TypeOK
<1>1. CASE TransitionTicket(w, t)
    BY <1>0, <1>1, InsertKeepsInv DEF TransitionTicket, Kind, TicketRow, AttemptRow
<1>2. CASE UpdateTicket(w, t)
    BY <1>0, <1>2, InsertKeepsInv DEF UpdateTicket, Kind, TicketRow, AttemptRow
<1>3. CASE RefineProposedTicket(w, t)
    BY <1>0, <1>3, InsertKeepsInv DEF RefineProposedTicket, Kind, TicketRow, AttemptRow
<1>4. ASSUME NEW a \in Attempt, ClaimNextTicket(w, t, a) PROVE FeedInv'
  <2>1. AttemptFree(a)
      BY <1>4 DEF ClaimNextTicket, AttemptFree, FeedInv, SpentInv
  <2> QED
      BY <1>0, <1>4, <2>1, InsertKeepsInv DEF ClaimNextTicket, Kind, TicketRow, AttemptRow
<1>5. ASSUME NEW a \in Attempt, Progress(w, t, a) \/ Outcome(w, t, a) PROVE FeedInv'
  <2>1. a \in spent
      BY <1>5 DEF Progress, Outcome, FeedInv, SpentInv
  <2>2. CASE Progress(w, t, a)
      BY <1>0, <2>1, <2>2, InsertKeepsInv DEF Progress, Kind, TicketRow, AttemptRow
  <2>3. CASE Outcome(w, t, a)
      BY <1>0, <2>1, <2>3, InsertKeepsInv DEF Outcome, Kind, TicketRow, AttemptRow
  <2> QED
      BY <1>5, <2>2, <2>3
<1> QED
    BY <1>1, <1>2, <1>3, <1>4, <1>5

\* A commit publishes a number above every event of the row, and so above the
\* cursor of every reader that follows the attempt.
LEMMA CommitKeepsInv ==
    ASSUME FeedInv, NEW w \in Writer, Commit(w)
    PROVE  FeedInv'
<1> USE DEF FeedInv
<1> DEFINE new == writer[w]
<1>1. /\ new \in Event /\ new.seq < nextSeq /\ Row(new)
      /\ new.seq \in Nat /\ new.kind \in Kind
    BY DEF Commit, TypeOK, Busy, RowInv, Event, Idle
<1>2. /\ events' = events \cup {new}
      /\ writer' = [writer EXCEPT ![w] = Idle]
      /\ UNCHANGED <<spent, nextSeq, feed>>
    BY DEF Commit
<1>3. /\ writer'[w] = Idle
      /\ \A v \in Writer : v # w => writer'[v] = writer[v]
    BY <1>2 DEF TypeOK
<1>w. /\ work' \in [Ticket -> Attempt \cup {NoAttempt}]
      /\ \A t \in Ticket : work'[t] \in spent \cup {NoAttempt}
  <2> DEFINE to == CASE new.kind = "claimed" -> new.attempt
                     [] new.kind = "outcome" -> NoAttempt
                     [] OTHER -> work[new.ticket]
  <2>1. work' = [work EXCEPT ![new.ticket] = to]
      BY DEF Commit
  <2>2. to \in spent \cup {NoAttempt}
      BY <1>1 DEF SpentInv, AttemptRow, Event
  <2> HIDE DEF to
  <2> QED
      BY <2>1, <2>2 DEF SpentInv, TypeOK
<1> HIDE DEF new
<1>4. TypeOK'
  <2>1. writer' \in [Writer -> Event \cup {Idle}]
      BY <1>2 DEF TypeOK
  <2>2. \A v \in Writer : Busy(v)' => writer'[v].seq < nextSeq'
      BY <1>2, <1>3 DEF TypeOK, Busy, Idle
  <2>3. feed' \in [Reader -> [cursor : Nat, first : Nat, seen : SUBSET events']]
    <3>1. [cursor : Nat, first : Nat, seen : SUBSET events]
             \subseteq [cursor : Nat, first : Nat, seen : SUBSET events']
        BY <1>2
    <3> QED
        BY <1>2, <3>1 DEF TypeOK
  <2> QED
      BY <1>1, <1>2, <1>w, <2>1, <2>2, <2>3 DEF TypeOK
<1>5. RowInv'
  <2>1. IsFiniteSet(events')
      BY <1>2, FS_AddElement DEF RowInv
  <2>2. \A v \in Writer : Busy(v)' => Row(writer'[v])
      BY <1>3 DEF RowInv, Busy, Idle
  <2> QED
      BY <1>1, <1>2, <2>1, <2>2 DEF RowInv, Row
<1>6. SpentInv'
    BY <1>2, <1>3, <1>w DEF SpentInv, Idle, AttemptRow
<1>7. LockInv'
    BY <1>3 DEF LockInv, Idle, TicketRow, AttemptRow
<1>8. DrawnInv'
  <2> SUFFICES ASSUME NEW v \in Writer, v # w, NEW e \in events'
               PROVE  /\ writer[v].kind \in TicketRow /\ e.kind \in TicketRow
                         /\ writer[v].ticket = e.ticket => e.seq < writer[v].seq
                      /\ writer[v].kind \in AttemptRow /\ e.kind \in AttemptRow
                         /\ writer[v].attempt = e.attempt => e.seq < writer[v].seq
      BY <1>3 DEF DrawnInv, Idle, TicketRow, AttemptRow
  <2>1. CASE e \in events
      BY <2>1 DEF DrawnInv
  <2>2. CASE e = new
      BY <2>2 DEF LockInv, new
  <2> QED
      BY <1>2, <2>1, <2>2
<1>9. CursorInv'
    BY <1>2 DEF CursorInv, Matches
<1>10. AttemptFeedComplete'
  <2> SUFFICES ASSUME NEW r \in Reader, Follows[r].attempt # All, NEW e \in Missed(r)'
               PROVE  FALSE
      BY DEF AttemptFeedComplete
  <2>1. e \notin events
      BY <1>2 DEF AttemptFeedComplete, Missed, Matches
  <2>2. e = new /\ Matches(r, new) /\ new.seq <= feed[r].cursor
      BY <1>2, <2>1 DEF Missed, Matches
  <2>3. new.attempt \in Attempt /\ new.kind \in AttemptRow
      BY <1>1, <2>2, FeedAssumption DEF Matches, Row
  <2>4. feed[r].cursor # 0 /\ feed[r].cursor \in Nat
      BY <1>1, <2>2 DEF Row, TypeOK
  <2>5. PICK f \in feed[r].seen : Matches(r, f) /\ f.seq = feed[r].cursor
      BY <2>4 DEF CursorInv
  <2>6. f \in events
      BY <2>5 DEF TypeOK
  <2>7. f.attempt = new.attempt /\ f.kind \in AttemptRow
      BY <2>2, <2>3, <2>5, <2>6 DEF Matches, RowInv, Row
  <2>8. f.seq < new.seq
      BY <2>3, <2>6, <2>7 DEF DrawnInv, new
  <2> QED
      BY <1>1, <2>2, <2>4, <2>5, <2>8
<1> QED
    BY <1>4, <1>5, <1>6, <1>7, <1>8, <1>9, <1>10

LEMMA RollbackKeepsInv ==
    ASSUME FeedInv, NEW w \in Writer, Rollback(w)
    PROVE  FeedInv'
<1> USE DEF FeedInv
<1>1. /\ writer' = [writer EXCEPT ![w] = Idle]
      /\ UNCHANGED <<work, spent, events, nextSeq, feed>>
    BY DEF Rollback
<1>2. /\ writer'[w] = Idle
      /\ \A v \in Writer : v # w => writer'[v] = writer[v]
    BY <1>1 DEF TypeOK
<1>3. TypeOK'
    BY <1>1, <1>2 DEF TypeOK, Busy, Idle
<1>4. RowInv'
    BY <1>1, <1>2 DEF RowInv, Busy, Idle, Row
<1>5. SpentInv' /\ LockInv' /\ DrawnInv'
    BY <1>1, <1>2 DEF SpentInv, LockInv, DrawnInv, Idle, TicketRow, AttemptRow
<1>6. CursorInv' /\ AttemptFeedComplete'
    BY <1>1 DEF CursorInv, AttemptFeedComplete, Missed, Matches
<1> QED
    BY <1>3, <1>4, <1>5, <1>6

LEMMA ListEventsKeepsInv ==
    ASSUME FeedInv, NEW r \in Reader, ListEvents(r)
    PROVE  FeedInv'
<1> USE DEF FeedInv
<1> DEFINE page == IF feed[r].cursor = 0 THEN ListRecentTicketEvents(r)
                   ELSE ListTicketEventsAfterCursor(r)
<1>1. Take(r, page) /\ UNCHANGED <<writer, work, spent, events, nextSeq>>
    BY DEF ListEvents
<1>2. page \subseteq events /\ \A e \in page : Matches(r, e)
    BY DEF ListRecentTicketEvents, ListTicketEventsAfterCursor, Newest, Oldest
<1> HIDE DEF page
<1>3. PICK last \in page, first \in page :
         /\ feed'[r].cursor = last.seq
         /\ feed'[r].seen = feed[r].seen \cup page
         /\ \A q \in Reader : q # r => feed'[q] = feed[q]
    BY <1>1, TakeEffect
<1>4. TypeOK'
  <2>1. feed' \in [Reader -> [cursor : Nat, first : Nat, seen : SUBSET events]]
    <3>1. \A e \in page : e.seq \in Nat
        BY <1>2 DEF TypeOK, Event
    <3> QED
        BY <1>1, <1>2, <3>1 DEF Take, TypeOK
  <2> QED
      BY <1>1, <2>1 DEF TypeOK, Busy
<1>5. RowInv' /\ SpentInv' /\ LockInv' /\ DrawnInv'
    BY <1>1 DEF RowInv, SpentInv, LockInv, DrawnInv, Busy, Row
<1>6. CursorInv'
  <2> SUFFICES ASSUME NEW q \in Reader, feed'[q].cursor # 0
               PROVE  \E e \in feed'[q].seen : Matches(q, e) /\ e.seq = feed'[q].cursor
      BY DEF CursorInv, Matches
  <2>1. CASE q = r
      BY <1>2, <1>3, <2>1
  <2>2. CASE q # r
      BY <1>3, <2>2 DEF CursorInv
  <2> QED
      BY <2>1, <2>2
<1>7. AttemptFeedComplete'
  <2> SUFFICES ASSUME NEW q \in Reader, Follows[q].attempt # All
               PROVE  Missed(q)' = {}
      BY DEF AttemptFeedComplete
  <2>1. CASE q = r
      BY <2>1, ListEventsMisses DEF AttemptFeedComplete
  <2>2. CASE q # r
      BY <1>1, <1>3, <2>2 DEF AttemptFeedComplete, Missed, Matches
  <2> QED
      BY <2>1, <2>2
<1> QED
    BY <1>4, <1>5, <1>6, <1>7

LEMMA FeedStep == FeedInv /\ [Next]_vars => FeedInv'
<1> SUFFICES ASSUME FeedInv, [Next]_vars PROVE FeedInv'
    OBVIOUS
<1>1. CASE UNCHANGED vars
    BY <1>1 DEF vars, FeedInv, TypeOK, RowInv, Row, SpentInv, LockInv, DrawnInv, CursorInv,
                AttemptFeedComplete, Missed, Matches, Busy
<1>2. CASE Next
    BY <1>2, WriteKeepsInv, CommitKeepsInv, RollbackKeepsInv, ListEventsKeepsInv DEF Next
<1> QED
    BY <1>1, <1>2

LEMMA FeedInvariant == Spec => []FeedInv
BY FeedInit, FeedStep, PTL DEF Spec

-----------------------------------------------------------------------------

\* Type correctness of the event ledger and its readers.
THEOREM FeedTypeCorrect == Spec => []TypeOK
<1>1. FeedInv => TypeOK
    BY DEF FeedInv
<1> QED
    BY <1>1, FeedInvariant, PTL

\* A reader that follows one attempt misses none of its events, for any number of
\* overlapping transactions.
THEOREM AttemptFeedCompleteHolds == Spec => []AttemptFeedComplete
<1>1. FeedInv => AttemptFeedComplete
    BY DEF FeedInv
<1> QED
    BY <1>1, FeedInvariant, PTL

\* The events that changed a ticket carry numbers in commit order.
THEOREM MovesInCommitOrderHolds == Spec => MovesInCommitOrder
<1>1. FeedInv /\ [Next]_vars =>
         [\A e \in events' \ events, f \in events :
             e.kind \in TicketRow /\ f.kind \in TicketRow /\ e.ticket = f.ticket
             => f.seq < e.seq]_vars
  <2> SUFFICES ASSUME FeedInv, Next, NEW e \in events' \ events, NEW f \in events,
                      e.kind \in TicketRow, f.kind \in TicketRow, e.ticket = f.ticket
               PROVE  f.seq < e.seq
      OBVIOUS
  <2>1. PICK w \in Writer : Commit(w)
      BY DEF Next, TransitionTicket, UpdateTicket, RefineProposedTicket, ClaimNextTicket,
             Progress, Outcome, CreateTicketEvent, Rollback, ListEvents
  <2>2. e = writer[w]
      BY <2>1 DEF Commit
  <2> QED
      BY <2>2 DEF FeedInv, DrawnInv
<1> QED
    BY <1>1, FeedInvariant, PTL DEF Spec, MovesInCommitOrder

\* No request moves a cursor past a committed event it does not return.
THEOREM PagingLosesNothingHolds == Spec => PagingLosesNothing
<1>1. FeedInv /\ [Next]_vars =>
         [\A r \in Reader : feed'[r] # feed[r] => Missed(r)' \subseteq Missed(r)]_vars
  <2> SUFFICES ASSUME FeedInv, Next, NEW r \in Reader, feed'[r] # feed[r]
               PROVE  Missed(r)' \subseteq Missed(r)
      OBVIOUS
  <2>1. PICK q \in Reader : ListEvents(q)
      BY DEF Next, TransitionTicket, UpdateTicket, RefineProposedTicket, ClaimNextTicket,
             Progress, Outcome, CreateTicketEvent, Rollback, Commit
  <2>2. q = r
      BY <2>1 DEF ListEvents, Take, FeedInv, TypeOK
  <2> QED
      BY <2>1, <2>2, ListEventsMisses
<1> QED
    BY <1>1, FeedInvariant, PTL DEF Spec, PagingLosesNothing

-----------------------------------------------------------------------------
\* Polling.

\* The least natural number of a set.
LEMMA LeastNumber ==
    ASSUME NEW N \in SUBSET Nat, N # {}
    PROVE  \E m \in N : \A n \in N : m <= n
<1> DEFINE Less == {ss \in Nat \X Nat : ss[1] < ss[2]}
<1>1. IsWellFoundedOn(Less, Nat)
    BY NatLessThanWellFounded DEF OpToRel
<1>2. PICK m \in N : \A n \in N : ~(<<n, m>> \in Less)
    BY <1>1, WFMin
<1>3. ASSUME NEW n \in N PROVE m <= n
  <2>1. m \in Nat /\ n \in Nat /\ <<n, m>> \in Nat \X Nat
    OBVIOUS
  <2>2. <<n, m>>[1] = n /\ <<n, m>>[2] = m
    OBVIOUS
  <2>3. ~(n < m)
    BY <1>2, <2>1, <2>2
  <2> QED BY <2>1, <2>3
<1> QED BY <1>3

\* A finite set of numbered rows has a first and a last one.
LEMMA FirstAndLast ==
    ASSUME NEW rows, rows # {}, NEW bound \in Nat, \A e \in rows : e.seq \in Nat /\ e.seq < bound
    PROVE  \E first, last \in rows : \A e \in rows : first.seq <= e.seq /\ e.seq <= last.seq
<1> DEFINE up == {e.seq : e \in rows}
           down == {bound - e.seq : e \in rows}
<1>1. up \in SUBSET Nat /\ up # {} /\ down \in SUBSET Nat /\ down # {}
    OBVIOUS
<1>2. (\E m \in up : \A n \in up : m <= n) /\ (\E m \in down : \A n \in down : m <= n)
  <2> HIDE DEF up, down
  <2> QED BY <1>1, LeastNumber
<1>3. PICK first \in rows : \A e \in rows : first.seq <= e.seq
    BY <1>2
<1>4. PICK last \in rows : \A e \in rows : bound - last.seq <= bound - e.seq
    BY <1>2
<1>5. \A e \in rows : e.seq <= last.seq
    BY <1>4
<1> QED BY <1>3, <1>5

\* As long as a committed event lies behind a reader's cursor, its next request
\* returns a page to take, which begins no later than with that event.
PollMovesOn ==
    \A r \in Reader, e \in events :
        Matches(r, e) /\ feed[r].cursor < e.seq =>
            \E first, last \in ListTicketEventsAfterCursor(r) :
                /\ feed[r].cursor < first.seq /\ first.seq <= e.seq
                /\ \A f \in ListTicketEventsAfterCursor(r) : first.seq <= f.seq /\ f.seq <= last.seq

\* For any page size, transactions and readers, polling never comes to a halt before
\* the end of the feed (ListTicketEventsAfterCursor): each page brings the cursor nearer.
THEOREM PollMovesOnHolds == Spec => []PollMovesOn
<1>1. FeedInv => PollMovesOn
  <2> SUFFICES ASSUME FeedInv, NEW r \in Reader, NEW e \in events, Matches(r, e), feed[r].cursor < e.seq
               PROVE  \E first, last \in ListTicketEventsAfterCursor(r) :
                          /\ feed[r].cursor < first.seq /\ first.seq <= e.seq
                          /\ \A f \in ListTicketEventsAfterCursor(r) : first.seq <= f.seq /\ f.seq <= last.seq
    BY DEF PollMovesOn
  <2> DEFINE rows == {f \in events : Matches(r, f) /\ f.seq > feed[r].cursor}
             page == ListTicketEventsAfterCursor(r)
  <2>1. /\ nextSeq \in Nat /\ feed[r].cursor \in Nat
        /\ \A f \in events : f.seq \in Nat /\ f.seq < nextSeq
    BY DEF FeedInv, TypeOK, Event
  <2>2. e \in rows /\ \A f \in rows : f.seq \in Nat /\ f.seq < nextSeq /\ feed[r].cursor < f.seq
    BY <2>1
  <2>3. page = Oldest(rows)
    BY DEF ListTicketEventsAfterCursor
  <2> HIDE DEF rows, page
  <2>4. PICK start \in rows : \A f \in rows : start.seq <= f.seq
    BY <2>1, <2>2, FirstAndLast
  <2>5. start \in page
    <3>1. {f \in rows : f.seq < start.seq} = {}
      BY <2>2, <2>4
    <3> QED BY <2>3, <3>1, FS_EmptySet, FeedAssumption DEF Oldest
  <2>6. page \subseteq rows
    BY <2>3 DEF Oldest
  <2>7. PICK first \in page, last \in page : \A f \in page : first.seq <= f.seq /\ f.seq <= last.seq
    <3>1. page # {} /\ \A f \in page : f.seq \in Nat /\ f.seq < nextSeq
      BY <2>2, <2>5, <2>6
    <3> QED BY <2>1, <3>1, FirstAndLast
  <2>8. first.seq <= start.seq /\ start.seq <= e.seq /\ feed[r].cursor < first.seq
    BY <2>2, <2>4, <2>5, <2>6, <2>7
  <2>9. first.seq <= e.seq
    BY <2>2, <2>6, <2>8
  <2> QED BY <2>7, <2>8, <2>9 DEF page
<1> QED BY <1>1, FeedInvariant, PTL
=============================================================================
