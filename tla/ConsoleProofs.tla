--------------------------- MODULE ConsoleProofs ---------------------------
(***************************************************************************)
(* Theorems about the two consoles over one ticket history, for any number *)
(* of tickets, tabs, rows and commands in flight.                          *)
(***************************************************************************)
EXTENDS Consoles, SequenceTheorems, FiniteSetTheorems, WellFoundedInduction, TLAPS

-----------------------------------------------------------------------------
(* The history.                                                            *)

\* A ticket has a history from its creation on.
HistoryInv ==
    /\ DOMAIN history = Ticket
    /\ \A t \in Ticket : /\ history[t] \in Seq(Entry)
                         /\ Len(history[t]) \in 1 .. MaxEvents

\* A step leaves what was recorded alone and may record more.
Grows ==
    \A t \in Ticket : /\ Len(history[t]) <= Len(history'[t])
                      /\ \A i \in 1 .. Len(history[t]) : history'[t][i] = history[t][i]

LEMMA LeastNatural ==
    ASSUME NEW S \in SUBSET Nat, S # {}
    PROVE  \E m \in S : \A n \in S : m <= n
<1> DEFINE Less == {ss \in Nat \X Nat : ss[1] < ss[2]}
<1>1. IsWellFoundedOn(Less, Nat)
    BY NatLessThanWellFounded DEF OpToRel
<1>2. PICK m \in S : \A n \in S : ~(<<n, m>> \in Less)
    BY <1>1, WFMin
<1>3. ASSUME NEW n \in S PROVE m <= n
  <2>1. m \in Nat /\ n \in Nat /\ <<n, m>> \in Nat \X Nat
    OBVIOUS
  <2>2. <<n, m>>[1] = n /\ <<n, m>>[2] = m
    OBVIOUS
  <2>3. ~(n < m)
    BY <1>2, <2>1, <2>2
  <2> QED BY <2>1, <2>3
<1> QED BY <1>3

LEMMA HistoryInitInv == HistoryInit => HistoryInv
<1> SUFFICES ASSUME HistoryInit, NEW t \in Ticket
             PROVE  history[t] \in Seq(Entry) /\ Len(history[t]) \in 1 .. MaxEvents
    BY DEF HistoryInit, HistoryInv
<1>1. PICK s \in {"backlog", "todo"} : history[t] = <<[status |-> s, metrics |-> FALSE]>>
    BY DEF HistoryInit
<1>2. [status |-> s, metrics |-> FALSE] \in Entry
    BY DEF Entry, Status
<1> QED BY <1>1, <1>2, HistoryAssumption

LEMMA RecordGrows ==
    ASSUME HistoryInv, NEW t \in Ticket, NEW s \in Status, NEW m \in BOOLEAN, Record(t, s, m)
    PROVE  HistoryInv' /\ Grows /\ Len(history'[t]) = Len(history[t]) + 1
<1> DEFINE e == [status |-> s, metrics |-> m]
<1>1. e \in Entry
    BY DEF Entry
<1>2. history[t] \in Seq(Entry) /\ Len(history[t]) \in Nat /\ Len(history[t]) >= 1
    BY DEF HistoryInv
<1>3. DOMAIN history' = Ticket /\ history'[t] = Append(history[t], e)
    /\ \A x \in Ticket \ {t} : history'[x] = history[x]
    BY DEF Record, HistoryInv
<1> HIDE DEF e
<1>4. /\ Append(history[t], e) \in Seq(Entry)
      /\ Len(Append(history[t], e)) = Len(history[t]) + 1
      /\ \A i \in 1 .. Len(history[t]) : Append(history[t], e)[i] = history[t][i]
    BY <1>1, <1>2, AppendProperties
<1>5. HistoryInv'
  <2> SUFFICES ASSUME NEW x \in Ticket
               PROVE  history'[x] \in Seq(Entry) /\ Len(history'[x]) \in 1 .. MaxEvents
    BY <1>3 DEF HistoryInv
  <2>1. CASE x = t
    BY <2>1, <1>2, <1>3, <1>4, HistoryAssumption DEF Record
  <2>2. CASE x # t
    BY <2>2, <1>3 DEF HistoryInv
  <2> QED BY <2>1, <2>2
<1>6. Grows
  <2> SUFFICES ASSUME NEW x \in Ticket
               PROVE  /\ Len(history[x]) <= Len(history'[x])
                      /\ \A i \in 1 .. Len(history[x]) : history'[x][i] = history[x][i]
    BY DEF Grows
  <2>1. CASE x = t
    BY <2>1, <1>2, <1>3, <1>4
  <2>2. CASE x # t
    BY <2>2, <1>3 DEF HistoryInv
  <2> QED BY <2>1, <2>2
<1> QED BY <1>3, <1>4, <1>5, <1>6

LEMMA SameGrows == HistoryInv /\ UNCHANGED history => HistoryInv' /\ Grows
BY DEF HistoryInv, Grows

LEMMA ElsewhereGrows ==
    ASSUME HistoryInv, NEW t \in Ticket, Elsewhere(t)
    PROVE  HistoryInv' /\ Grows
<1>1. PICK s \in Status, m \in BOOLEAN : Record(t, s, m)
    BY DEF Elsewhere, Transition, Review, Claim, Finish, Lose, TargetStatus, TicketAction, Status
<1> QED BY <1>1, RecordGrows

-----------------------------------------------------------------------------
(* The terminal.                                                           *)

\* The list is empty until it has been loaded, and what a filter matches are rows of
\* the list.
ListInv ==
    /\ mode = "loading" => tickets = <<>>
    /\ filter \in Seq(SUBSET DOMAIN tickets)

\* Every command in flight has its own number, and the detail on the screen answers a
\* command that is not in flight any more. Nothing was read from the future.
LoadsInv ==
    /\ \A l \in loads : l.seq # detail.seq
    /\ \A k, l \in loads : k.seq = l.seq => k = l
    /\ \A l \in loads, i \in 1 .. 4 : l.seen[i] <= Len(history[l.ticket])

DetailInv ==
    /\ detail.seq \in Nat /\ detail.seq <= detailSeq
    /\ detail.seq = 0 => ~showDetail /\ detail.seen = Unread
    /\ detail.seq > 0 =>
          detail \in Load /\ \A i \in 1 .. 4 : detail.seen[i] <= Len(history[detail.ticket])
    /\ showDetail => detail.ticket = detailTicket

\* What a later command for the same ticket has read so far is no older than the
\* detail on the screen.
LaterInv ==
    \A l \in loads :
        l.seq > detail.seq /\ l.ticket = detail.ticket /\ ~l.err =>
            \A i \in 1 .. l.read : detail.seen[i] <= l.seen[i]

TerminalInv == TerminalTypeOK /\ ListInv /\ LoadsInv /\ DetailInv /\ LaterInv

LEMMA FirstIsARow ==
    ASSUME NEW f \in Seq(SUBSET DOMAIN tickets), tickets \in {<<>>, Queue}
    PROVE  FirstVisibleIndex(f) \in 1 .. Len(tickets) \/ FirstVisibleIndex(f) = 1
<1>1. CASE f = <<>> \/ Matching(f) = {}
    BY <1>1 DEF FirstVisibleIndex
<1>2. CASE f # <<>> /\ Matching(f) # {}
  <2>1. tickets \in Seq(Ticket)
    BY TerminalAssumption, EmptySeq
  <2>2. f[Len(f)] \in SUBSET DOMAIN tickets
    BY <1>2, LenProperties, ElementOfSeq
  <2>3. Matching(f) \subseteq 1 .. Len(tickets)
    BY <1>2, <2>1, <2>2, LenProperties DEF Matching
  <2>4. Matching(f) \in SUBSET Nat
    BY <2>3
  <2>5. \E i \in Matching(f) : \A j \in Matching(f) : i <= j
    BY <1>2, <2>4, LeastNatural
  <2>6. FirstVisibleIndex(f) \in Matching(f)
    BY <1>2, <2>5 DEF FirstVisibleIndex
  <2> QED BY <2>3, <2>6
<1> QED BY <1>1, <1>2

\* The selection is on the screen whatever the height of the window.
LEMMA WindowHoldsSelection ==
    ASSUME selected \in Nat \ {0}, rows \in Nat \ {0}, selected \in Matching(filter)
    PROVE  selected \in VisibleTickets
BY DEF VisibleTickets

LEMMA TerminalInitInv == HistoryInit /\ TerminalInit => TerminalInv
<1> SUFFICES ASSUME HistoryInit, TerminalInit PROVE TerminalInv
    OBVIOUS
<1> USE TerminalAssumption
<1>1. TerminalTypeOK
  <2>1. <<>> \in Seq(SUBSET DOMAIN Queue) /\ Len(<<>>) = 0
    BY EmptySeq
  <2>2. /\ mode = "loading" /\ tickets = <<>> /\ selected = 1 /\ filter = <<>> /\ rows = MinRows
        /\ detailSeq = 0 /\ loads = {} /\ showDetail = FALSE
    BY DEF TerminalInit
  <2>3. rows \in MinRows .. MaxRows /\ detailSeq \in 0 .. MaxOpens /\ ~(detailSeq > 0)
    BY <2>2
  <2>4. /\ tickets \in {<<>>, Queue} /\ ~(tickets # <<>>) /\ mode \in {"loading", "list", "filtering", "over"}
        /\ loads \subseteq Load /\ \A l \in loads : l.seq <= detailSeq
    BY <2>2
  <2>5. showDetail \in BOOLEAN /\ ~showDetail
    BY <2>2
  <2>6. filter \in Seq(SUBSET DOMAIN Queue) /\ Len(filter) <= MaxFilter
    BY <2>1, <2>2
  <2> QED BY <2>2, <2>3, <2>4, <2>5, <2>6, Zenon DEF TerminalTypeOK
<1>2. ListInv
    BY EmptySeq DEF TerminalInit, ListInv
<1>3. LoadsInv
    BY DEF TerminalInit, LoadsInv
<1>4. DetailInv
    BY DEF TerminalInit, DetailInv
<1>5. LaterInv
    BY DEF TerminalInit, LaterInv
<1> QED BY <1>1, <1>2, <1>3, <1>4, <1>5 DEF TerminalInv

\* The parts of TerminalInv about the list, and those about the detail.
ListOK ==
    /\ mode \in {"loading", "list", "filtering", "over"}
    /\ tickets \in {<<>>, Queue}
    /\ selected \in 1 .. Len(tickets) \/ (tickets = <<>> /\ selected = 1)
    /\ filter \in Seq(SUBSET DOMAIN tickets) /\ Len(filter) <= MaxFilter
    /\ rows \in MinRows .. MaxRows
    /\ mode = "loading" => tickets = <<>>

DetailOK ==
    /\ detailSeq \in 0 .. MaxOpens
    /\ loads \subseteq Load /\ \A l \in loads : l.seq <= detailSeq
    /\ showDetail \in BOOLEAN
    /\ detailSeq > 0 => detailTicket \in Ticket
    /\ LoadsInv /\ DetailInv /\ LaterInv

LEMMA TerminalParts == TerminalInv <=> ListOK /\ DetailOK
<1>1. TerminalInv => ListOK /\ DetailOK
    BY DEF TerminalInv, TerminalTypeOK, ListInv, ListOK, DetailOK
<1>2. ASSUME ListOK, DetailOK PROVE TerminalInv
  <2> USE TerminalAssumption
  <2>1. DOMAIN tickets \subseteq DOMAIN Queue
    BY <1>2 DEF ListOK
  <2>2. filter \in Seq(SUBSET DOMAIN Queue)
    BY <1>2, <2>1 DEF ListOK
  <2>3. showDetail => detail \in Load
    BY <1>2 DEF DetailOK, DetailInv, Load
  <2>4. tickets # <<>> /\ selected \in Matching(filter) => selected \in VisibleTickets
    BY <1>2, WindowHoldsSelection DEF ListOK
  <2>5. TerminalTypeOK
    BY <1>2, <2>2, <2>3, <2>4 DEF TerminalTypeOK, ListOK, DetailOK
  <2> QED BY <1>2, <2>5 DEF TerminalInv, ListInv, ListOK, DetailOK
<1> QED BY <1>1, <1>2

LEMMA TerminalPartsNext == ListOK' /\ DetailOK' => TerminalInv'
<1>1. TerminalInv <=> ListOK /\ DetailOK
    BY TerminalParts
<1> QED BY <1>1, PTL

\* A filter that is set leaves the selection on a row.
LEMMA SetFilterOK ==
    ASSUME ListOK, NEW f \in Seq(SUBSET DOMAIN tickets), Len(f) <= MaxFilter, SetFilter(f),
           mode' \in {"list", "filtering"}, mode # "loading", UNCHANGED <<tickets, rows>>
    PROVE  ListOK'
<1>1. FirstVisibleIndex(f) \in 1 .. Len(tickets) \/ FirstVisibleIndex(f) = 1
    BY FirstIsARow DEF ListOK
<1>2. tickets # <<>> => 1 \in 1 .. Len(tickets)
    BY TerminalAssumption DEF ListOK
<1>3. tickets = <<>> => Len(tickets) = 0
    OBVIOUS
<1> QED BY <1>1, <1>2, <1>3 DEF ListOK, SetFilter

LEMMA ListStep == ListOK /\ TerminalNext => ListOK'
<1> SUFFICES ASSUME ListOK, TerminalNext PROVE ListOK'
    OBVIOUS
<1> USE TerminalAssumption
<1>1. ASSUME NEW ok \in BOOLEAN, LoadQueue(ok) PROVE ListOK'
  <2>1. CASE ok
    <3>1. tickets = <<>> /\ selected = 1 /\ tickets' = Queue /\ mode' = "list"
        /\ UNCHANGED <<selected, filter, rows>>
        BY <1>1, <2>1 DEF LoadQueue, ListOK
    <3>2. filter \in Seq(SUBSET DOMAIN Queue)
      <4>1. DOMAIN tickets \subseteq DOMAIN Queue
        BY <3>1
      <4> QED BY <4>1 DEF ListOK
    <3>3. Queue # <<>> => 1 \in 1 .. Len(Queue)
        OBVIOUS
    <3> QED BY <3>1, <3>2, <3>3 DEF ListOK
  <2>2. CASE ~ok
    BY <1>1, <2>2 DEF LoadQueue, ListOK
  <2> QED BY <2>1, <2>2
<1>2. CASE Resize \/ MoveDown \/ MoveUp
    BY <1>2 DEF Resize, MoveDown, MoveUp, Listing, ListOK
<1>3. CASE StartFilter \/ ApplyFilter
    BY <1>3 DEF StartFilter, ApplyFilter, Listing, ListOK
<1>4. CASE TypeFilter
  <2>1. PICK S \in SUBSET Matching(filter) : SetFilter(Append(filter, S))
    BY <1>4 DEF TypeFilter
  <2>2. Matching(filter) \subseteq DOMAIN tickets
    BY LenProperties, ElementOfSeq DEF Matching, ListOK
  <2>3. Append(filter, S) \in Seq(SUBSET DOMAIN tickets) /\ Len(Append(filter, S)) = Len(filter) + 1
    BY <2>2, AppendProperties DEF ListOK
  <2>4. PICK f : f = Append(filter, S)
    OBVIOUS
  <2>5. /\ f \in Seq(SUBSET DOMAIN tickets) /\ Len(f) <= MaxFilter /\ SetFilter(f)
        /\ mode' \in {"list", "filtering"} /\ mode # "loading" /\ UNCHANGED <<tickets, rows>>
    BY <1>4, <2>1, <2>3, <2>4, LenProperties DEF TypeFilter, Listing, ListOK
  <2> QED BY <2>5, SetFilterOK
<1>5. CASE Backspace
  <2>1. SubSeq(filter, 1, Len(filter) - 1) \in Seq(SUBSET DOMAIN tickets)
        /\ Len(SubSeq(filter, 1, Len(filter) - 1)) = Len(filter) - 1
    <3>1. filter \in Seq(SUBSET DOMAIN tickets) /\ filter # <<>>
        BY <1>5 DEF Backspace, ListOK
    <3>2. Len(filter) \in Nat \ {0}
        BY <3>1, EmptySeq
    <3>3. \A i \in 1 .. Len(filter) - 1 : filter[i] \in SUBSET DOMAIN tickets
        BY <3>1, <3>2, ElementOfSeq
    <3>4. PICK n : n = Len(filter) - 1
        OBVIOUS
    <3>5. n \in Int /\ n >= 0 /\ 1 \in Int /\ \A i \in 1 .. n : filter[i] \in SUBSET DOMAIN tickets
        BY <3>2, <3>3, <3>4
    <3>6. SubSeq(filter, 1, n) \in Seq(SUBSET DOMAIN tickets)
          /\ Len(SubSeq(filter, 1, n)) = IF 1 <= n THEN n - 1 + 1 ELSE 0
        BY <3>5, SubSeqProperties
    <3>7. Len(SubSeq(filter, 1, n)) = n
        BY <3>5, <3>6
    <3> QED BY <3>4, <3>6, <3>7
  <2>2. PICK f : f = SubSeq(filter, 1, Len(filter) - 1)
    OBVIOUS
  <2>3. /\ f \in Seq(SUBSET DOMAIN tickets) /\ Len(f) <= MaxFilter /\ SetFilter(f)
        /\ mode' \in {"list", "filtering"} /\ mode # "loading" /\ UNCHANGED <<tickets, rows>>
    BY <1>5, <2>1, <2>2, LenProperties DEF Backspace, Listing, ListOK
  <2> QED BY <2>3, SetFilterOK
<1>6. CASE ClearFilter
  <2>1. <<>> \in Seq(SUBSET DOMAIN tickets) /\ Len(<<>>) = 0
    BY EmptySeq
  <2>2. /\ Len(<<>>) <= MaxFilter /\ SetFilter(<<>>)
        /\ mode' \in {"list", "filtering"} /\ mode # "loading" /\ UNCHANGED <<tickets, rows>>
    BY <1>6, <2>1 DEF ClearFilter, Listing, ListOK
  <2> QED BY <2>1, <2>2, SetFilterOK
<1>7. CASE LoadSelectedDetail \/ Back
    BY <1>7 DEF LoadSelectedDetail, Back, ListOK
<1>8. CASE Background
    BY <1>8 DEF Background, ReadTimeline, DetailLoaded, Deliver, ListOK
<1>9. CASE Quit
    BY <1>9 DEF Quit, ListOK
<1> QED BY <1>1, <1>2, <1>3, <1>4, <1>5, <1>6, <1>7, <1>8, <1>9 DEF TerminalNext

detailVars == <<detailSeq, detailTicket, loads, showDetail, detail>>

\* What was read stays a prefix of a history that grows.
LEMMA DetailStays ==
    ASSUME HistoryInv, HistoryInv', Grows, DetailOK, UNCHANGED detailVars
    PROVE  DetailOK'
<1>1. \A t \in Ticket : /\ Len(history[t]) \in Nat /\ Len(history'[t]) \in Nat
                        /\ Len(history[t]) <= Len(history'[t])
    BY DEF HistoryInv, Grows
<1>2. UNCHANGED <<detailSeq, detailTicket, loads, showDetail, detail>>
    BY DEF detailVars
<1>3. LoadsInv'
  <2> SUFFICES ASSUME NEW l \in loads, NEW i \in 1 .. 4
               PROVE  l.seen[i] <= Len(history'[l.ticket])
    BY <1>2 DEF LoadsInv, DetailOK
  <2>1. l.ticket \in Ticket /\ l.seen[i] \in Nat
    BY HistoryAssumption DEF DetailOK, Load
  <2>2. l.seen[i] <= Len(history[l.ticket])
    BY DEF DetailOK, LoadsInv
  <2> QED BY <1>1, <2>1, <2>2
<1>4. DetailInv'
  <2> SUFFICES ASSUME detail.seq > 0, NEW i \in 1 .. 4
               PROVE  detail.seen[i] <= Len(history'[detail.ticket])
    BY <1>2 DEF DetailInv, DetailOK
  <2>1. detail.ticket \in Ticket /\ detail.seen[i] \in Nat
    BY HistoryAssumption DEF DetailOK, DetailInv, Load
  <2>2. detail.seen[i] <= Len(history[detail.ticket])
    BY DEF DetailOK, DetailInv
  <2> QED BY <1>1, <2>1, <2>2
<1>5. LaterInv'
    BY <1>2 DEF LaterInv, DetailOK
<1> QED BY <1>2, <1>3, <1>4, <1>5 DEF DetailOK

LEMMA OpenOK ==
    ASSUME ListOK, DetailOK, HistoryInv, UNCHANGED history, LoadSelectedDetail
    PROVE  DetailOK'
<1> USE TerminalAssumption, HistoryAssumption
<1>1. PICK new : new = [seq |-> detailSeq + 1, ticket |-> tickets[selected], read |-> 0,
                        seen |-> Unread, err |-> FALSE]
    OBVIOUS
<1>2. tickets[selected] \in Ticket /\ detailSeq + 1 \in 1 .. MaxOpens
    BY ElementOfSeq DEF ListOK, DetailOK, LoadSelectedDetail
<1>3. Unread \in [1 .. 4 -> 0 .. MaxEvents] /\ \A i \in 1 .. 4 : Unread[i] = 0
    BY DEF Unread
<1>4. new \in Load /\ new.seq = detailSeq + 1 /\ new.read = 0 /\ new.seen = Unread
      /\ new.ticket \in Ticket
    BY <1>1, <1>2, <1>3 DEF Load
<1>5. /\ loads' = loads \cup {new} /\ detailSeq' = detailSeq + 1 /\ detailTicket' \in Ticket
      /\ UNCHANGED <<showDetail, detail, history>> /\ ~showDetail
    BY <1>1, <1>2 DEF LoadSelectedDetail, Listing
<1>6. \A l \in loads : l.seq \in Nat /\ l.seq <= detailSeq
    BY DEF DetailOK, Load
<1>7. LoadsInv'
  <2>1. \A l \in loads' : l.seq # detail.seq
    BY <1>4, <1>5, <1>6 DEF LoadsInv, DetailOK, DetailInv
  <2>2. \A k, l \in loads' : k.seq = l.seq => k = l
    BY <1>4, <1>5, <1>6 DEF LoadsInv, DetailOK
  <2>3. ASSUME NEW l \in loads', NEW i \in 1 .. 4 PROVE l.seen[i] <= Len(history[l.ticket])
    <3>1. CASE l \in loads
        BY <3>1 DEF LoadsInv, DetailOK
    <3>2. CASE l = new
        BY <3>2, <1>3, <1>4 DEF HistoryInv
    <3> QED BY <3>1, <3>2, <1>5
  <2> QED BY <2>1, <2>2, <2>3, <1>5 DEF LoadsInv
<1>8. DetailInv'
    BY <1>5 DEF DetailInv, DetailOK
<1>9. LaterInv'
  <2> SUFFICES ASSUME NEW l \in loads', NEW i \in 1 .. l.read,
                      l.seq > detail.seq, l.ticket = detail.ticket, ~l.err
               PROVE  detail.seen[i] <= l.seen[i]
    BY <1>5 DEF LaterInv
  <2>1. l \in loads
    BY <1>4, <1>5
  <2> QED BY <2>1 DEF LaterInv, DetailOK
<1>10. \A l \in loads' : l.seq <= detailSeq'
    BY <1>4, <1>5, <1>6 DEF DetailOK
<1>11. detailSeq' \in 0 .. MaxOpens /\ loads' \subseteq Load
    BY <1>2, <1>4, <1>5 DEF DetailOK
<1> QED BY <1>5, <1>7, <1>8, <1>9, <1>10, <1>11 DEF DetailOK

\* A statement of a command answers with the ticket's history as it is, so with no
\* less of it than any detail shown before.
LEMMA ReadOK ==
    ASSUME DetailOK, HistoryInv, UNCHANGED history, NEW l \in loads, NEW ok \in BOOLEAN,
           ReadTimeline(l, ok)
    PROVE  DetailOK'
<1> USE TerminalAssumption, HistoryAssumption
<1>1. PICK h : h = Len(history[l.ticket])
    OBVIOUS
<1>2. l \in Load /\ l.seq \in 1 .. MaxOpens /\ l.ticket \in Ticket /\ l.read \in 0 .. 4
      /\ l.seen \in [1 .. 4 -> 0 .. MaxEvents]
    BY DEF DetailOK, Load
<1>3. h \in 0 .. MaxEvents
    BY <1>1, <1>2 DEF HistoryInv
<1>4. PICK new : new = IF ok THEN [l EXCEPT !.read = @ + 1, !.seen[l.read + 1] = h]
                             ELSE [l EXCEPT !.read = 4, !.err = TRUE]
    OBVIOUS
<1>5. l.read < 4 /\ loads' = (loads \ {l}) \cup {new}
    BY <1>1, <1>4 DEF ReadTimeline
<1>6. UNCHANGED <<detailSeq, detailTicket, showDetail, detail, history>>
    BY DEF ReadTimeline
<1>7. new \in Load /\ new.seq = l.seq /\ new.ticket = l.ticket
  <2>1. CASE ok
    <3>1. [l.seen EXCEPT ![l.read + 1] = h] \in [1 .. 4 -> 0 .. MaxEvents] /\ l.read + 1 \in 0 .. 4
        BY <1>2, <1>3, <1>5
    <3>2. new = [l EXCEPT !.read = l.read + 1, !.seen = [l.seen EXCEPT ![l.read + 1] = h]]
        BY <2>1, <1>2, <1>4 DEF Load
    <3> QED BY <3>1, <3>2, <1>2 DEF Load
  <2>2. CASE ~ok
    <3>1. new = [l EXCEPT !.read = 4, !.err = TRUE]
        BY <2>2, <1>4
    <3>2. TRUE \in BOOLEAN /\ 4 \in 0 .. 4
        OBVIOUS
    <3> QED BY <3>1, <3>2, <1>2 DEF Load
  <2> QED BY <2>1, <2>2
<1>8. \A i \in 1 .. 4 : new.seen[i] = IF ok /\ i = l.read + 1 THEN h ELSE l.seen[i]
    BY <1>2, <1>3, <1>4, <1>5 DEF Load
<1>9. IF ok THEN new.read = l.read + 1 /\ new.err = l.err ELSE new.err = TRUE
  <2>1. CASE ok
    BY <2>1, <1>2, <1>4 DEF Load
  <2>2. CASE ~ok
    <3>1. new = [l EXCEPT !.read = 4, !.err = TRUE] /\ DOMAIN l = {"seq", "ticket", "read", "seen", "err"}
        BY <2>2, <1>2, <1>4 DEF Load
    <3> QED BY <2>2, <3>1
  <2> QED BY <2>1, <2>2
<1>10. \A k \in loads : k.seq \in Nat /\ k.seq <= detailSeq
    BY DEF DetailOK, Load
<1>11. LoadsInv'
  <2>1. \A k \in loads' : k.seq # detail.seq
    BY <1>5, <1>7 DEF LoadsInv, DetailOK
  <2>2. ASSUME NEW j \in loads', NEW k \in loads', j.seq = k.seq PROVE j = k
    BY <2>2, <1>5, <1>7 DEF LoadsInv, DetailOK
  <2>3. ASSUME NEW k \in loads', NEW i \in 1 .. 4 PROVE k.seen[i] <= Len(history[k.ticket])
    <3>1. CASE k \in loads
        BY <3>1 DEF LoadsInv, DetailOK
    <3>2. CASE k = new
      <4>1. l.seen[i] <= h
        BY <1>1 DEF LoadsInv, DetailOK
      <4> QED BY <3>2, <4>1, <1>1, <1>3, <1>7, <1>8
    <3> QED BY <3>1, <3>2, <1>5
  <2> QED BY <2>1, <2>2, <2>3, <1>6 DEF LoadsInv
<1>12. DetailInv'
    BY <1>6 DEF DetailInv, DetailOK
<1>13. LaterInv'
  <2> SUFFICES ASSUME NEW k \in loads', NEW i \in 1 .. k.read,
                      k.seq > detail.seq, k.ticket = detail.ticket, ~k.err
               PROVE  detail.seen[i] <= k.seen[i]
    BY <1>6 DEF LaterInv
  <2>1. CASE k \in loads
    BY <2>1 DEF LaterInv, DetailOK
  <2>2. CASE k = new
    <3>1. ok /\ ~l.err /\ new.read = l.read + 1
        BY <2>2, <1>9
    <3>2. i \in 1 .. 4
        BY <2>2, <3>1, <1>2, <1>5
    <3>3. CASE i = l.read + 1
      <4>1. detail.seen[i] <= h
        BY <1>1, <1>3, <1>7, <2>2, <3>2 DEF DetailOK, DetailInv, Unread
      <4> QED BY <2>2, <3>1, <3>2, <3>3, <4>1, <1>8
    <3>4. CASE i # l.read + 1
      <4>1. i \in 1 .. l.read
        BY <2>2, <3>1, <3>4, <1>2
      <4>2. detail.seen[i] <= l.seen[i]
        BY <4>1, <2>2, <3>1, <1>7 DEF LaterInv, DetailOK
      <4> QED BY <2>2, <3>2, <3>4, <4>2, <1>8
    <3> QED BY <3>3, <3>4
  <2> QED BY <2>1, <2>2, <1>5
<1>14. loads' \subseteq Load /\ \A k \in loads' : k.seq <= detailSeq
    BY <1>5, <1>7, <1>10 DEF DetailOK
<1> QED BY <1>6, <1>11, <1>12, <1>13, <1>14 DEF DetailOK

\* An answer is shown only if it is the last request's; every other command in flight
\* is then older than the detail.
LEMMA DeliverOK ==
    ASSUME DetailOK, HistoryInv, UNCHANGED history, NEW l \in loads, DetailLoaded(l)
    PROVE  DetailOK'
<1>1. loads' = loads \ {l} /\ UNCHANGED <<detailSeq, detailTicket, history>> /\ l.read = 4
    BY DEF DetailLoaded, Deliver
<1>2. \A k \in loads : k \in Load /\ k.seq \in Nat /\ k.seq >= 1 /\ k.seq <= detailSeq
    BY DEF DetailOK, Load
<1>3. CASE l.seq = detailSeq /\ l.ticket = detailTicket
  <2>1. detail' = l /\ showDetail' = TRUE
    BY <1>3 DEF DetailLoaded, Deliver
  <2>2. LoadsInv'
    BY <1>1, <2>1 DEF LoadsInv, DetailOK
  <2>3. DetailInv'
    <3>1. \A i \in 1 .. 4 : l.seen[i] <= Len(history[l.ticket])
        BY DEF LoadsInv, DetailOK
    <3> QED BY <1>1, <1>2, <1>3, <2>1, <3>1 DEF DetailInv
  <2>4. LaterInv'
    <3>1. \A k \in loads' : ~(k.seq > l.seq)
        BY <1>1, <1>2, <1>3 DEF DetailOK
    <3> QED BY <2>1, <3>1 DEF LaterInv
  <2>5. showDetail' \in BOOLEAN
    BY <2>1
  <2> QED BY <1>1, <1>3, <2>1, <2>2, <2>3, <2>4, <2>5 DEF DetailOK
<1>4. CASE ~(l.seq = detailSeq /\ l.ticket = detailTicket)
  <2>1. UNCHANGED <<detail, showDetail>>
    BY <1>4 DEF DetailLoaded, Deliver
  <2> QED BY <1>1, <2>1 DEF DetailOK, LoadsInv, DetailInv, LaterInv
<1> QED BY <1>3, <1>4

LEMMA DetailStep ==
    ASSUME ListOK, DetailOK, HistoryInv, UNCHANGED history, TerminalNext
    PROVE  DetailOK'
<1>1. HistoryInv' /\ Grows
    BY SameGrows
<1>2. CASE UNCHANGED detailVars
    BY <1>1, <1>2, DetailStays
<1>3. CASE \/ \E ok \in BOOLEAN : LoadQueue(ok)
           \/ Resize \/ MoveDown \/ MoveUp
           \/ StartFilter \/ TypeFilter \/ Backspace \/ ApplyFilter \/ ClearFilter
  <2>1. UNCHANGED detailVars
    BY <1>3 DEF LoadQueue, Resize, MoveDown, MoveUp, StartFilter, TypeFilter, Backspace, ApplyFilter,
                ClearFilter, detailVars
  <2> QED BY <1>2, <2>1
<1>4. CASE LoadSelectedDetail
    BY <1>4, OpenOK
<1>5. CASE Background
  <2>1. PICK l \in loads : ReadTimeline(l, TRUE) \/ ReadTimeline(l, FALSE) \/ DetailLoaded(l)
    BY <1>5 DEF Background
  <2>2. TRUE \in BOOLEAN /\ FALSE \in BOOLEAN
    OBVIOUS
  <2> QED BY <2>1, <2>2, ReadOK, DeliverOK
<1>6. CASE Back
  <2>1. showDetail' = FALSE /\ UNCHANGED <<detailSeq, detailTicket, loads, detail, history>>
    BY <1>6 DEF Back
  <2>2. showDetail' \in BOOLEAN /\ ~showDetail'
    BY <2>1
  <2> QED BY <2>1, <2>2 DEF DetailOK, LoadsInv, DetailInv, LaterInv
<1>7. CASE Quit
  <2>1. loads' = {} /\ UNCHANGED <<detailSeq, detailTicket, showDetail, detail, history>>
    BY <1>7 DEF Quit
  <2> QED BY <2>1 DEF DetailOK, LoadsInv, DetailInv, LaterInv
<1> QED BY <1>3, <1>4, <1>5, <1>6, <1>7 DEF TerminalNext

\* The detail changes only when the last request is answered, by a later command.
LEMMA DetailMoves ==
    ASSUME TerminalInv, TerminalInv', [TerminalNext]_terminalVars
    PROVE  showDetail' =>
              /\ detail'.ticket = detailTicket'
              /\ detail.ticket = detail'.ticket /\ ~detail.err /\ ~detail'.err =>
                    \A i \in 1 .. 4 : detail.seen[i] <= detail'.seen[i]
<1> SUFFICES ASSUME showDetail'
             PROVE  /\ detail'.ticket = detailTicket'
                    /\ detail.ticket = detail'.ticket /\ ~detail.err /\ ~detail'.err =>
                          \A i \in 1 .. 4 : detail.seen[i] <= detail'.seen[i]
    OBVIOUS
<1>1. detail'.ticket = detailTicket'
    BY DEF TerminalInv, DetailInv
<1>2. CASE detail' = detail
  <2>1. \A i \in 1 .. 4 : detail.seen[i] \in Nat
    BY HistoryAssumption DEF TerminalInv, DetailInv, Load, Unread
  <2> QED BY <1>1, <1>2, <2>1
<1>3. CASE detail' # detail
  <2>1. PICK l \in loads : DetailLoaded(l)
    <3>1. TerminalNext
        BY <1>3 DEF terminalVars
    <3>2. ASSUME NEW ok \in BOOLEAN PROVE ~LoadQueue(ok)
        BY <1>3 DEF LoadQueue
    <3>3. ~Resize /\ ~MoveDown /\ ~MoveUp /\ ~LoadSelectedDetail /\ ~Back /\ ~Quit
        BY <1>3 DEF Resize, MoveDown, MoveUp, LoadSelectedDetail, Back, Quit
    <3>4. ~StartFilter /\ ~TypeFilter /\ ~Backspace /\ ~ApplyFilter /\ ~ClearFilter
        BY <1>3 DEF StartFilter, TypeFilter, Backspace, ApplyFilter, ClearFilter
    <3>5. \A l \in loads : ~ReadTimeline(l, TRUE) /\ ~ReadTimeline(l, FALSE)
        BY <1>3 DEF ReadTimeline
    <3> QED BY <3>1, <3>2, <3>3, <3>4, <3>5 DEF TerminalNext, Background
  <2>2. detail' = l /\ l.seq = detailSeq /\ l.read = 4
    BY <1>3, <2>1 DEF DetailLoaded, Deliver
  <2>3. l.seq > detail.seq
    <3>1. detail.seq \in Nat /\ detail.seq <= detailSeq /\ l.seq # detail.seq
        BY DEF TerminalInv, LoadsInv, DetailInv
    <3>2. detailSeq \in Nat
        BY TerminalAssumption DEF TerminalInv, TerminalTypeOK
    <3> QED BY <2>2, <3>1, <3>2
  <2> QED BY <1>1, <2>2, <2>3 DEF TerminalInv, LaterInv
<1> QED BY <1>2, <1>3

-----------------------------------------------------------------------------
(* The web console.                                                        *)

\* How many statements of the page have been run.
Ran(p) == Len(Reads(p.kind)) - Len(p.rest)

Live(p) == p.at \in {"loading", "shown", "checked"}

\* The statements still to be run are the last ones of the page, and none is left once
\* it is shown.
RestInv(p) ==
    /\ Len(p.rest) <= Len(Reads(p.kind))
    /\ \A i \in 1 .. Len(p.rest) : p.rest[i] = Reads(p.kind)[Ran(p) + i]
    /\ p.at # "loading" => p.rest = <<>>
    /\ p.at = "checked" => p.kind = "proposed"

\* What has been read is in order: a statement never sees less of the history than one
\* before it, and only optional sections are missing.
SeenInv(p) ==
    /\ \A s \in Section : (\A i \in 1 .. Ran(p) : s # Reads(p.kind)[i]) => p.seen[s] = 0
    /\ \A i \in 1 .. Ran(p) : p.seen[Reads(p.kind)[i]] = 0 => Reads(p.kind)[i] \in Optional(p.kind)
    /\ \A i, j \in 1 .. Ran(p) :
          i < j /\ p.seen[Reads(p.kind)[j]] > 0 => p.seen[Reads(p.kind)[i]] <= p.seen[Reads(p.kind)[j]]

\* What the ticket was like when the page was asked for and when it was read.
OriginInv(p) ==
    /\ p.kind = "attempt" =>
          /\ p.attempt >= 1
          /\ p.seen["attempt"] > 0 => p.attempt <= ClaimsUpTo(p.ticket, p.seen["attempt"])
          /\ p.base > 0 /\ p.at = "loading" => p.attempt <= ClaimsUpTo(p.ticket, Len(history[p.ticket]))
    /\ p.kind = "proposed" =>
          /\ p.seen["ticket"] > 0 =>
                p.ticket \in Proposal /\ StatusAt(p.ticket, p.seen["ticket"]) = "backlog"
          /\ p.base > 0 /\ p.at = "loading" =>
                p.ticket \in Proposal /\ StatusAt(p.ticket, p.base) = "backlog"
    /\ p.at \in {"loading", "shown"} /\ p.seen[Reads(p.kind)[1]] > 0 => p.seen[Reads(p.kind)[1]] >= p.base

\* What a refusal says of the ticket.
RefusedInv(p) ==
    /\ p.at = "gone" /\ p.base > 0 => p.kind = "proposed"
    /\ p.at \in {"gone", "conflict"} /\ p.base > 0 => Len(history[p.ticket]) > p.base

TabInv(p) ==
    /\ p.base <= Len(history[p.ticket])
    /\ \A s \in Section : p.seen[s] <= Len(history[p.ticket])
    /\ Live(p) => RestInv(p) /\ SeenInv(p) /\ OriginInv(p)
    /\ RefusedInv(p)

WebInv ==
    /\ tab \in [Tab -> TabState]
    /\ \A b \in Tab, p \in TabState : tab[b] = p => TabInv(p)

-----------------------------------------------------------------------------
(* What a page shows of the claims.                                        *)

LEMMA CountGrows ==
    ASSUME NEW h, NEW u \in Nat, NEW v \in Nat, u <= v
    PROVE  /\ IsFiniteSet({i \in 1 .. u : h[i].status = "in_progress"})
           /\ Cardinality({i \in 1 .. u : h[i].status = "in_progress"}) \in Nat
           /\ Cardinality({i \in 1 .. u : h[i].status = "in_progress"})
              <= Cardinality({i \in 1 .. v : h[i].status = "in_progress"})
<1>1. IsFiniteSet(1 .. u) /\ IsFiniteSet(1 .. v)
    BY FS_Interval
<1>2. IsFiniteSet({i \in 1 .. u : h[i].status = "in_progress"})
      /\ IsFiniteSet({i \in 1 .. v : h[i].status = "in_progress"})
    BY <1>1, FS_Subset
<1>3. {i \in 1 .. u : h[i].status = "in_progress"} \subseteq {i \in 1 .. v : h[i].status = "in_progress"}
    OBVIOUS
<1> QED BY <1>2, <1>3, FS_Subset, FS_CardinalityType

LEMMA ClaimsFinite ==
    ASSUME NEW t, NEW v \in Nat
    PROVE  /\ IsFiniteSet({i \in 1 .. v : history[t][i].status = "in_progress"})
           /\ ClaimsUpTo(t, v) \in Nat
<1>1. v <= v
    OBVIOUS
<1> QED BY <1>1, CountGrows DEF ClaimsUpTo

LEMMA ClaimsGrow ==
    ASSUME NEW t, NEW u \in Nat, NEW v \in Nat, u <= v
    PROVE  ClaimsUpTo(t, u) <= ClaimsUpTo(t, v)
BY CountGrows DEF ClaimsUpTo

\* A reader at the end of a history that grew counts no fewer claims.
LEMMA ClaimsGrowNext ==
    ASSUME NEW t \in Ticket, HistoryInv, HistoryInv', Grows
    PROVE  /\ ClaimsUpTo(t, Len(history[t])) \in Nat
           /\ ClaimsUpTo(t, Len(history[t]))' \in Nat
           /\ ClaimsUpTo(t, Len(history[t])) <= ClaimsUpTo(t, Len(history[t]))'
<1>1. PICK u, v : u = Len(history[t]) /\ v = Len(history'[t])
    OBVIOUS
<1>2. u \in Nat /\ v \in Nat /\ u <= v /\ v <= v
    BY <1>1 DEF HistoryInv, Grows
<1>3. {i \in 1 .. u : history'[t][i].status = "in_progress"} = {i \in 1 .. u : history[t][i].status = "in_progress"}
    BY <1>1 DEF Grows
<1>4. /\ Cardinality({i \in 1 .. u : history'[t][i].status = "in_progress"}) \in Nat
      /\ Cardinality({i \in 1 .. v : history'[t][i].status = "in_progress"}) \in Nat
      /\ Cardinality({i \in 1 .. u : history'[t][i].status = "in_progress"})
         <= Cardinality({i \in 1 .. v : history'[t][i].status = "in_progress"})
    BY <1>2, CountGrows
<1> QED BY <1>1, <1>3, <1>4 DEF ClaimsUpTo

LEMMA NoClaims == ASSUME NEW t PROVE ClaimsUpTo(t, 0) = 0
<1>1. {i \in 1 .. 0 : history[t][i].status = "in_progress"} = {}
    OBVIOUS
<1> QED BY <1>1, FS_EmptySet DEF ClaimsUpTo

LEMMA SomeClaim ==
    ASSUME NEW t, NEW v \in Nat, NEW i \in 1 .. v, history[t][i].status = "in_progress"
    PROVE  ClaimsUpTo(t, v) > 0
<1>1. {j \in 1 .. v : history[t][j].status = "in_progress"} # {}
    OBVIOUS
<1>2. Cardinality({j \in 1 .. v : history[t][j].status = "in_progress"}) # 0
    BY <1>1, ClaimsFinite, FS_EmptySet
<1>3. ClaimsUpTo(t, v) \in Nat /\ ClaimsUpTo(t, v) # 0
    BY <1>2, ClaimsFinite DEF ClaimsUpTo
<1> QED BY <1>3

\* The claims among what was read are the same later on.
LEMMA ClaimsStay ==
    ASSUME NEW t \in Ticket, HistoryInv, Grows, NEW v \in 0 .. Len(history[t])
    PROVE  ClaimsUpTo(t, v)' = ClaimsUpTo(t, v)
<1>1. Len(history[t]) \in Nat
    BY DEF HistoryInv
<1>2. \A i \in 1 .. v : history'[t][i] = history[t][i]
    BY <1>1 DEF Grows
<1>3. {i \in 1 .. v : history'[t][i].status = "in_progress"}
      = {i \in 1 .. v : history[t][i].status = "in_progress"}
    BY <1>2
<1> QED BY <1>3 DEF ClaimsUpTo

\* Every attempt up to the number of claims has its claim: the count grows by at most
\* one with each entry, so it does not skip a number.
LEMMA ClaimExists ==
    ASSUME NEW t \in Ticket, HistoryInv, NEW v \in 0 .. Len(history[t]),
           NEW n \in 1 .. ClaimsUpTo(t, v)
    PROVE  ClaimOf(t, n) \in DOMAIN history[t]
<1>1. Len(history[t]) \in Nat /\ DOMAIN history[t] = 1 .. Len(history[t]) /\ v \in Nat
    BY LenProperties DEF HistoryInv
<1>2. PICK S : S = {i \in Nat : n <= ClaimsUpTo(t, i)}
    OBVIOUS
<1>3. ClaimsUpTo(t, v) \in Nat /\ n \in Nat /\ n >= 1
  <2>1. ClaimsUpTo(t, v) \in Nat
    BY <1>1, ClaimsFinite
  <2> QED BY <2>1
<1>4. v \in S
  <2>1. n <= ClaimsUpTo(t, v)
    BY <1>3
  <2> QED BY <2>1, <1>1, <1>2
<1>5. PICK m \in S : \A i \in S : m <= i
    BY <1>2, <1>4, LeastNatural
<1>6. m \in Nat /\ m <= v /\ n <= ClaimsUpTo(t, m)
    BY <1>2, <1>4, <1>5
<1>7. m # 0
    BY <1>3, <1>6, NoClaims
<1>8. m \in 1 .. Len(history[t]) /\ m - 1 \in Nat
    BY <1>1, <1>6, <1>7
<1>9. ClaimsUpTo(t, m - 1) \in Nat /\ ClaimsUpTo(t, m) \in Nat
    BY <1>6, <1>8, ClaimsFinite
<1>10. ClaimsUpTo(t, m - 1) < n
  <2>1. m - 1 \notin S
    BY <1>5, <1>6, <1>8
  <2>2. ~(n <= ClaimsUpTo(t, m - 1))
    BY <2>1, <1>2, <1>8
  <2> QED BY <2>2, <1>3, <1>9
<1> DEFINE At(w) == {i \in 1 .. w : history[t][i].status = "in_progress"}
<1>11. ClaimsUpTo(t, m) = Cardinality(At(m)) /\ ClaimsUpTo(t, m - 1) = Cardinality(At(m - 1))
       /\ IsFiniteSet(At(m - 1))
    BY <1>8, ClaimsFinite DEF ClaimsUpTo
<1>12. history[t][m].status = "in_progress"
  <2> SUFFICES ASSUME history[t][m].status # "in_progress" PROVE FALSE
    OBVIOUS
  <2>1. At(m) = At(m - 1)
    BY <1>8
  <2>2. ClaimsUpTo(t, m) = ClaimsUpTo(t, m - 1)
    BY <2>1, <1>11
  <2> QED BY <2>2, <1>3, <1>6, <1>9, <1>10
<1>13. ClaimsUpTo(t, m) = n
  <2>1. At(m) = At(m - 1) \cup {m} /\ m \notin At(m - 1)
    BY <1>8, <1>12
  <2>2. Cardinality(At(m)) = Cardinality(At(m - 1)) + 1
    BY <2>1, <1>11, FS_AddElement
  <2> QED BY <2>2, <1>3, <1>6, <1>9, <1>10, <1>11
<1> QED BY <1>1, <1>8, <1>12, <1>13 DEF ClaimOf

-----------------------------------------------------------------------------
(* A tab.                                                                  *)

LEMMA ReadsFacts ==
    ASSUME NEW kind \in Kind
    PROVE  /\ Reads(kind) \in Seq(Section) /\ Len(Reads(kind)) \in 1 .. 5
           /\ \A i, j \in 1 .. Len(Reads(kind)) : Reads(kind)[i] = Reads(kind)[j] => i = j
           /\ \A i \in 2 .. Len(Reads(kind)) : Reads(kind)[i] \notin {"ticket", "attempt"}
           /\ Reads(kind)[1] \notin Optional(kind)
           /\ kind \in {"list", "ticket", "proposed"} => Reads(kind)[1] = "ticket"
           /\ kind = "attempt" => Reads(kind)[1] = "attempt"
           /\ kind = "ledger" => Reads(kind)[1] = "events"
<1>1. CASE kind = "list"
    BY <1>1 DEF Reads, Optional, Section
<1>2. CASE kind = "ledger"
    BY <1>2 DEF Reads, Optional, Section
<1>3. CASE kind = "ticket"
    BY <1>3 DEF Reads, Optional, Section
<1>4. CASE kind = "attempt"
    BY <1>4 DEF Reads, Optional, Section
<1>5. CASE kind = "proposed"
    BY <1>5 DEF Reads, Optional, Section
<1> QED BY <1>1, <1>2, <1>3, <1>4, <1>5 DEF Kind

LEMMA TabFields ==
    ASSUME NEW p \in TabState
    PROVE  /\ p.at \in {"start", "loading", "shown", "checked", "gone", "conflict", "error"}
           /\ p.kind \in Kind /\ p.ticket \in Ticket /\ p.attempt \in 0 .. MaxEvents
           /\ p.rest \in Seq(Section) /\ Len(p.rest) \in 0 .. 5
           /\ p.seen \in [Section -> 0 .. MaxEvents] /\ p.base \in 0 .. MaxEvents
           /\ p.action \in TicketAction \cup {"enqueue", "reject", "none"}
           /\ DOMAIN p = {"at", "kind", "ticket", "attempt", "rest", "seen", "base", "action"}
<1>1. PICK n \in 0 .. 5 : p.rest \in [1 .. n -> Section]
  <2>1. p.rest \in UNION {[1 .. n -> Section] : n \in 0 .. 5}
    BY DEF TabState
  <2> QED BY <2>1
<1>2. p.rest \in Seq(Section) /\ Len(p.rest) = n
    BY <1>1
<1> QED BY <1>2 DEF TabState

LEMMA RestType ==
    ASSUME NEW r \in Seq(Section), Len(r) <= 5
    PROVE  r \in UNION {[1 .. n -> Section] : n \in 0 .. 5}
<1>1. PICK n : n = Len(r)
    OBVIOUS
<1>2. n \in Nat /\ r \in [1 .. n -> Section]
    BY <1>1, LenProperties
<1>3. n \in 0 .. 5
    BY <1>1, <1>2
<1> QED BY <1>2, <1>3, Zenon

LEMMA RanType ==
    ASSUME NEW p \in TabState
    PROVE  /\ Ran(p) \in Int /\ Ran(p) <= Len(Reads(p.kind))
           /\ Len(p.rest) <= Len(Reads(p.kind)) => Ran(p) >= 0
           /\ Ran(p) + Len(p.rest) = Len(Reads(p.kind))
<1>1. PICK m, n : m = Len(Reads(p.kind)) /\ n = Len(p.rest)
    OBVIOUS
<1>2. m \in Int /\ n \in Int /\ n >= 0
    BY <1>1, TabFields, ReadsFacts
<1>3. Ran(p) = m - n
    BY <1>1 DEF Ran
<1>4. m - n <= m /\ m - n \in Int /\ (n <= m => m - n >= 0) /\ (m - n) + n = m
    BY <1>2
<1> QED BY <1>1, <1>3, <1>4, Zenon

\* What holds of a tab holds of it while the history grows.
LEMMA TabStays ==
    ASSUME HistoryInv, HistoryInv', Grows, NEW p \in TabState, TabInv(p)
    PROVE  TabInv(p)'
<1> USE HistoryAssumption
<1>1. /\ p.kind \in Kind /\ p.ticket \in Ticket /\ p.attempt \in Nat /\ p.base \in Nat
      /\ \A s \in Section : p.seen[s] \in Nat
    BY TabFields
<1>2. PICK u, v : u = Len(history[p.ticket]) /\ v = Len(history'[p.ticket])
    OBVIOUS
<1>3. u \in Nat /\ v \in Nat /\ u <= v
    BY <1>1, <1>2 DEF HistoryInv, Grows
<1>4. p.base <= v /\ \A s \in Section : p.seen[s] <= v
    BY <1>1, <1>2, <1>3 DEF TabInv
<1>5. ASSUME Live(p) PROVE OriginInv(p)'
  <2> USE <1>5
  <2>1. "attempt" \in Section /\ "ticket" \in Section
    BY DEF Section
  <2>2. ClaimsUpTo(p.ticket, p.seen["attempt"])' = ClaimsUpTo(p.ticket, p.seen["attempt"])
    <3>1. p.seen["attempt"] \in 0 .. Len(history[p.ticket])
        BY <2>1, <1>1, <1>2, <1>3 DEF TabInv
    <3> QED BY <3>1, <1>1, ClaimsStay
  <2>3. /\ ClaimsUpTo(p.ticket, Len(history[p.ticket])) \in Nat
        /\ ClaimsUpTo(p.ticket, Len(history[p.ticket]))' \in Nat
        /\ ClaimsUpTo(p.ticket, Len(history[p.ticket])) <= ClaimsUpTo(p.ticket, Len(history[p.ticket]))'
    BY <1>1, ClaimsGrowNext
  <2>4. \A w \in 1 .. u : StatusAt(p.ticket, w)' = StatusAt(p.ticket, w)
    BY <1>1, <1>2 DEF Grows, StatusAt
  <2>5. OriginInv(p)
    BY DEF TabInv
  <2>6. p.seen["ticket"] > 0 => p.seen["ticket"] \in 1 .. u
    BY <2>1, <1>1, <1>2, <1>3 DEF TabInv
  <2>7. p.base > 0 => p.base \in 1 .. u
    BY <1>1, <1>2, <1>3 DEF TabInv
  <2>8. ASSUME p.kind = "attempt", p.base > 0, p.at = "loading"
        PROVE  p.attempt <= ClaimsUpTo(p.ticket, Len(history[p.ticket]))'
    <3>1. p.attempt <= ClaimsUpTo(p.ticket, Len(history[p.ticket]))
        BY <2>5, <2>8 DEF OriginInv
    <3> QED BY <3>1, <2>3, <1>1
  <2> QED BY <2>2, <2>4, <2>5, <2>6, <2>7, <2>8 DEF OriginInv
<1>6. RefusedInv(p)'
    BY <1>1, <1>2, <1>3 DEF TabInv, RefusedInv
<1>7. Live(p) => RestInv(p)' /\ SeenInv(p)'
    BY DEF TabInv, RestInv, SeenInv, Ran
<1> QED BY <1>2, <1>4, <1>5, <1>6, <1>7 DEF TabInv, Live

\* A page that is asked for.
LEMMA LoadingOK ==
    ASSUME HistoryInv', NEW kind \in Kind, NEW t \in Ticket, NEW n \in 0 .. MaxEvents,
           NEW from \in 0 .. MaxEvents, from <= Len(history'[t]),
           kind = "attempt" => n >= 1 /\ (from > 0 => n <= ClaimsUpTo(t, Len(history[t]))'),
           kind = "proposed" /\ from > 0 => t \in Proposal /\ StatusAt(t, from)' = "backlog",
           NEW q, q = Loading(kind, t, n, from)
    PROVE  q \in TabState /\ TabInv(q)'
<1> USE HistoryAssumption
<1>1. /\ q.at = "loading" /\ q.kind = kind /\ q.ticket = t /\ q.attempt = n /\ q.rest = Reads(kind)
      /\ q.seen = Nothing /\ q.base = from /\ q.action = "none"
    BY DEF Loading
<1>2. Nothing \in [Section -> 0 .. MaxEvents] /\ \A s \in Section : Nothing[s] = 0
    BY DEF Nothing
<1>3. Reads(kind) \in UNION {[1 .. m -> Section] : m \in 0 .. 5}
    BY ReadsFacts, RestType
<1>4. q \in TabState
    BY <1>2, <1>3 DEF Loading, TabState, TicketAction
<1>5. Len(history'[t]) \in Nat
    BY DEF HistoryInv
<1>6. Ran(q) = 0 /\ Reads(kind)[1] \in Section /\ Len(Reads(kind)) \in Nat
    BY <1>1, ReadsFacts, ElementOfSeq DEF Ran
<1>7. RestInv(q)
    BY <1>1, <1>6 DEF RestInv
<1>8. SeenInv(q)
    BY <1>1, <1>2, <1>6 DEF SeenInv
<1>9. OriginInv(q)'
    BY <1>1, <1>2, <1>6 DEF OriginInv, Section
<1>10. RefusedInv(q)'
    BY <1>1 DEF RefusedInv
<1>11. (RestInv(q) /\ SeenInv(q))' <=> RestInv(q) /\ SeenInv(q)
    BY DEF RestInv, SeenInv, Ran
<1> QED BY <1>1, <1>2, <1>4, <1>5, <1>7, <1>8, <1>9, <1>10, <1>11 DEF TabInv, Live

\* A page leaves for a state in which nothing of it is used any more.
LEMMA LeaveOK ==
    ASSUME HistoryInv, NEW p \in TabState, TabInv(p), NEW at \in {"gone", "conflict", "error"},
           NEW base \in 0 .. MaxEvents, base <= Len(history[p.ticket]),
           at = "gone" /\ base > 0 => p.kind = "proposed",
           at \in {"gone", "conflict"} /\ base > 0 => Len(history[p.ticket]) > base,
           NEW q, q = [p EXCEPT !.at = at, !.base = base, !.rest = <<>>]
    PROVE  q \in TabState /\ TabInv(q)
<1>1. /\ q.at = at /\ q.kind = p.kind /\ q.ticket = p.ticket /\ q.seen = p.seen /\ q.base = base
    BY TabFields
<1>2. q \in TabState
  <2>1. <<>> \in UNION {[1 .. m -> Section] : m \in 0 .. 5}
    BY EmptySeq, RestType
  <2> QED BY <2>1 DEF TabState
<1> QED BY <1>1, <1>2 DEF TabInv, Live, RefusedInv

LEMMA SeenOfIsFirst ==
    ASSUME NEW p \in TabState, TabInv(p), HistoryInv, Live(p)
    PROVE  /\ SeenOf(p) = p.seen[Reads(p.kind)[1]]
           /\ SeenOf(p) \in 0 .. MaxEvents /\ SeenOf(p) <= Len(history[p.ticket])
           /\ p.at # "loading" => SeenOf(p) > 0
<1> USE HistoryAssumption
<1>1. /\ p.kind \in Kind /\ p.seen \in [Section -> 0 .. MaxEvents] /\ p.rest \in Seq(Section)
      /\ Len(p.rest) \in 0 .. 5
    BY TabFields
<1>2. /\ Len(Reads(p.kind)) \in 1 .. 5 /\ Reads(p.kind)[1] \in Section
      /\ \A i \in 2 .. Len(Reads(p.kind)) : Reads(p.kind)[i] \notin {"ticket", "attempt"}
      /\ Reads(p.kind)[1] \notin Optional(p.kind)
    BY <1>1, ReadsFacts, ElementOfSeq
<1>3. RestInv(p) /\ SeenInv(p)
    BY DEF TabInv
<1>4. SeenOf(p) = p.seen[Reads(p.kind)[1]]
  <2>1. CASE Reads(p.kind)[1] = "ticket"
    BY <2>1 DEF SeenOf
  <2>2. CASE Reads(p.kind)[1] # "ticket"
    <3>1. Ran(p) <= Len(Reads(p.kind)) /\ Ran(p) \in Int
        BY RanType
    <3>2. ASSUME NEW i \in 1 .. Ran(p) PROVE "ticket" # Reads(p.kind)[i]
      <4>1. i = 1 \/ i \in 2 .. Len(Reads(p.kind))
        BY <3>1, <1>2
      <4> QED BY <4>1, <2>2, <1>2
    <3>3. p.seen["ticket"] = 0
        BY <3>2, <1>3 DEF SeenInv, Section
    <3> QED BY <3>3 DEF SeenOf
  <2> QED BY <2>1, <2>2
<1>5. p.seen[Reads(p.kind)[1]] \in 0 .. MaxEvents /\ p.seen[Reads(p.kind)[1]] <= Len(history[p.ticket])
    BY <1>1, <1>2 DEF TabInv
<1>6. ASSUME p.at # "loading" PROVE p.seen[Reads(p.kind)[1]] > 0
  <2>1. p.rest = <<>>
    BY <1>3, <1>6 DEF RestInv
  <2>2. 1 \in 1 .. Ran(p)
    BY <2>1, <1>2, EmptySeq DEF Ran
  <2>3. p.seen[Reads(p.kind)[1]] # 0
    BY <2>2, <1>2, <1>3 DEF SeenInv
  <2> QED BY <2>3, <1>5
<1> QED BY <1>4, <1>5, <1>6

\* A section whose statement has not been run is not seen.
LEMMA UnreadIsZero ==
    ASSUME NEW p \in TabState, TabInv(p), p.at = "loading", p.rest # <<>>
    PROVE  Head(p.rest) \in Section /\ p.seen[Head(p.rest)] = 0
<1>1. p.kind \in Kind /\ p.rest \in Seq(Section) /\ Len(p.rest) \in Nat
    BY TabFields
<1>2. PICK R, n, k : R = Reads(p.kind) /\ n = Ran(p) /\ k = Len(p.rest)
    OBVIOUS
<1>3. RestInv(p) /\ SeenInv(p)
    BY DEF TabInv, Live
<1>4. k \in Nat /\ k >= 1
    BY <1>1, <1>2, EmptySeq
<1>5. n \in Int /\ n >= 0 /\ n + k = Len(R)
    BY <1>2, <1>3, RanType DEF RestInv
<1>6. Head(p.rest) = R[n + 1]
  <2>1. Head(p.rest) = p.rest[1] /\ 1 \in 1 .. Len(p.rest)
    BY <1>1, <1>2, <1>4
  <2> QED BY <2>1, <1>2, <1>3 DEF RestInv
<1>7. n + 1 \in 1 .. Len(R)
    BY <1>4, <1>5
<1>8. \A i, j \in 1 .. Len(R) : R[i] = R[j] => i = j
    BY <1>1, <1>2, ReadsFacts
<1>9. R[n + 1] \in Section
    BY <1>1, <1>2, <1>7, ReadsFacts, ElementOfSeq
<1>10. \A i \in 1 .. n : i \in 1 .. Len(R) /\ i # n + 1
    BY <1>4, <1>5
<1>11. \A i \in 1 .. n : R[n + 1] # R[i]
    BY <1>7, <1>8, <1>10
<1> QED BY <1>2, <1>3, <1>6, <1>9, <1>11 DEF SeenInv

\* A statement of a page is over: it saw the whole history, or it failed and the page
\* does without it (h = 0).
LEMMA AdvanceOK ==
    ASSUME HistoryInv, NEW p \in TabState, TabInv(p), p.at = "loading", p.rest # <<>>,
           NEW sec, sec = Head(p.rest), NEW h,
           \/ h = Len(history[p.ticket]) /\ (sec \in {"ticket", "attempt"} => ~Absent(p))
           \/ h = 0 /\ sec \in Optional(p.kind),
           NEW q, q = [p EXCEPT !.rest = Tail(p.rest), !.seen = [p.seen EXCEPT ![sec] = h]]
    PROVE  q \in TabState /\ TabInv(q)
<1> USE HistoryAssumption
<1>1. /\ p.kind \in Kind /\ p.ticket \in Ticket /\ p.attempt \in 0 .. MaxEvents
      /\ p.rest \in Seq(Section) /\ Len(p.rest) \in 0 .. 5
      /\ p.seen \in [Section -> 0 .. MaxEvents] /\ p.base \in 0 .. MaxEvents
    BY TabFields
<1>2. PICK R : R = Reads(p.kind)
    OBVIOUS
<1>3. /\ R \in Seq(Section) /\ Len(R) \in 1 .. 5
      /\ \A i, j \in 1 .. Len(R) : R[i] = R[j] => i = j
      /\ \A i \in 2 .. Len(R) : R[i] \notin {"ticket", "attempt"}
      /\ R[1] \notin Optional(p.kind)
    BY <1>1, <1>2, ReadsFacts
<1>4. RestInv(p) /\ SeenInv(p) /\ OriginInv(p) /\ RefusedInv(p)
    BY DEF TabInv, Live
<1>5. PICK n : n = Ran(p)
    OBVIOUS
<1>6. n \in Nat /\ n + Len(p.rest) = Len(R) /\ Len(p.rest) >= 1
  <2>1. Len(p.rest) # 0
    BY <1>1, EmptySeq
  <2>2. Ran(p) \in Int /\ Ran(p) >= 0 /\ Ran(p) + Len(p.rest) = Len(Reads(p.kind))
    BY <1>4, RanType DEF RestInv
  <2> QED BY <2>1, <2>2, <1>1, <1>2, <1>5
<1>7. Tail(p.rest) \in Seq(Section) /\ Len(Tail(p.rest)) = Len(p.rest) - 1
      /\ \A i \in 1 .. Len(p.rest) - 1 : Tail(p.rest)[i] = p.rest[i + 1]
    BY <1>1, <1>6, HeadTailProperties
<1>8. sec = R[n + 1] /\ n + 1 \in 1 .. Len(R) /\ sec \in Section
  <2>1. sec = p.rest[1] /\ 1 \in 1 .. Len(p.rest)
    BY <1>1, <1>6
  <2>2. p.rest[1] = R[n + 1]
    BY <2>1, <1>2, <1>4, <1>5 DEF RestInv
  <2> QED BY <2>1, <2>2, <1>1, <1>3, <1>6, ElementOfSeq
<1>9. h \in 0 .. MaxEvents /\ h <= Len(history[p.ticket]) /\ Len(history[p.ticket]) \in Nat
    BY <1>1 DEF HistoryInv
<1>10. /\ q.at = "loading" /\ q.kind = p.kind /\ q.ticket = p.ticket /\ q.attempt = p.attempt
       /\ q.base = p.base /\ q.rest = Tail(p.rest) /\ q.seen = [p.seen EXCEPT ![sec] = h]
    BY TabFields
<1>11. \A s \in Section : q.seen[s] = IF s = sec THEN h ELSE p.seen[s]
    BY <1>1, <1>10
<1>12. q \in TabState
  <2>1. Tail(p.rest) \in UNION {[1 .. m -> Section] : m \in 0 .. 5}
    <3>1. PICK k, l : k = Len(p.rest) /\ l = Len(Tail(p.rest))
        OBVIOUS
    <3>2. k \in 0 .. 5 /\ l = k - 1
        BY <3>1, <1>1, <1>7
    <3>3. l <= 5
        BY <3>2
    <3> QED BY <3>1, <3>3, <1>7, RestType
  <2>2. [p.seen EXCEPT ![sec] = h] \in [Section -> 0 .. MaxEvents]
    BY <1>1, <1>9
  <2> QED BY <2>1, <2>2 DEF TabState
<1>13. Ran(q) = n + 1
  <2>1. Ran(q) = Len(R) - Len(Tail(p.rest))
    BY <1>2, <1>10 DEF Ran
  <2>2. PICK k, l, m : k = Len(p.rest) /\ l = Len(Tail(p.rest)) /\ m = Len(R)
    OBVIOUS
  <2>3. k \in Int /\ m \in Int /\ n \in Int
    BY <2>2, <1>1, <1>3, <1>6
  <2>4. n + k = m /\ l = k - 1 /\ Ran(q) = m - l
    BY <2>1, <2>2, <1>6, <1>7, Zenon
  <2>5. m - l = n + 1
    BY <2>3, <2>4
  <2> QED BY <2>4, <2>5
<1>14. RestInv(q)
  <2>1. ASSUME NEW i \in 1 .. Len(q.rest) PROVE q.rest[i] = R[n + 1 + i]
    <3>1. i + 1 \in 1 .. Len(p.rest) /\ q.rest[i] = p.rest[i + 1]
      <4>1. PICK k : k = Len(p.rest)
        OBVIOUS
      <4>2. k \in Nat /\ i \in 1 .. k - 1
        BY <4>1, <1>1, <1>7, <1>10
      <4> QED BY <4>1, <4>2, <1>7, <1>10
    <3>2. p.rest[i + 1] = R[n + (i + 1)]
        BY <3>1, <1>2, <1>4, <1>5 DEF RestInv
    <3>3. n + (i + 1) = n + 1 + i
        BY <1>6
    <3> QED BY <3>1, <3>2, <3>3
  <2>2. Len(q.rest) <= Len(R)
    BY <1>1, <1>3, <1>6, <1>7, <1>10
  <2> QED BY <2>1, <2>2, <1>2, <1>10, <1>13 DEF RestInv
<1>15. \A i \in 1 .. n : R[i] # sec /\ R[i] \in Section /\ q.seen[R[i]] = p.seen[R[i]]
  <2> SUFFICES ASSUME NEW i \in 1 .. n
               PROVE  R[i] # sec /\ R[i] \in Section /\ q.seen[R[i]] = p.seen[R[i]]
    OBVIOUS
  <2>1. i \in 1 .. Len(R) /\ i # n + 1
    BY <1>3, <1>6
  <2>2. R[i] # sec /\ R[i] \in Section
    BY <2>1, <1>3, <1>8, ElementOfSeq
  <2> QED BY <2>2, <1>11
<1>16. SeenInv(q)
  <2>1. ASSUME NEW s \in Section, \A i \in 1 .. n + 1 : s # R[i] PROVE q.seen[s] = 0
    <3>1. s # sec /\ \A i \in 1 .. n : s # R[i]
        BY <2>1, <1>6, <1>8
    <3>2. p.seen[s] = 0
        BY <3>1, <1>2, <1>4, <1>5 DEF SeenInv
    <3> QED BY <3>1, <3>2, <1>11
  <2>2. ASSUME NEW i \in 1 .. n + 1, q.seen[R[i]] = 0 PROVE R[i] \in Optional(p.kind)
    <3>1. CASE i \in 1 .. n
        BY <2>2, <3>1, <1>2, <1>4, <1>5, <1>15 DEF SeenInv
    <3>2. CASE i = n + 1
        BY <2>2, <3>2, <1>1, <1>8, <1>11 DEF HistoryInv
    <3> QED BY <3>1, <3>2, <1>6
  <2>3. ASSUME NEW i \in 1 .. n + 1, NEW j \in 1 .. n + 1, i < j, q.seen[R[j]] > 0
        PROVE  q.seen[R[i]] <= q.seen[R[j]]
    <3>1. i \in 1 .. n
        BY <2>3, <1>6
    <3>2. CASE j \in 1 .. n
        BY <2>3, <3>1, <3>2, <1>2, <1>4, <1>5, <1>15 DEF SeenInv
    <3>3. CASE j = n + 1
      <4>1. q.seen[R[j]] = h /\ h # 0
        BY <2>3, <3>3, <1>8, <1>11
      <4>2. h = Len(history[p.ticket])
        BY <4>1
      <4>3. p.seen[R[i]] <= Len(history[p.ticket])
        BY <3>1, <1>15 DEF TabInv
      <4> QED BY <3>1, <4>1, <4>2, <4>3, <1>15
    <3> QED BY <3>2, <3>3, <1>6
  <2> QED BY <2>1, <2>2, <2>3, <1>2, <1>10, <1>13 DEF SeenInv
<1>17. OriginInv(q)
  <2>1. ASSUME p.kind = "attempt", q.seen["attempt"] > 0
        PROVE  p.attempt <= ClaimsUpTo(p.ticket, q.seen["attempt"])
    <3>1. "attempt" \in Section
        BY DEF Section
    <3>2. CASE sec = "attempt"
      <4>1. q.seen["attempt"] = h /\ h = Len(history[p.ticket]) /\ ~Absent(p)
        BY <2>1, <3>1, <3>2, <1>11
      <4>2. ~(p.attempt > ClaimsUpTo(p.ticket, Len(history[p.ticket])))
        BY <2>1, <4>1 DEF Absent
      <4>3. ClaimsUpTo(p.ticket, Len(history[p.ticket])) \in Nat
        BY <1>9, ClaimsFinite
      <4> QED BY <4>1, <4>2, <4>3, <1>1
    <3>3. CASE sec # "attempt"
        BY <2>1, <3>1, <3>3, <1>4, <1>11 DEF OriginInv
    <3> QED BY <3>2, <3>3
  <2>2. ASSUME p.kind = "proposed", q.seen["ticket"] > 0
        PROVE  p.ticket \in Proposal /\ StatusAt(p.ticket, q.seen["ticket"]) = "backlog"
    <3>1. "ticket" \in Section
        BY DEF Section
    <3>2. CASE sec = "ticket"
      <4>1. q.seen["ticket"] = h /\ h = Len(history[p.ticket]) /\ ~Absent(p)
        BY <2>2, <3>1, <3>2, <1>11
      <4> QED BY <2>2, <4>1 DEF Absent, IsProposed, CurrentStatus, StatusAt
    <3>3. CASE sec # "ticket"
        BY <2>2, <3>1, <3>3, <1>4, <1>11 DEF OriginInv
    <3> QED BY <3>2, <3>3
  <2>3. q.seen[R[1]] > 0 => q.seen[R[1]] >= p.base
    <3>1. CASE n = 0
        BY <3>1, <1>3, <1>8, <1>11 DEF TabInv
    <3>2. CASE n > 0
      <4>1. 1 \in 1 .. n
        BY <3>2, <1>6
      <4> QED BY <4>1, <1>2, <1>4, <1>15 DEF OriginInv
    <3> QED BY <3>1, <3>2, <1>6
  <2> QED BY <2>1, <2>2, <2>3, <1>2, <1>4, <1>10 DEF OriginInv
<1>18. RefusedInv(q)
    BY <1>10 DEF RefusedInv
<1>19. \A s \in Section : q.seen[s] <= Len(history[p.ticket])
    BY <1>9, <1>11 DEF TabInv
<1>20. q.base <= Len(history[q.ticket])
    BY <1>10 DEF TabInv
<1> QED BY <1>10, <1>12, <1>14, <1>16, <1>17, <1>18, <1>19, <1>20 DEF TabInv

\* One tab moves, the others see the history grow.
LEMMA TabStep ==
    ASSUME HistoryInv, HistoryInv', Grows, WebInv, NEW b \in Tab,
           NEW q \in TabState, TabInv(q)', tab' = [tab EXCEPT ![b] = q]
    PROVE  WebInv'
<1>1. tab' \in [Tab -> TabState]
    BY DEF WebInv
<1>2. ASSUME NEW c \in Tab, NEW p \in TabState, tab'[c] = p PROVE TabInv(p)'
  <2>1. CASE c = b
    <3>1. p = q
        BY <1>2, <2>1 DEF WebInv
    <3> QED BY <3>1
  <2>2. CASE c # b
    <3>1. tab[c] = p
        BY <1>2, <2>2 DEF WebInv
    <3>2. TabInv(p)
        BY <3>1 DEF WebInv
    <3> QED BY <3>2, TabStays
  <2> QED BY <2>1, <2>2
<1> QED BY <1>1, <1>2 DEF WebInv

\* The same for a step that leaves the history alone.
LEMMA TabOnly ==
    ASSUME HistoryInv, UNCHANGED history, WebInv, NEW b \in Tab,
           NEW q \in TabState, TabInv(q), tab' = [tab EXCEPT ![b] = q]
    PROVE  WebInv'
<1>1. HistoryInv' /\ Grows
    BY SameGrows
<1>2. TabInv(q)'
    BY DEF TabInv, Live, RestInv, SeenInv, OriginInv, RefusedInv, Ran, ClaimsUpTo, StatusAt
<1> QED BY <1>1, <1>2, TabStep

LEMMA AddressOK ==
    ASSUME HistoryInv, WebInv, NEW b \in Tab, NEW kind \in Kind, NEW n \in 0 .. 1, TypeAddress(b, kind, n)
    PROVE  WebInv'
<1> USE HistoryAssumption
<1>1. PICK q, t : t = tab[b].ticket /\ q = Loading(kind, t, n, 0)
    OBVIOUS
<1>2. tab' = [tab EXCEPT ![b] = q] /\ UNCHANGED history /\ (kind = "attempt" => n # 0)
    BY <1>1 DEF TypeAddress
<1>3. HistoryInv' /\ Grows
    BY <1>2, SameGrows
<1>4. t \in Ticket /\ n \in 0 .. MaxEvents /\ 0 \in 0 .. MaxEvents /\ ~(0 > 0)
    BY <1>1, TabFields DEF WebInv
<1>5. 0 <= Len(history'[t])
    BY <1>3, <1>4 DEF HistoryInv
<1>6. q \in TabState /\ TabInv(q)'
    BY <1>1, <1>2, <1>3, <1>4, <1>5, LoadingOK
<1> QED BY <1>2, <1>3, <1>6, TabStep

\* A link to an attempt leads to an attempt that exists, and one to a proposal to a
\* ticket that was one when the page was read.
LEMMA LinkOK ==
    ASSUME HistoryInv, WebInv, NEW b \in Tab, NEW kind \in Kind, NEW n \in 0 .. MaxEvents,
           FollowLink(b, kind, n)
    PROVE  WebInv'
<1> USE HistoryAssumption
<1>1. PICK p : p = tab[b]
    OBVIOUS
<1>2. PICK from, q : from = SeenOf(p) /\ q = Loading(kind, p.ticket, n, from)
    OBVIOUS
<1>3. /\ p.at = "shown" /\ Linked(p, kind, n) /\ tab' = [tab EXCEPT ![b] = q] /\ UNCHANGED history
    BY <1>1, <1>2 DEF FollowLink
<1>4. p \in TabState /\ TabInv(p) /\ Live(p)
    BY <1>1, <1>3 DEF WebInv, Live
<1>5. HistoryInv' /\ Grows
    BY <1>3, SameGrows
<1>6. p.ticket \in Ticket /\ p.kind \in Kind /\ p.seen \in [Section -> 0 .. MaxEvents]
    BY <1>4, TabFields
<1>7. from \in 0 .. MaxEvents /\ from <= Len(history'[p.ticket])
    BY <1>2, <1>3, <1>4, SeenOfIsFirst
<1>8. Len(history[p.ticket]) \in Nat
    BY <1>6 DEF HistoryInv
<1>9. ASSUME kind = "attempt" PROVE n >= 1 /\ n <= ClaimsUpTo(p.ticket, Len(history[p.ticket]))'
  <2>1. PICK sec \in {"attempts", "events"} : n \in 1 .. ClaimsUpTo(p.ticket, p.seen[sec])
    BY <1>3, <1>9 DEF Linked
  <2>2. p.seen[sec] \in Nat /\ p.seen[sec] <= Len(history[p.ticket])
    BY <1>4, <1>6 DEF TabInv, Section
  <2>3. /\ ClaimsUpTo(p.ticket, p.seen[sec]) \in Nat
        /\ ClaimsUpTo(p.ticket, Len(history[p.ticket])) \in Nat
        /\ ClaimsUpTo(p.ticket, p.seen[sec]) <= ClaimsUpTo(p.ticket, Len(history[p.ticket]))
    BY <2>2, <1>8, ClaimsFinite, ClaimsGrow
  <2>4. n >= 1 /\ n <= ClaimsUpTo(p.ticket, Len(history[p.ticket]))
    BY <2>1, <2>3
  <2> QED BY <2>4, <1>3 DEF ClaimsUpTo
<1>10. ASSUME kind = "proposed" PROVE p.ticket \in Proposal /\ StatusAt(p.ticket, from)' = "backlog"
  <2>1. p.seen["ticket"] > 0 /\ p.ticket \in Proposal /\ StatusAt(p.ticket, p.seen["ticket"]) = "backlog"
    BY <1>3, <1>10 DEF Linked
  <2>2. from = p.seen["ticket"]
    BY <2>1, <1>2 DEF SeenOf
  <2> QED BY <2>1, <2>2, <1>3 DEF StatusAt
<1>11. q \in TabState /\ TabInv(q)'
    BY <1>2, <1>5, <1>6, <1>7, <1>9, <1>10, LoadingOK
<1> QED BY <1>3, <1>5, <1>11, TabStep

\* A page that followed a link is not found only if it is a proposal that was decided.
LEMMA AbsentMeansStale ==
    ASSUME HistoryInv, NEW p \in TabState, TabInv(p), p.at = "loading", Absent(p), p.base > 0
    PROVE  p.kind = "proposed" /\ Len(history[p.ticket]) > p.base
<1> USE HistoryAssumption
<1>1. p.ticket \in Ticket /\ p.attempt \in Nat /\ p.base \in Nat /\ p.kind \in Kind
    BY TabFields
<1>2. OriginInv(p) /\ p.base <= Len(history[p.ticket])
    BY DEF TabInv, Live
<1>3. Len(history[p.ticket]) \in Nat
    BY <1>1 DEF HistoryInv
<1>4. p.kind # "attempt"
  <2> SUFFICES ASSUME p.kind = "attempt" PROVE FALSE
    OBVIOUS
  <2>1. p.attempt <= ClaimsUpTo(p.ticket, Len(history[p.ticket]))
    BY <1>2 DEF OriginInv
  <2>2. p.attempt > ClaimsUpTo(p.ticket, Len(history[p.ticket]))
    BY DEF Absent
  <2>3. ClaimsUpTo(p.ticket, Len(history[p.ticket])) \in Nat
    BY <1>3, ClaimsFinite
  <2> QED BY <2>1, <2>2, <2>3, <1>1
<1>5. p.kind = "proposed" /\ ~IsProposed(p.ticket)
    BY <1>4 DEF Absent
<1>6. p.ticket \in Proposal /\ StatusAt(p.ticket, p.base) = "backlog"
    BY <1>2, <1>5 DEF OriginInv
<1>7. p.base # Len(history[p.ticket])
    BY <1>5, <1>6 DEF IsProposed, CurrentStatus, StatusAt
<1> QED BY <1>1, <1>2, <1>3, <1>5, <1>7

LEMMA ReadSectionOK ==
    ASSUME HistoryInv, WebInv, NEW b \in Tab, ReadSection(b)
    PROVE  WebInv'
<1> USE HistoryAssumption
<1>1. PICK p : p = tab[b]
    OBVIOUS
<1>2. p \in TabState /\ TabInv(p)
    BY <1>1 DEF WebInv
<1>3. p.at = "loading" /\ p.rest # <<>> /\ UNCHANGED history
    BY <1>1 DEF ReadSection
<1>4. CASE Head(p.rest) \in {"ticket", "attempt"} /\ Absent(p)
  <2>1. PICK q : q = [p EXCEPT !.at = "gone", !.base = p.base, !.rest = <<>>]
    OBVIOUS
  <2>2. q = [p EXCEPT !.at = "gone", !.rest = <<>>]
    BY <2>1, <1>2 DEF TabState
  <2>3. tab' = [tab EXCEPT ![b] = q]
    BY <1>1, <1>4, <2>2 DEF ReadSection
  <2>4. p.base \in 0 .. MaxEvents /\ p.base <= Len(history[p.ticket])
    BY <1>2, TabFields DEF TabInv
  <2>5. p.base > 0 => p.kind = "proposed" /\ Len(history[p.ticket]) > p.base
    BY <1>2, <1>3, <1>4, AbsentMeansStale
  <2>6. q \in TabState /\ TabInv(q)
    BY <1>2, <2>1, <2>4, <2>5, LeaveOK
  <2> QED BY <1>3, <2>3, <2>6, TabOnly
<1>5. CASE ~(Head(p.rest) \in {"ticket", "attempt"} /\ Absent(p))
  <2>1. PICK sec, h : sec = Head(p.rest) /\ h = Len(history[p.ticket])
    OBVIOUS
  <2>2. PICK q : q = [p EXCEPT !.rest = Tail(p.rest), !.seen = [p.seen EXCEPT ![sec] = h]]
    OBVIOUS
  <2>3. q = [p EXCEPT !.rest = Tail(@), !.seen[Head(p.rest)] = Len(history[p.ticket])]
    BY <2>1, <2>2, <1>2 DEF TabState
  <2>4. tab' = [tab EXCEPT ![b] = q]
    BY <1>1, <1>5, <2>3 DEF ReadSection
  <2>5. q \in TabState /\ TabInv(q)
    BY <1>2, <1>3, <1>5, <2>1, <2>2, AdvanceOK
  <2> QED BY <1>3, <2>4, <2>5, TabOnly
<1> QED BY <1>4, <1>5

LEMMA SectionFailsOK ==
    ASSUME HistoryInv, WebInv, NEW b \in Tab, SectionFails(b)
    PROVE  WebInv'
<1> USE HistoryAssumption
<1>1. PICK p : p = tab[b]
    OBVIOUS
<1>2. p \in TabState /\ TabInv(p)
    BY <1>1 DEF WebInv
<1>3. p.at = "loading" /\ p.rest # <<>> /\ UNCHANGED history
    BY <1>1 DEF SectionFails
<1>4. CASE Head(p.rest) \notin Optional(p.kind)
  <2>1. PICK q : q = [p EXCEPT !.at = "error", !.base = p.base, !.rest = <<>>]
    OBVIOUS
  <2>2. q = [p EXCEPT !.at = "error", !.rest = <<>>]
    BY <2>1, <1>2 DEF TabState
  <2>3. tab' = [tab EXCEPT ![b] = q]
    BY <1>1, <1>4, <2>2 DEF SectionFails
  <2>4. p.base \in 0 .. MaxEvents /\ p.base <= Len(history[p.ticket])
    BY <1>2, TabFields DEF TabInv
  <2>5. q \in TabState /\ TabInv(q)
    BY <1>2, <2>1, <2>4, LeaveOK
  <2> QED BY <1>3, <2>3, <2>5, TabOnly
<1>5. CASE Head(p.rest) \in Optional(p.kind)
  <2>1. PICK sec : sec = Head(p.rest)
    OBVIOUS
  <2>2. PICK q : q = [p EXCEPT !.rest = Tail(p.rest), !.seen = [p.seen EXCEPT ![sec] = 0]]
    OBVIOUS
  <2>3. p.seen[sec] = 0 /\ sec \in Section
    BY <1>2, <1>3, <2>1, UnreadIsZero
  <2>4. [p.seen EXCEPT ![sec] = 0] = p.seen /\ DOMAIN p = {"at", "kind", "ticket", "attempt", "rest", "seen", "base", "action"}
    BY <2>3, <1>2, TabFields
  <2>5. q = [p EXCEPT !.rest = Tail(@)]
    BY <2>2, <2>4, <1>2 DEF TabState
  <2>6. tab' = [tab EXCEPT ![b] = q]
    BY <1>1, <1>5, <2>5 DEF SectionFails
  <2>7. q \in TabState /\ TabInv(q)
    BY <1>2, <1>3, <1>5, <2>1, <2>2, AdvanceOK
  <2> QED BY <1>3, <2>6, <2>7, TabOnly
<1> QED BY <1>4, <1>5

LEMMA ShowOK ==
    ASSUME HistoryInv, WebInv, NEW b \in Tab, Show(b)
    PROVE  WebInv'
<1>1. PICK p : p = tab[b]
    OBVIOUS
<1>2. p \in TabState /\ TabInv(p)
    BY <1>1 DEF WebInv
<1>3. PICK q : q = [p EXCEPT !.at = "shown"]
    OBVIOUS
<1>4. p.at = "loading" /\ p.rest = <<>> /\ UNCHANGED history /\ tab' = [tab EXCEPT ![b] = q]
    BY <1>1, <1>3 DEF Show, WebInv
<1>5. /\ q.at = "shown" /\ q.kind = p.kind /\ q.ticket = p.ticket /\ q.attempt = p.attempt
      /\ q.base = p.base /\ q.rest = p.rest /\ q.seen = p.seen
    BY <1>2, <1>3, TabFields
<1>6. q \in TabState
    BY <1>2, <1>3 DEF TabState
<1>7. TabInv(q)
    BY <1>2, <1>4, <1>5 DEF TabInv, Live, RestInv, SeenInv, OriginInv, RefusedInv, Ran
<1> QED BY <1>4, <1>6, <1>7, TabOnly

\* A form is answered with a refusal or an error.
LEMMA AnswerOK ==
    ASSUME HistoryInv, WebInv, NEW b \in Tab, NEW at \in {"gone", "conflict", "error"}, Answer(b, at),
           tab[b].at \in {"shown", "checked"},
           at = "gone" => tab[b].kind = "proposed",
           at \in {"gone", "conflict"} => Len(history[tab[b].ticket]) # SeenOf(tab[b])
    PROVE  WebInv'
<1> USE HistoryAssumption
<1>1. PICK p : p = tab[b]
    OBVIOUS
<1>2. p \in TabState /\ TabInv(p) /\ Live(p) /\ p.rest = <<>>
    BY <1>1 DEF WebInv, TabInv, Live, RestInv
<1>3. PICK base : base = SeenOf(p)
    OBVIOUS
<1>4. PICK q : q = [p EXCEPT !.at = at, !.base = base, !.rest = <<>>]
    OBVIOUS
<1>5. UNCHANGED history /\ tab' = [tab EXCEPT ![b] = q]
  <2>1. q = [p EXCEPT !.at = at, !.base = base]
    BY <1>2, <1>4 DEF TabState
  <2> QED BY <2>1, <1>1, <1>3 DEF Answer, WebInv
<1>6. base \in 0 .. MaxEvents /\ base <= Len(history[p.ticket])
    BY <1>2, <1>3, SeenOfIsFirst
<1>7. Len(history[p.ticket]) \in Nat
    BY <1>2, TabFields DEF HistoryInv
<1>8. at \in {"gone", "conflict"} => Len(history[p.ticket]) > base
    BY <1>1, <1>3, <1>6, <1>7
<1>9. q \in TabState /\ TabInv(q)
    BY <1>1, <1>2, <1>4, <1>6, <1>8, LeaveOK
<1> QED BY <1>5, <1>9, TabOnly

LEMMA RedirectOK ==
    ASSUME HistoryInv, WebInv, NEW b \in Tab, NEW s \in Status, Redirect(b, s)
    PROVE  WebInv' /\ HistoryInv' /\ Grows
<1> USE HistoryAssumption
<1>1. PICK t, from, q : t = tab[b].ticket /\ from = Len(history'[t]) /\ q = Loading("ticket", t, 0, from)
    OBVIOUS
<1>2. t \in Ticket
    BY <1>1, TabFields DEF WebInv
<1>3. Record(t, s, FALSE) /\ FALSE \in BOOLEAN
    BY <1>1 DEF Redirect
<1>4. HistoryInv' /\ Grows
    BY <1>2, <1>3, RecordGrows
<1>5. from \in 0 .. MaxEvents /\ from <= Len(history'[t]) /\ 0 \in 0 .. MaxEvents /\ "ticket" \in Kind
    BY <1>1, <1>2, <1>4 DEF HistoryInv, Kind
<1>6. q \in TabState /\ TabInv(q)'
    BY <1>1, <1>2, <1>4, <1>5, LoadingOK
<1>7. tab' = [tab EXCEPT ![b] = q]
    BY <1>1 DEF Redirect
<1> QED BY <1>4, <1>6, <1>7, TabStep

LEMMA FirstOfTicketPage ==
    ASSUME NEW p \in TabState, TabInv(p), HistoryInv, p.at \in {"shown", "checked"},
           p.kind \in {"ticket", "proposed"}
    PROVE  SeenOf(p) = p.seen["ticket"] /\ p.seen["ticket"] > 0
<1>1. Live(p) /\ p.at # "loading" /\ p.kind \in Kind
    BY DEF Live, Kind
<1>2. Reads(p.kind)[1] = "ticket"
    BY <1>1, ReadsFacts
<1> QED BY <1>1, <1>2, SeenOfIsFirst

\* The forms a ticket page carries are those its service accepts, so one is refused
\* only if the status is another one now.
LEMMA TransitionOK ==
    ASSUME HistoryInv, WebInv, NEW b \in Tab, NEW action \in TicketAction, PostTransition(b, action)
    PROVE  WebInv' /\ HistoryInv' /\ Grows
<1>1. PICK p : p = tab[b]
    OBVIOUS
<1>2. /\ p \in TabState /\ TabInv(p) /\ p.at = "shown" /\ p.kind = "ticket"
      /\ action \in TicketActionsForStatus(StatusAt(p.ticket, p.seen["ticket"]))
    BY <1>1 DEF WebInv, PostTransition
<1>3. CASE CurrentStatus(p.ticket) \in AllowedStatuses(action)
  <2>1. TargetStatus(action) \in Status
    BY DEF TargetStatus, Status
  <2>2. PICK s : s = TargetStatus(action)
    OBVIOUS
  <2>3. Redirect(b, s)
    BY <1>1, <1>3, <2>2 DEF PostTransition
  <2> QED BY <2>1, <2>2, <2>3, RedirectOK
<1>4. CASE CurrentStatus(p.ticket) \notin AllowedStatuses(action)
  <2>1. Answer(b, "conflict")
    BY <1>1, <1>4 DEF PostTransition
  <2>2. SeenOf(p) = p.seen["ticket"]
    BY <1>2, FirstOfTicketPage
  <2>3. StatusAt(p.ticket, p.seen["ticket"]) \in AllowedStatuses(action)
    BY <1>2 DEF TicketActionsForStatus, AllowedStatuses, TicketAction
  <2>4. Len(history[p.ticket]) # SeenOf(p)
    BY <1>4, <2>2, <2>3 DEF CurrentStatus, StatusAt
  <2>5. WebInv'
    BY <1>1, <1>2, <2>1, <2>4, AnswerOK
  <2> QED BY <2>1, <2>5, SameGrows DEF Answer
<1> QED BY <1>3, <1>4

LEMMA PostTriageOK ==
    ASSUME HistoryInv, WebInv, NEW b \in Tab, NEW action \in TriageAction, PostTriage(b, action)
    PROVE  WebInv' /\ HistoryInv' /\ Grows
<1>1. PICK p : p = tab[b]
    OBVIOUS
<1>2. p \in TabState /\ TabInv(p) /\ p.at = "shown" /\ p.kind = "proposed"
    BY <1>1 DEF WebInv, PostTriage
<1>3. CASE IsProposed(p.ticket)
  <2>1. PICK q : q = [p EXCEPT !.at = "checked", !.action = action]
    OBVIOUS
  <2>2. UNCHANGED history /\ tab' = [tab EXCEPT ![b] = q]
    BY <1>1, <1>3, <2>1 DEF PostTriage, WebInv
  <2>3. /\ q.at = "checked" /\ q.kind = p.kind /\ q.ticket = p.ticket /\ q.attempt = p.attempt
        /\ q.base = p.base /\ q.rest = p.rest /\ q.seen = p.seen
    BY <1>2, <2>1, TabFields
  <2>4. q \in TabState
    BY <1>2, <2>1 DEF TabState, TriageAction, TicketAction
  <2>5. TabInv(q)
    BY <1>2, <2>3 DEF TabInv, Live, RestInv, SeenInv, OriginInv, RefusedInv, Ran
  <2> QED BY <2>2, <2>4, <2>5, TabOnly, SameGrows
<1>4. CASE ~IsProposed(p.ticket)
  <2>1. Answer(b, "gone")
    BY <1>1, <1>4 DEF PostTriage
  <2>2. SeenOf(p) = p.seen["ticket"] /\ p.seen["ticket"] > 0
    BY <1>2, FirstOfTicketPage
  <2>3. p.ticket \in Proposal /\ StatusAt(p.ticket, p.seen["ticket"]) = "backlog"
    BY <1>2, <2>2 DEF TabInv, Live, OriginInv
  <2>4. Len(history[p.ticket]) # SeenOf(p)
    BY <1>4, <2>2, <2>3 DEF IsProposed, CurrentStatus, StatusAt
  <2>5. WebInv'
    BY <1>1, <1>2, <2>1, <2>4, AnswerOK
  <2> QED BY <2>1, <2>5, SameGrows DEF Answer
<1> QED BY <1>3, <1>4

LEMMA TriageFormOK ==
    ASSUME HistoryInv, WebInv, NEW b \in Tab, Triage(b)
    PROVE  WebInv' /\ HistoryInv' /\ Grows
<1>1. PICK p : p = tab[b]
    OBVIOUS
<1>2. p \in TabState /\ TabInv(p) /\ p.at = "checked" /\ p.kind = "proposed"
    BY <1>1 DEF WebInv, Triage, TabInv, Live, RestInv
<1>3. CASE CurrentStatus(p.ticket) = "backlog"
  <2>1. PICK s : s = IF p.action \in {"ready", "enqueue"} THEN "todo" ELSE "archived"
    OBVIOUS
  <2>2. s \in Status /\ Redirect(b, s)
    BY <1>1, <1>3, <2>1 DEF Triage, Status
  <2> QED BY <2>2, RedirectOK
<1>4. CASE CurrentStatus(p.ticket) # "backlog"
  <2>1. Answer(b, "conflict")
    BY <1>1, <1>4 DEF Triage
  <2>2. SeenOf(p) = p.seen["ticket"] /\ p.seen["ticket"] > 0
    BY <1>2, FirstOfTicketPage
  <2>3. StatusAt(p.ticket, p.seen["ticket"]) = "backlog"
    BY <1>2, <2>2 DEF TabInv, Live, OriginInv
  <2>4. Len(history[p.ticket]) # SeenOf(p)
    BY <1>4, <2>2, <2>3 DEF CurrentStatus, StatusAt
  <2>5. WebInv'
    BY <1>1, <1>2, <2>1, <2>4, AnswerOK
  <2> QED BY <2>1, <2>5, SameGrows DEF Answer
<1> QED BY <1>3, <1>4

LEMMA PostFailsOK ==
    ASSUME HistoryInv, WebInv, NEW b \in Tab, PostFails(b)
    PROVE  WebInv' /\ HistoryInv' /\ Grows
<1>1. Answer(b, "error") /\ tab[b].at \in {"shown", "checked"}
    BY DEF PostFails
<1>2. WebInv'
    BY <1>1, AnswerOK
<1> QED BY <1>1, <1>2, SameGrows DEF Answer

-----------------------------------------------------------------------------
(* What the pages promise.                                                 *)

LEMMA WebStep ==
    ASSUME HistoryInv, WebInv, WebNext
    PROVE  WebInv' /\ HistoryInv' /\ Grows
<1>1. PICK b \in Tab :
        \/ \E kind \in Kind, n \in 0 .. 1 : TypeAddress(b, kind, n)
        \/ \E kind \in Kind, n \in 0 .. MaxEvents : FollowLink(b, kind, n)
        \/ ReadSection(b)
        \/ SectionFails(b)
        \/ Show(b)
        \/ \E action \in TicketAction : PostTransition(b, action)
        \/ \E action \in TriageAction : PostTriage(b, action)
        \/ Triage(b)
        \/ PostFails(b)
    BY DEF WebNext
<1>2. CASE \E kind \in Kind, n \in 0 .. 1 : TypeAddress(b, kind, n)
    BY <1>2, AddressOK, SameGrows DEF TypeAddress
<1>3. CASE \E kind \in Kind, n \in 0 .. MaxEvents : FollowLink(b, kind, n)
    BY <1>3, LinkOK, SameGrows DEF FollowLink
<1>4. CASE ReadSection(b)
    BY <1>4, ReadSectionOK, SameGrows DEF ReadSection
<1>5. CASE SectionFails(b)
    BY <1>5, SectionFailsOK, SameGrows DEF SectionFails
<1>6. CASE Show(b)
    BY <1>6, ShowOK, SameGrows DEF Show
<1>7. CASE \E action \in TicketAction : PostTransition(b, action)
    BY <1>7, TransitionOK
<1>8. CASE \E action \in TriageAction : PostTriage(b, action)
    BY <1>8, PostTriageOK
<1>9. CASE Triage(b)
    BY <1>9, TriageFormOK
<1>10. CASE PostFails(b)
    BY <1>10, PostFailsOK
<1> QED BY <1>1, <1>2, <1>3, <1>4, <1>5, <1>6, <1>7, <1>8, <1>9, <1>10

\* A page that is shown has run all its statements.
LEMMA ShownPage ==
    ASSUME WebInv, NEW b \in Tab, NEW p, p = tab[b], p.at = "shown"
    PROVE  /\ p \in TabState /\ TabInv(p) /\ RestInv(p) /\ SeenInv(p) /\ OriginInv(p)
           /\ Ran(p) = Len(Reads(p.kind))
<1>1. p \in TabState /\ TabInv(p) /\ RestInv(p) /\ SeenInv(p) /\ OriginInv(p)
    BY DEF WebInv, TabInv, Live
<1>2. p.rest = <<>>
    BY <1>1 DEF RestInv
<1>3. Len(Reads(p.kind)) \in Nat /\ Len(p.rest) = 0
    BY <1>1, <1>2, TabFields, ReadsFacts, EmptySeq
<1> QED BY <1>1, <1>3 DEF Ran

LEMMA WebInvType == HistoryInv /\ WebInv => WebTypeOK
<1> SUFFICES ASSUME HistoryInv, WebInv PROVE WebTypeOK
    OBVIOUS
<1> USE HistoryAssumption
<1> SUFFICES ASSUME NEW b \in Tab, NEW p, p = tab[b]
             PROVE  /\ \A s \in Section : p.seen[s] <= Len(history[p.ticket])
                    /\ p.at = "shown" =>
                          \A i \in 1 .. Len(Reads(p.kind)) :
                              p.seen[Reads(p.kind)[i]] = 0 => Reads(p.kind)[i] \in Optional(p.kind)
                    /\ p.kind = "attempt" /\ p.at = "shown" =>
                          p.attempt \in 1 .. ClaimsUpTo(p.ticket, p.seen["attempt"])
    BY DEF WebInv, WebTypeOK
<1>1. \A s \in Section : p.seen[s] <= Len(history[p.ticket])
    BY DEF WebInv, TabInv
<1>2. ASSUME p.at = "shown"
      PROVE  \A i \in 1 .. Len(Reads(p.kind)) :
                 p.seen[Reads(p.kind)[i]] = 0 => Reads(p.kind)[i] \in Optional(p.kind)
    BY <1>2, ShownPage DEF SeenInv
<1>3. ASSUME p.kind = "attempt", p.at = "shown"
      PROVE  p.attempt \in 1 .. ClaimsUpTo(p.ticket, p.seen["attempt"])
  <2>1. p \in TabState /\ TabInv(p) /\ OriginInv(p) /\ Live(p) /\ p.at # "loading"
    BY <1>3, ShownPage DEF Live
  <2>2. p.seen["attempt"] > 0
    BY <2>1, <1>3, SeenOfIsFirst, ReadsFacts DEF Kind
  <2>3. p.attempt >= 1 /\ p.attempt <= ClaimsUpTo(p.ticket, p.seen["attempt"])
    BY <2>1, <2>2, <1>3 DEF OriginInv
  <2>4. p.seen["attempt"] \in Nat /\ p.attempt \in Nat
    BY <2>1, TabFields DEF Section
  <2>5. ClaimsUpTo(p.ticket, p.seen["attempt"]) \in Nat
    BY <2>4, ClaimsFinite
  <2> QED BY <2>3, <2>4, <2>5
<1> QED BY <1>1, <1>2, <1>3

LEMMA WebInvRefused == HistoryInv /\ WebInv => RefusedOnlyIfStale
<1> SUFFICES ASSUME HistoryInv, WebInv, NEW b \in Tab, NEW p, p = tab[b]
             PROVE  /\ p.at = "gone" /\ p.base > 0 => p.kind = "proposed"
                    /\ p.at \in {"gone", "conflict"} /\ p.base > 0 => Len(history[p.ticket]) > p.base
                    /\ p.at = "shown" => SeenOf(p) >= p.base
    BY DEF RefusedOnlyIfStale
<1>1. RefusedInv(p)
    BY DEF WebInv, TabInv
<1>2. ASSUME p.at = "shown" PROVE SeenOf(p) >= p.base
  <2>1. p \in TabState /\ TabInv(p) /\ OriginInv(p) /\ Live(p) /\ p.at # "loading"
    BY <1>2, ShownPage DEF Live
  <2>2. SeenOf(p) = p.seen[Reads(p.kind)[1]] /\ SeenOf(p) > 0
    BY <2>1, SeenOfIsFirst
  <2> QED BY <1>2, <2>1, <2>2 DEF OriginInv
<1> QED BY <1>1, <1>2 DEF RefusedInv

\* The order of the statements is what makes a page causal: the sections that tell of
\* an effect are read before those that tell of its cause.
LEMMA WebInvCausal == HistoryInv /\ WebInv => PageIsCausal
<1> SUFFICES ASSUME HistoryInv, WebInv PROVE TicketPageIsCausal /\ AttemptPageIsCausal
    BY DEF PageIsCausal
<1> USE HistoryAssumption
<1>1. TicketPageIsCausal
  <2> SUFFICES ASSUME NEW b \in Tab, NEW p, p = tab[b], p.at = "shown", p.kind = "ticket"
               PROVE  /\ p.seen["events"] > 0 =>
                            /\ \E i \in 1 .. p.seen["events"] :
                                  history[p.ticket][i].status = StatusAt(p.ticket, p.seen["ticket"])
                            /\ ClaimsUpTo(p.ticket, p.seen["attempts"]) <= ClaimsUpTo(p.ticket, p.seen["events"])
                      /\ p.seen["attempts"] > 0 /\ StatusAt(p.ticket, p.seen["ticket"]) = "in_progress" =>
                            ClaimsUpTo(p.ticket, p.seen["attempts"]) > 0
    BY DEF TicketPageIsCausal
  <2>1. p \in TabState /\ TabInv(p) /\ SeenInv(p) /\ Ran(p) = Len(Reads(p.kind))
    BY ShownPage
  <2>2. /\ Reads(p.kind) = <<"ticket", "attempts", "events", "artifacts", "checkpoints">>
        /\ Len(Reads(p.kind)) = 5
    BY DEF Reads
  <2>3. Reads(p.kind)[1] = "ticket" /\ Reads(p.kind)[2] = "attempts" /\ Reads(p.kind)[3] = "events"
    BY <2>2
  <2>4. 1 \in 1 .. Ran(p) /\ 2 \in 1 .. Ran(p) /\ 3 \in 1 .. Ran(p) /\ 1 < 2 /\ 1 < 3 /\ 2 < 3
    <3>1. Ran(p) = 5
        BY <2>1, <2>2, Zenon
    <3> QED BY <3>1
  <2>5. /\ p.seen["attempts"] > 0 => p.seen["ticket"] <= p.seen["attempts"]
        /\ p.seen["events"] > 0 => p.seen["ticket"] <= p.seen["events"] /\ p.seen["attempts"] <= p.seen["events"]
    BY <2>1, <2>3, <2>4 DEF SeenInv
  <2>6. p.seen["ticket"] \in Nat /\ p.seen["attempts"] \in Nat /\ p.seen["events"] \in Nat
    BY <2>1, TabFields DEF Section
  <2>7. p.seen["ticket"] > 0
    BY <2>1, FirstOfTicketPage
  <2>8. ASSUME p.seen["events"] > 0
        PROVE  /\ \E i \in 1 .. p.seen["events"] :
                     history[p.ticket][i].status = StatusAt(p.ticket, p.seen["ticket"])
               /\ ClaimsUpTo(p.ticket, p.seen["attempts"]) <= ClaimsUpTo(p.ticket, p.seen["events"])
    <3>1. p.seen["ticket"] \in 1 .. p.seen["events"]
        BY <2>5, <2>6, <2>7, <2>8
    <3>2. ClaimsUpTo(p.ticket, p.seen["attempts"]) <= ClaimsUpTo(p.ticket, p.seen["events"])
        BY <2>5, <2>6, <2>8, ClaimsGrow
    <3> QED BY <3>1, <3>2 DEF StatusAt
  <2>9. ASSUME p.seen["attempts"] > 0, StatusAt(p.ticket, p.seen["ticket"]) = "in_progress"
        PROVE  ClaimsUpTo(p.ticket, p.seen["attempts"]) > 0
    <3>1. p.seen["ticket"] \in 1 .. p.seen["attempts"]
        BY <2>5, <2>6, <2>7, <2>9
    <3> QED BY <3>1, <2>6, <2>9, SomeClaim DEF StatusAt
  <2> QED BY <2>8, <2>9
<1>2. AttemptPageIsCausal
  <2> SUFFICES ASSUME NEW b \in Tab, NEW p, p = tab[b], p.at = "shown", p.kind = "attempt",
                      HasMetricsAt(p.ticket, p.attempt, p.seen["attempt"])
               PROVE  HasMetricsAt(p.ticket, p.attempt, p.seen["metrics"])
    BY DEF AttemptPageIsCausal
  <2>1. p \in TabState /\ TabInv(p) /\ SeenInv(p) /\ Ran(p) = Len(Reads(p.kind))
    BY ShownPage
  <2>2. /\ Reads(p.kind) = <<"attempt", "artifacts", "checkpoints", "metrics">>
        /\ Len(Reads(p.kind)) = 4
    BY DEF Reads
  <2>3. Reads(p.kind)[1] = "attempt" /\ Reads(p.kind)[4] = "metrics"
    BY <2>2
  <2>4. 1 \in 1 .. Ran(p) /\ 4 \in 1 .. Ran(p) /\ 1 < 4
    <3>1. Ran(p) = 4
        BY <2>1, <2>2, Zenon
    <3> QED BY <3>1
  <2>5. p.seen["attempt"] \in Nat /\ p.seen["metrics"] \in Nat /\ p.seen["attempt"] <= Len(history[p.ticket])
    BY <2>1, TabFields DEF Section, TabInv
  <2>6. p.seen["metrics"] # 0
    BY <2>1, <2>3, <2>4 DEF SeenInv, Optional
  <2>7. p.seen["attempt"] <= p.seen["metrics"]
    BY <2>1, <2>3, <2>4, <2>5, <2>6 DEF SeenInv
  <2>8. p.ticket \in Ticket /\ Len(history[p.ticket]) \in Nat
    BY <2>1, TabFields DEF HistoryInv
  <2>9. p.attempt \in 1 .. ClaimsUpTo(p.ticket, p.seen["attempt"])
    BY WebInvType DEF WebTypeOK
  <2>10. ClaimOf(p.ticket, p.attempt) \in DOMAIN history[p.ticket]
    BY <2>5, <2>8, <2>9, ClaimExists
  <2>11. ClaimOf(p.ticket, p.attempt) \in Nat
    BY <2>8, <2>10, LenProperties DEF HistoryInv
  <2>12. ClaimOf(p.ticket, p.attempt) < p.seen["metrics"]
    BY <2>5, <2>7, <2>11 DEF HasMetricsAt, EndedAt
  <2> QED BY <2>12 DEF HasMetricsAt, EndedAt
<1> QED BY <1>1, <1>2

-----------------------------------------------------------------------------
(* The theorems.                                                           *)

ConsolesInv == HistoryInv /\ TerminalInv /\ WebInv

LEMMA WebInitInv == HistoryInv /\ WebInit => WebInv
<1> SUFFICES ASSUME HistoryInv, WebInit PROVE WebInv
    OBVIOUS
<1> USE HistoryAssumption
<1>1. PICK t \in Ticket :
        tab = [b \in Tab |-> [at |-> "start", kind |-> "list", ticket |-> t, attempt |-> 0, rest |-> <<>>,
                              seen |-> Nothing, base |-> 0, action |-> "none"]]
    BY DEF WebInit
<1>2. PICK q :
        /\ q = [at |-> "start", kind |-> "list", ticket |-> t, attempt |-> 0, rest |-> <<>>,
                seen |-> Nothing, base |-> 0, action |-> "none"]
        /\ tab = [b \in Tab |-> q]
    BY <1>1
<1>3. Nothing \in [Section -> 0 .. MaxEvents] /\ \A s \in Section : Nothing[s] = 0
    BY DEF Nothing
<1>4. <<>> \in UNION {[1 .. m -> Section] : m \in 0 .. 5}
    BY EmptySeq, RestType
<1>5. q \in TabState
    BY <1>2, <1>3, <1>4 DEF TabState, Kind, TicketAction
<1>6. Len(history[t]) \in Nat
    BY DEF HistoryInv
<1>7. TabInv(q)
    BY <1>2, <1>3, <1>6 DEF TabInv, Live, RefusedInv
<1> QED BY <1>2, <1>5, <1>7 DEF WebInv

LEMMA ConsolesInitInv == ConsolesInit => ConsolesInv
BY HistoryInitInv, TerminalInitInv, WebInitInv DEF ConsolesInit, ConsolesInv

\* Whoever changes the history, both consoles are left with what they have read.
LEMMA ConsolesStep == ConsolesInv /\ [ConsolesNext]_consoleVars => ConsolesInv'
<1> SUFFICES ASSUME ConsolesInv, [ConsolesNext]_consoleVars PROVE ConsolesInv'
    OBVIOUS
<1>1. HistoryInv /\ ListOK /\ DetailOK /\ WebInv
    BY TerminalParts DEF ConsolesInv
<1>2. ASSUME HistoryInv', Grows, UNCHANGED terminalVars PROVE TerminalInv'
  <2>1. ListOK'
    BY <1>1, <1>2 DEF ListOK, terminalVars
  <2>2. DetailOK'
    BY <1>1, <1>2, DetailStays DEF terminalVars, detailVars
  <2> QED BY <2>1, <2>2, TerminalPartsNext
<1>3. ASSUME HistoryInv', Grows, UNCHANGED tab PROVE WebInv'
  <2>1. tab' \in [Tab -> TabState]
    BY <1>1, <1>3 DEF WebInv
  <2>2. ASSUME NEW c \in Tab, NEW p \in TabState, tab'[c] = p PROVE TabInv(p)'
    <3>1. TabInv(p)
        BY <1>1, <1>3, <2>2 DEF WebInv
    <3> QED BY <3>1, <1>1, <1>3, TabStays
  <2> QED BY <2>1, <2>2 DEF WebInv
<1>4. CASE WebNext /\ UNCHANGED terminalVars
    BY <1>1, <1>2, <1>4, WebStep DEF ConsolesInv
<1>5. CASE TerminalNext /\ UNCHANGED <<history, tab>>
  <2>1. HistoryInv' /\ Grows
    BY <1>1, <1>5, SameGrows
  <2>2. TerminalInv'
    BY <1>1, <1>5, ListStep, DetailStep, TerminalPartsNext
  <2> QED BY <1>3, <1>5, <2>1, <2>2 DEF ConsolesInv
<1>6. CASE (\E t \in Ticket : Elsewhere(t)) /\ UNCHANGED <<tab, terminalVars>>
  <2>1. HistoryInv' /\ Grows
    BY <1>1, <1>6, ElsewhereGrows
  <2> QED BY <1>2, <1>3, <1>6, <2>1 DEF ConsolesInv
<1>7. CASE UNCHANGED consoleVars
  <2>1. UNCHANGED history /\ UNCHANGED tab /\ UNCHANGED terminalVars
    BY <1>7 DEF consoleVars
  <2> QED BY <1>1, <1>2, <1>3, <2>1, SameGrows DEF ConsolesInv
<1> QED BY <1>4, <1>5, <1>6, <1>7 DEF ConsolesNext

LEMMA ConsolesInvariant == ConsolesSpec => []ConsolesInv
<1>1. ConsolesInit => ConsolesInv
    BY ConsolesInitInv
<1>2. ConsolesInv /\ [ConsolesNext]_consoleVars => ConsolesInv'
    BY ConsolesStep
<1> QED BY <1>1, <1>2, PTL DEF ConsolesSpec

\* A tab holds sections of the page it asked for and none of them is ahead of the
\* history; the terminal's selection is a row of its list and on the screen.
THEOREM ConsolesTypeCorrect == ConsolesSpec => []ConsoleTypeOK
<1>1. ConsolesInv => ConsoleTypeOK
    BY WebInvType DEF ConsolesInv, TerminalInv, ConsoleTypeOK
<1> QED BY <1>1, ConsolesInvariant, PTL

\* loadTimeline, renderAttemptDetail: no page shows an effect without its cause,
\* however many changes are made between its statements and whichever of the optional
\* ones fail.
THEOREM PageIsCausalHolds == ConsolesSpec => []PageIsCausal
<1>1. ConsolesInv => PageIsCausal
    BY WebInvCausal DEF ConsolesInv
<1> QED BY <1>1, ConsolesInvariant, PTL

\* A form, or a link to a proposal, is refused only if the ticket changed after the
\* page it stands on was read, and the page after a form shows the form's effect.
THEOREM RefusedOnlyIfStaleHolds == ConsolesSpec => []RefusedOnlyIfStale
<1>1. ConsolesInv => RefusedOnlyIfStale
    BY WebInvRefused DEF ConsolesInv
<1> QED BY <1>1, ConsolesInvariant, PTL

\* detailLoadedMsg: the detail on the screen is of the ticket opened last, and opening
\* a ticket again never shows an older state of it, in whatever order the answers of
\* any number of commands arrive.
THEOREM DetailIsCurrentHolds == ConsolesSpec => DetailIsCurrent
<1>1. ConsolesInv /\ ConsolesInv' /\ [ConsolesNext]_consoleVars =>
        [showDetail' =>
            /\ detail'.ticket = detailTicket'
            /\ detail.ticket = detail'.ticket /\ ~detail.err /\ ~detail'.err =>
                  \A i \in 1 .. 4 : detail.seen[i] <= detail'.seen[i]]_terminalVars
  <2> SUFFICES ASSUME ConsolesInv, ConsolesInv', [ConsolesNext]_consoleVars, ~UNCHANGED terminalVars
               PROVE  showDetail' =>
                         /\ detail'.ticket = detailTicket'
                         /\ detail.ticket = detail'.ticket /\ ~detail.err /\ ~detail'.err =>
                               \A i \in 1 .. 4 : detail.seen[i] <= detail'.seen[i]
    OBVIOUS
  <2>1. TerminalNext
    BY DEF ConsolesNext, consoleVars
  <2> QED BY <2>1, DetailMoves DEF ConsolesInv
<1> QED BY <1>1, ConsolesInvariant, PTL DEF ConsolesSpec, DetailIsCurrent
=============================================================================
