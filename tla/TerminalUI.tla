----------------------------- MODULE TerminalUI -----------------------------
(***************************************************************************)
(* The terminal queue browser. It lists the tickets once, moves a          *)
(* selection over them, and opens a ticket by a command that reads the     *)
(* ticket's timeline in the background, in four statements, and answers    *)
(* with a message. The user goes on typing meanwhile, so answers arrive    *)
(* late, out of order, or for a ticket that is not wanted any more.        *)
(***************************************************************************)
EXTENDS TicketHistory

CONSTANTS
    Queue,      \* the tickets as ListTickets returned them, in order
    MinRows,    \* the least number of rows the queue is shown in
    MaxRows,    \* bound on the terminal's height
    MaxFilter,  \* bound on the characters of the filter
    MaxOpens    \* bound on the details opened

ASSUME TerminalAssumption ==
    /\ Queue \in Seq(Ticket)
    /\ MinRows \in Nat \ {0} /\ MaxRows \in Nat /\ MinRows <= MaxRows
    /\ MaxFilter \in Nat
    /\ MaxOpens \in Nat

VARIABLES
    mode,       \* "loading", "list", "filtering", "over"
    tickets,    \* the rows of the model
    selected,   \* index of the selected row
    filter,     \* for each character typed, the rows that match so far
    rows,       \* how many rows fit on the screen
    detailSeq,  \* number of the last detail asked for
    detailTicket,
    loads,      \* the commands in flight
    showDetail,
    detail      \* the detail last put on the screen

terminalVars == <<mode, tickets, selected, filter, rows, detailSeq, detailTicket, loads, showDetail, detail>>

Timeline == <<"attempts", "checkpoints", "events", "artifacts">>

Unread == [i \in 1 .. 4 |-> 0]

\* A command: which request it answers, and how far its reading has got
\* (seen[i]: the length of the history when part i was read).
Load == [seq : 1 .. MaxOpens, ticket : Ticket, read : 0 .. 4, seen : [1 .. 4 -> 0 .. MaxEvents], err : BOOLEAN]

TerminalInit ==
    /\ mode = "loading"
    /\ tickets = <<>>
    /\ selected = 1
    /\ filter = <<>>
    /\ rows = MinRows
    /\ detailSeq = 0
    /\ detailTicket = CHOOSE t \in Ticket : TRUE  \* not looked at before the first detail
    /\ loads = {}
    /\ showDetail = FALSE
    /\ detail = [seq |-> 0, ticket |-> detailTicket, read |-> 0, seen |-> Unread, err |-> FALSE]

-----------------------------------------------------------------------------
(* The list.                                                               *)

\* Without its list the program prints the error and quits.
LoadQueue(ok) ==
    /\ mode = "loading"
    /\ IF ok THEN mode' = "list" /\ tickets' = Queue
             ELSE mode' = "over" /\ UNCHANGED tickets
    /\ UNCHANGED <<selected, filter, rows, detailSeq, detailTicket, loads, showDetail, detail>>

Matching(f) == IF f = <<>> THEN DOMAIN tickets ELSE f[Len(f)]

\* The first row that matches a non-empty filter, else the first row.
FirstVisibleIndex(f) ==
    IF f = <<>> \/ Matching(f) = {} THEN 1
    ELSE CHOOSE i \in Matching(f) : \A j \in Matching(f) : i <= j

\* Mutant: the window starts one row early.
WindowOneEarly ==
    LET start == IF selected > rows THEN selected - rows ELSE 1
    IN  {i \in start .. start + rows - 1 : i \in Matching(filter)}

\* The rows on the screen: a window that ends at the selection once that is
\* below the first screenful, and of it the rows that match.
VisibleTickets ==
    LET start == IF selected > rows THEN selected - rows + 1 ELSE 1
    IN  {i \in start .. start + rows - 1 : i \in Matching(filter)}

Resize ==
    /\ mode \in {"list", "filtering"}
    /\ rows' \in MinRows .. MaxRows
    /\ UNCHANGED <<mode, tickets, selected, filter, detailSeq, detailTicket, loads, showDetail, detail>>

\* The keys of the list reach it while no detail covers it.
Listing(m) == mode = m /\ ~showDetail

MoveDown ==
    /\ Listing("list")
    /\ selected' = IF selected < Len(tickets) THEN selected + 1 ELSE selected
    /\ UNCHANGED <<mode, tickets, filter, rows, detailSeq, detailTicket, loads, showDetail, detail>>

MoveUp ==
    /\ Listing("list")
    /\ selected' = IF selected > 1 THEN selected - 1 ELSE selected
    /\ UNCHANGED <<mode, tickets, filter, rows, detailSeq, detailTicket, loads, showDetail, detail>>

StartFilter ==
    /\ Listing("list")
    /\ mode' = "filtering"
    /\ UNCHANGED <<tickets, selected, filter, rows, detailSeq, detailTicket, loads, showDetail, detail>>

SetFilter(f) == filter' = f /\ selected' = FirstVisibleIndex(f)

\* One more character: what matches the longer text matched the shorter one.
TypeFilter ==
    /\ Listing("filtering")
    /\ Len(filter) < MaxFilter
    /\ \E S \in SUBSET Matching(filter) : SetFilter(Append(filter, S))
    /\ UNCHANGED <<mode, tickets, rows, detailSeq, detailTicket, loads, showDetail, detail>>

Backspace ==
    /\ Listing("filtering")
    /\ filter # <<>>
    /\ SetFilter(SubSeq(filter, 1, Len(filter) - 1))
    /\ UNCHANGED <<mode, tickets, rows, detailSeq, detailTicket, loads, showDetail, detail>>

ApplyFilter ==
    /\ Listing("filtering")
    /\ mode' = "list"
    /\ UNCHANGED <<tickets, selected, filter, rows, detailSeq, detailTicket, loads, showDetail, detail>>

ClearFilter ==
    /\ Listing("filtering")
    /\ mode' = "list"
    /\ SetFilter(<<>>)
    /\ UNCHANGED <<tickets, rows, detailSeq, detailTicket, loads, showDetail, detail>>

-----------------------------------------------------------------------------
(* The detail.                                                             *)

\* Enter: the command gets the next number.
LoadSelectedDetail ==
    /\ Listing("list")
    /\ tickets # <<>>
    /\ detailSeq < MaxOpens
    /\ detailSeq' = detailSeq + 1
    /\ detailTicket' = tickets[selected]
    /\ loads' = loads \cup {[seq |-> detailSeq + 1, ticket |-> tickets[selected], read |-> 0,
                             seen |-> Unread, err |-> FALSE]}
    /\ UNCHANGED <<mode, tickets, selected, filter, rows, showDetail, detail>>

\* The command runs one statement of LoadTicketTimeline; the first error ends it.
ReadTimeline(l, ok) ==
    /\ mode # "over"
    /\ l.read < 4
    /\ loads' = (loads \ {l}) \cup
          {IF ok THEN [l EXCEPT !.read = @ + 1, !.seen[l.read + 1] = Len(history[l.ticket])]
                 ELSE [l EXCEPT !.read = 4, !.err = TRUE]}
    /\ UNCHANGED <<mode, tickets, selected, filter, rows, detailSeq, detailTicket, showDetail, detail>>

Deliver(l, wanted) ==
    /\ mode # "over"
    /\ l.read = 4
    /\ loads' = loads \ {l}
    /\ IF wanted THEN detail' = l /\ showDetail' = TRUE
                 ELSE UNCHANGED <<detail, showDetail>>
    /\ UNCHANGED <<mode, tickets, selected, filter, rows, detailSeq, detailTicket>>

\* Mutant: the number of the answer is not looked at.
DetailLoadedByTicket(l) == Deliver(l, l.ticket = detailTicket)

\* detailLoadedMsg: an answer to another than the last request is dropped.
DetailLoaded(l) == Deliver(l, l.seq = detailSeq /\ l.ticket = detailTicket)

Back ==
    /\ mode # "over" /\ showDetail
    /\ showDetail' = FALSE
    /\ UNCHANGED <<mode, tickets, selected, filter, rows, detailSeq, detailTicket, loads, detail>>

\* q, esc, ctrl+c: the program ends and drops what is in flight.
Quit ==
    /\ mode = "list" \/ (mode = "filtering" /\ showDetail)
    /\ mode' = "over"
    /\ loads' = {}
    /\ UNCHANGED <<tickets, selected, filter, rows, detailSeq, detailTicket, showDetail, detail>>

Background == \E l \in loads : ReadTimeline(l, TRUE) \/ ReadTimeline(l, FALSE) \/ DetailLoaded(l)

TerminalNext ==
    \/ \E ok \in BOOLEAN : LoadQueue(ok)
    \/ Resize
    \/ MoveDown
    \/ MoveUp
    \/ StartFilter
    \/ TypeFilter
    \/ Backspace
    \/ ApplyFilter
    \/ ClearFilter
    \/ LoadSelectedDetail
    \/ Background
    \/ Back
    \/ Quit

-----------------------------------------------------------------------------
(* Properties.                                                             *)

\* A message answers a request that was made, the selection is a row of the list (the
\* code indexes the list with it), and it is on the screen unless the filter hides it:
\* visibleTickets computes the window anew from the selection after every key, every
\* change of the filter and every change of the window's height.
TerminalTypeOK ==
    /\ mode \in {"loading", "list", "filtering", "over"}
    /\ tickets \in {<<>>, Queue}
    /\ selected \in 1 .. Len(tickets) \/ (tickets = <<>> /\ selected = 1)
    /\ filter \in Seq(SUBSET DOMAIN Queue) /\ Len(filter) <= MaxFilter
    /\ rows \in MinRows .. MaxRows
    /\ detailSeq \in 0 .. MaxOpens
    /\ loads \subseteq Load /\ \A l \in loads : l.seq <= detailSeq
    /\ showDetail \in BOOLEAN
    /\ detailSeq > 0 => detailTicket \in Ticket
    /\ showDetail => detail \in Load
    /\ tickets # <<>> /\ selected \in Matching(filter) => selected \in VisibleTickets

\* The detail on the screen is of the ticket that was opened last, and opening a ticket
\* again never shows an older state of it: answers that arrive late or out of order
\* are dropped (detailLoadedMsg).
DetailIsCurrent ==
    [][showDetail' =>
          /\ detail'.ticket = detailTicket'
          /\ detail.ticket = detail'.ticket /\ ~detail.err /\ ~detail'.err =>
                \A i \in 1 .. 4 : detail.seen[i] <= detail'.seen[i]]_terminalVars
=============================================================================
