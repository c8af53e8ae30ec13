----------------------------- MODULE WebConsole -----------------------------
(***************************************************************************)
(* The pages and forms of the web console. A page is put together from     *)
(* several statements outside any transaction, so agents and other people  *)
(* change the ticket between two of them, and a form is posted from a page *)
(* that may be old. What a page shows of its ticket is, for each section,  *)
(* the length of the history when the section was read (0: it could not be *)
(* loaded). A tab is one browser window that follows links, loads a page   *)
(* and posts forms. Nothing of a page outlives the next address typed, so  *)
(* a tab stays with one ticket here.                                       *)
(***************************************************************************)
EXTENDS TicketHistory

CONSTANT Tab

VARIABLE tab

Section == {"ticket", "attempt", "attempts", "events", "artifacts", "checkpoints", "metrics", "titles"}

\* "list" stands for the pages of one statement that link to tickets: the queue,
\* the search results, the proposals.
Kind == {"list", "ledger", "ticket", "attempt", "proposed"}

\* Mutant: the events of a ticket are read before its attempts.
EventsBeforeAttempts(kind) ==
    CASE kind = "list"     -> <<"ticket">>
      [] kind = "ledger"   -> <<"events", "titles">>
      [] kind = "ticket"   -> <<"ticket", "events", "attempts", "artifacts", "checkpoints">>
      [] kind = "attempt"  -> <<"attempt", "artifacts", "checkpoints", "metrics">>
      [] kind = "proposed" -> <<"ticket">>

\* The statements behind a page, in the order the handler runs them.
Reads(kind) ==
    CASE kind = "list"     -> <<"ticket">>
      [] kind = "ledger"   -> <<"events", "titles">>
      [] kind = "ticket"   -> <<"ticket", "attempts", "events", "artifacts", "checkpoints">>
      [] kind = "attempt"  -> <<"attempt", "artifacts", "checkpoints", "metrics">>
      [] kind = "proposed" -> <<"ticket">>

\* A section whose statement fails is left out of these pages; elsewhere the
\* failure is the answer.
Optional(kind) ==
    CASE kind = "ticket" -> {"attempts", "events", "artifacts", "checkpoints"}
      [] kind = "ledger" -> {"titles"}
      [] OTHER           -> {}

Nothing == [s \in Section |-> 0]

\* at: what the tab shows or waits for. base: the length of the history when
\* the page was read whose link or form was used, 0 if the address was typed.
TabState ==
    [at : {"start", "loading", "shown", "checked", "gone", "conflict", "error"},
     kind : Kind, ticket : Ticket, attempt : 0 .. MaxEvents,
     rest : UNION {[1 .. n -> Section] : n \in 0 .. 5},
     seen : [Section -> 0 .. MaxEvents], base : 0 .. MaxEvents, action : TicketAction \cup {"enqueue", "reject", "none"}]

\* A tab shows sections of the page it asked for, none of them ahead of the
\* ticket's history, and a page with a missing section is of a kind that allows it.
WebTypeOK ==
    /\ tab \in [Tab -> TabState]
    /\ \A b \in Tab : LET p == tab[b] IN
        /\ \A s \in Section : p.seen[s] <= Len(history[p.ticket])
        /\ p.at = "shown" =>
              \A i \in 1 .. Len(Reads(p.kind)) :
                  p.seen[Reads(p.kind)[i]] = 0 => Reads(p.kind)[i] \in Optional(p.kind)
        /\ p.kind = "attempt" /\ p.at = "shown" => p.attempt \in 1 .. ClaimsUpTo(p.ticket, p.seen["attempt"])

WebInit ==
    \E t \in Ticket :
        tab = [b \in Tab |-> [at |-> "start", kind |-> "list", ticket |-> t, attempt |-> 0, rest |-> <<>>,
                              seen |-> Nothing, base |-> 0, action |-> "none"]]

-----------------------------------------------------------------------------
(* Pages.                                                                  *)

Loading(kind, t, n, from) ==
    [at |-> "loading", kind |-> kind, ticket |-> t, attempt |-> n, rest |-> Reads(kind),
     seen |-> Nothing, base |-> from, action |-> "none"]

Idle(b) == tab[b].at \notin {"loading", "checked"}

\* An address from a bookmark or another person: the attempt need not exist.
TypeAddress(b, kind, n) ==
    /\ Idle(b)
    /\ n = 0 <=> kind # "attempt"
    /\ tab' = [tab EXCEPT ![b] = Loading(kind, tab[b].ticket, n, 0)]
    /\ UNCHANGED history

\* The links a page carries: to its ticket, to the attempts it lists or whose
\* events it lists, and to the proposal while the ticket it read is one.
Linked(p, kind, n) ==
    \/ kind \in {"ticket", "ledger", "list"} /\ n = 0
    \/ kind = "attempt"
       /\ \/ n \in 1 .. ClaimsUpTo(p.ticket, p.seen["attempts"])
          \/ p.kind = "ledger" /\ n \in 1 .. ClaimsUpTo(p.ticket, p.seen["events"])
    \/ kind = "proposed" /\ n = 0 /\ p.seen["ticket"] > 0
       /\ p.ticket \in Proposal /\ StatusAt(p.ticket, p.seen["ticket"]) = "backlog"

\* The newest statement behind what the user looks at.
SeenOf(p) == IF p.seen["ticket"] > 0 THEN p.seen["ticket"] ELSE p.seen[Reads(p.kind)[1]]

FollowLink(b, kind, n) ==
    LET p == tab[b] IN
    /\ p.at = "shown"
    /\ Linked(p, kind, n)
    /\ tab' = [tab EXCEPT ![b] = Loading(kind, p.ticket, n, SeenOf(p))]
    /\ UNCHANGED history

\* Not found: no such attempt, or the ticket is not (any longer) proposed.
Absent(p) ==
    \/ p.kind = "attempt" /\ p.attempt > ClaimsUpTo(p.ticket, Len(history[p.ticket]))
    \/ p.kind = "proposed" /\ ~IsProposed(p.ticket)

\* The next statement of the page returns.
ReadSection(b) ==
    LET p == tab[b] IN
    /\ p.at = "loading"
    /\ p.rest # <<>>
    /\ tab' = [tab EXCEPT ![b] =
                 IF Head(p.rest) \in {"ticket", "attempt"} /\ Absent(p)
                 THEN [p EXCEPT !.at = "gone", !.rest = <<>>]
                 ELSE [p EXCEPT !.rest = Tail(@), !.seen[Head(p.rest)] = Len(history[p.ticket])]]
    /\ UNCHANGED history

\* Or it fails.
SectionFails(b) ==
    LET p == tab[b] IN
    /\ p.at = "loading"
    /\ p.rest # <<>>
    /\ tab' = [tab EXCEPT ![b] =
                 IF Head(p.rest) \in Optional(p.kind)
                 THEN [p EXCEPT !.rest = Tail(@)]
                 ELSE [p EXCEPT !.at = "error", !.rest = <<>>]]
    /\ UNCHANGED history

Show(b) ==
    /\ tab[b].at = "loading"
    /\ tab[b].rest = <<>>
    /\ tab' = [tab EXCEPT ![b].at = "shown"]
    /\ UNCHANGED history

-----------------------------------------------------------------------------
(* Forms.                                                                  *)

\* Mutant: review can be asked for while an agent works.
OfferReviewAlways(s) ==
    {action \in TicketAction :
        \/ action = "ready" /\ s = "backlog"
        \/ action = "reopen" /\ s \in {"done", "failed"}
        \/ action = "unblock" /\ s = "blocked"
        \/ action = "request-review" /\ s \in {"blocked", "todo", "in_progress", "failed", "done"}
        \/ action = "archive" /\ s \in {"backlog", "todo", "blocked", "needs_review", "done", "failed"}}

\* The forms a ticket page carries for the status it shows.
TicketActionsForStatus(s) ==
    {action \in TicketAction :
        \/ action = "ready" /\ s = "backlog"
        \/ action = "reopen" /\ s \in {"done", "failed"}
        \/ action = "unblock" /\ s = "blocked"
        \/ action = "request-review" /\ s \in {"blocked", "todo", "failed", "done"}
        \/ action = "archive" /\ s \in {"backlog", "todo", "blocked", "needs_review", "done", "failed"}}

TriageAction == {"ready", "enqueue", "reject", "archive"}

Answer(b, at) ==
    /\ tab' = [tab EXCEPT ![b].at = at, ![b].base = SeenOf(tab[b])]
    /\ UNCHANGED history

\* The change is made and the browser is sent to the ticket's page.
Redirect(b, s) ==
    LET t == tab[b].ticket IN
    /\ Record(t, s, FALSE)
    /\ tab' = [tab EXCEPT ![b] = Loading("ticket", t, 0, Len(history'[t]))]

\* POST /tickets/{id}/{action}.
PostTransition(b, action) ==
    LET p == tab[b] IN
    /\ p.at = "shown" /\ p.kind = "ticket"
    /\ action \in TicketActionsForStatus(StatusAt(p.ticket, p.seen["ticket"]))
    /\ IF CurrentStatus(p.ticket) \in AllowedStatuses(action)
       THEN Redirect(b, TargetStatus(action))
       ELSE Answer(b, "conflict")

\* POST /proposed/{id}/{action}: the ticket is read first, ...
PostTriage(b, action) ==
    LET p == tab[b] IN
    /\ p.at = "shown" /\ p.kind = "proposed"
    /\ IF IsProposed(p.ticket)
       THEN tab' = [tab EXCEPT ![b].at = "checked", ![b].action = action] /\ UNCHANGED history
       ELSE Answer(b, "gone")

\* ... then updated if it is still in backlog.
Triage(b) ==
    LET p == tab[b] IN
    /\ p.at = "checked"
    /\ IF CurrentStatus(p.ticket) = "backlog"
       THEN Redirect(b, IF p.action \in {"ready", "enqueue"} THEN "todo" ELSE "archived")
       ELSE Answer(b, "conflict")

\* The service's statement fails: nothing is written.
PostFails(b) ==
    /\ \/ tab[b].at = "shown" /\ tab[b].kind \in {"ticket", "proposed"}
       \/ tab[b].at = "checked"
    /\ Answer(b, "error")

WebNext ==
    \E b \in Tab :
        \/ \E kind \in Kind, n \in 0 .. 1 : TypeAddress(b, kind, n)
        \/ \E kind \in Kind, n \in 0 .. MaxEvents : FollowLink(b, kind, n)
        \/ ReadSection(b)
        \/ SectionFails(b)
        \/ Show(b)
        \/ \E action \in TicketAction : PostTransition(b, action)
        \/ \E action \in TriageAction : PostTriage(b, action)
        \/ Triage(b)
        \/ PostFails(b)

-----------------------------------------------------------------------------
(* Properties.                                                             *)

\* loadTimeline: a ticket page never shows an effect without its cause. The
\* status it shows is told by an event it shows, a ticket in progress has an
\* attempt, and each attempt it lists has its claim among the events.
TicketPageIsCausal ==
    \A b \in Tab : LET p == tab[b] IN
        p.at = "shown" /\ p.kind = "ticket" =>
            /\ p.seen["events"] > 0 =>
                  /\ \E i \in 1 .. p.seen["events"] :
                        history[p.ticket][i].status = StatusAt(p.ticket, p.seen["ticket"])
                  /\ ClaimsUpTo(p.ticket, p.seen["attempts"]) <= ClaimsUpTo(p.ticket, p.seen["events"])
            /\ p.seen["attempts"] > 0 /\ StatusAt(p.ticket, p.seen["ticket"]) = "in_progress" =>
                  ClaimsUpTo(p.ticket, p.seen["attempts"]) > 0

\* renderAttemptDetail: a page that shows an attempt as ended shows the metrics
\* the agent reported when it ended it.
AttemptPageIsCausal ==
    \A b \in Tab : LET p == tab[b] IN
        p.at = "shown" /\ p.kind = "attempt" /\ HasMetricsAt(p.ticket, p.attempt, p.seen["attempt"]) =>
            HasMetricsAt(p.ticket, p.attempt, p.seen["metrics"])

\* No page shows an effect without its cause, although every section is a statement
\* of its own and the ticket moves on between them (loadTimeline, renderAttemptDetail).
PageIsCausal == TicketPageIsCausal /\ AttemptPageIsCausal

\* A form or a link to a proposal is refused (404, 409) only if the ticket
\* changed after the page was read; other links always lead somewhere; the
\* page after a form shows that form's effect.
RefusedOnlyIfStale ==
    \A b \in Tab : LET p == tab[b] IN
        /\ p.at = "gone" /\ p.base > 0 => p.kind = "proposed"
        /\ p.at \in {"gone", "conflict"} /\ p.base > 0 => Len(history[p.ticket]) > p.base
        /\ p.at = "shown" => SeenOf(p) >= p.base
=============================================================================
