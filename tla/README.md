# A TLA+ verification of Forge

Forge is a ledger of work for AI agents, written in Go over PostgreSQL. Agents pull tickets
(`claim-next`), keep a lease alive with heartbeats, and report how their attempt ended; workers
expire attempts whose lease lapsed and deliver events to webhook subscribers. There is no
coordinator: every rule is enforced by single SQL statements of `src/sql/queries`, run concurrently
at READ COMMITTED by any number of API, MCP, CLI and worker processes. What can go wrong is
therefore in the interleavings: between the snapshot and the locks of one statement, between the
statements of one worker pass, between a call and its retry, between the disk and the database.

Six specifications model that core, and eight more the parts around it: the calls agents make over
REST, MCP and the command line, the analytics over what they leave, plans of child tickets, migrations,
logins, the web console and the terminal browser. TLC checks them on small instances (section 4), TLAPS
proves their safety properties for every value of the constants (section 5).

## 1. Inventory

| Part | State | Operations | What is hard | What makes it correct |
|---|---|---|---|---|
| Ticket service (`internal/services/tickets.go`, `sql/queries/tickets.sql`) | `tickets.status`, dependencies, retry policy; `ticket_events` | create, mark ready, reopen, unblock, request review, review, archive, update; triage of proposals: ready, enqueue, reject, archive, merge, refine | transitions race with claims, with attempts that end and with each other; triage checks first and acts later | a ticket is never moved under a running attempt; each move writes its event; archived is final; a proposal is decided once |
| Claim service (`claims.go`, `claims.sql`, `idempotency.sql`) | `attempts`, `idempotency_keys` | claim next, replay | one statement reads a snapshot and locks a row of a later state; retries of a lost answer | one running attempt per ticket; dependencies and retry budget respected; one attempt per key |
| Attempt service (`attempts.go`, `attempts.sql`, `transitions.sql`) | `attempts.status`, lease, checkpoints, metrics | heartbeat, checkpoint, complete, fail, block, cancel | late calls after the lease expired | an attempt that ended never changes; tickets and attempts agree |
| Maintenance worker (`internal/jobs/maintenance.go`, `river.go`) | none of its own: a list and a cutoff per pass | expire attempts, delete old keys and deliveries | list then act; batch limit; crash between two statements | a renewed lease survives; every lapsed attempt is handled |
| Webhook worker (`internal/jobs/webhooks.go`, `webhooks.sql`, migrations 0004, 0007, 0011) | `webhook_deliveries`: status, count, lock, token | claim batch, POST, mark, take over, clean up | lock that lapses, stale worker, lost answers, crash after POST | at-least-once; a stale worker overwrites nothing; every delivery settles |
| Event feed (`events.go`, `events.sql`, migration 0006) | `ticket_events.event_sequence`, the readers' cursors | list recent, list after cursor | a number is drawn at insert and seen at commit, so events can appear behind a cursor | the feed of an attempt has no hole; paging loses nothing |
| Artifacts and storage (`artifacts.go`, `internal/storage`, `codex complete`/`codex block` of `internal/cli/cli.go`) | `artifacts`, files or S3 objects | upload, register, clean up, delete, open | disk and database share no transaction; a URL may stand in several rows | no evidence lost, no file orphaned, by anything but a crash or an explicit deletion |
| Runtime (`internal/runtime/runtime.go`) | connection pool | which operations run in a transaction | operations that are not | a state change and its event commit together |
| Ticket decomposition and templates (`ticket_decomposition.go`, `ticket_templates.go`) | child tickets and their dependencies | decompose, follow-up from an attempt | a depth-first search over untrusted keys; rows written one by one | no cycle passes, no plan without one is refused; all children with all dependencies, or none |
| Migration runner (`internal/cli/migrate.go`) | `forge_schema_migrations` and the schema | migrate, with or without `--baseline-existing` | two migrators on a database without the table they lock; releases that differ; a run cut off; edited files | whole releases only; what is recorded is there; a success lasts |
| Web console sessions (`internal/web/handler.go`) | one login throttle per process; cookies that carry their own expiry | login, page, restart | the throttle is checked and counted in separate steps; nothing about a session is stored | tries per window are bounded; a session ends with its time or its token |
| Web console pages (`internal/web/handler.go`) | none on the server; what a tab shows | lists, search, event ledger, ticket, attempt and proposal pages; transition and triage forms | a page is several statements; a form comes from an old page | no effect shown without its cause; a form is refused only if the ticket changed |
| Terminal UI (`internal/tui`) | selection, filter, height, number of the last detail | keys, resize, asynchronous loads | answers of old loads that arrive late | what is shown is what was opened last; the selected row is on the screen |
| REST API, MCP server, CLI (`internal/api`, `internal/mcp`, `internal/cli`) | none: a call in progress | decode, call a service, word the result | one runtime, three wordings; calls given up and repeated while they are at work | an answer is true when it arrives and stays true |
| Analytics (`analytics.go`, `metrics.sql`) | none | summary, groupings, trends | left joins, blank models, totals that outgrow a column's type | groupings and summary agree |
| Policy, capabilities, workspaces, search, observability | registrations | decisions and read-only queries | | |
| Configuration, contracts | none | parsing, documentation of the contracts | | |
| Generated query layer (`internal/db`) | none | code generated from `sql/queries` | | |

How they interact: API, MCP, CLI, web and terminal UI call the services through `Runtime`; services
call the query layer; every rule about status lives in the statements. The workers share nothing with
the services but the database. A trigger on `ticket_events` (migration 0004) enqueues one delivery
per subscribed endpoint; the webhook worker claims them with a lock and a token. The event feed reads
the same table. Artifacts join the attempt's last transaction.

## 2. Modules

| Module | Models | Uses |
|---|---|---|
| `Ledger` | tickets, attempts, claims, maintenance worker | instantiates `WorkBoard` |
| `WorkBoard` | what the users of the ledger are promised: a board of tickets | |
| `WebhookDelivery` | the delivery worker, the enqueue trigger, retention | instantiates `AtLeastOnce` |
| `AtLeastOnce` | what a subscriber is promised | |
| `ClaimIdempotency` | claim-next with idempotency keys, replay, retention | |
| `EventFeed` | numbering, commit order and paging of events | |
| `Triage` | proposals, follow-up tickets, triage calls, refinement | |
| `Artifacts` | proofs of `codex complete`/`block`, registration, deletion | |
| `AgentCalls` | the calls of agents, their transactions and answers, over three channels | |
| `Analytics` | the reports over attempts and metrics | extends `AgentCalls` |
| `Decomposition` | a plan: cycle search, transaction, the children's work | |
| `Migrations` | `forge migrate` | |
| `WebSession` | login throttle, session cookies, admin token | |
| `TicketHistory` | what a console can read of a ticket: a prefix of its history | |
| `WebConsole` | pages, links and forms | extends `TicketHistory` |
| `TerminalUI` | the queue browser and its background loads | extends `TicketHistory` |
| `Consoles` | both consoles over one `TicketHistory` that everybody else changes too | extends `WebConsole`, `TerminalUI` |
| `LedgerProofs`, `WebhookProofs`, `IdempotencyProofs`, `FeedProofs`, `ArtifactsProofs` | theorems | extend the specification and `TLAPS` |
| `Parts` | `Migrations`, `Decomposition`, `WebSession`, `AgentCalls` and `Analytics` side by side | extends them |
| `AdminProofs` | theorems about `WebSession`, `Migrations`, `Triage` and `Decomposition` | extends them and `TLAPS` |
| `CallsProofs` | theorems about `AgentCalls`, `Analytics` and `Parts` | extends `Parts`, `AdminProofs` and `TLAPS` |
| `ConsoleProofs` | theorems about `Consoles` | extends it and `TLAPS` |
| `MCLedger`, `MCWebhook`, `MCIdempotency`, `MCEventFeed`, `MCTriage`, `MCArtifacts` | instances for TLC | extend the specification |
| `MCParts` | instance for TLC of `Parts`, with one part moving at a time | extends it |
| `MCConsole` | instance for TLC of `Consoles`, with a user at one console at a time | extends it |

Each module keeps, beside the definitions that model code, *mutants*: operators named in a comment
as such, which are a definition with a plausible mistake. Nothing uses them; with the mistaken form in
place of the definition TLC refutes the property listed for it in `PROJECT.json`.

### Common abstractions

* **A statement is a step.** PostgreSQL at READ COMMITTED evaluates the sub-selects of a statement in
  the snapshot taken at its start, and re-reads and re-checks a row it has to wait for. For most
  statements both happen at once as far as any other statement can tell. `ClaimNextTicket` is the
  exception, because it decides on rows it does not lock; it is two steps in `Ledger`.
  `FailAttempt` and `ExpireAttempt` count failures in the snapshot too, but that count cannot change
  under them: one running attempt per ticket, and they hold it.
* **Order.** `ORDER BY` with `SKIP LOCKED` picks the first candidate that nobody holds; which one
  that is depends on locks, so the choice is left open. Properties hold for every choice.
* **One clock.** Servers and workers use the database's or a synchronised clock: one variable `now`.
* **Data.** Titles, inputs, outputs, payloads and validation messages are left out; of an attempt's
  metrics the cost stands for all.
  Dependencies and retry policies are constants of an instance. `max_attempts` may be 0, as the code
  allows.
* **Bounds** are constants: `MaxTime`, `MaxStops`, `MaxSeq`, `MaxVersion`, `MaxProofs`, and the finite
  sets of attempts, calls and locations. The theorems hold for every value of them.

### Ledger

`status`, `attStatus`, `attTicket`, `lease` are columns; `finished` is a history variable. Events are
left to `Triage` and `EventFeed`. `snapshot[c]` are the candidates a claim in flight saw;
`cutoff[w]` and `batch[w]` are the locals of a maintenance pass. `CreateTicket` and the transitions
are the guarded statements of `tickets.sql`; `ClaimNext`/`ClaimNextTicket`/`ClaimMiss` the claim;
`HeartbeatAttempt`, `CompleteAttempt`, `FailAttempt`, `BlockAttempt`, `CancelAttempt` the statements of
`attempts.sql` and `transitions.sql`; `StartPass`, `ExpireAttempt`, `SkipExpiryRace`, `StopPass` the
pass of `maintenance.go`. Of a follow-up ticket, which is created
without a transaction and has no dependencies, the row is inserted as in `CreateTicket`; that its event is
a statement of its own is in `Triage` and `AgentCalls`. Checkpoint and metrics rows are in `AgentCalls`
(and a checkpoint's event in `EventFeed!Progress`).

`WorkBoard` knows columns, holders and what was completed, and nothing of statements, snapshots, leases,
retries or workers. `BoardColumn` says where a status is on the board (backlog, blocked, needs_review and
failed are all idle), the holders of a ticket are its running attempts; `KeepsBoard` is the refinement.

### WebhookDelivery and AtLeastOnce

A delivery is a row with status, `attempt_count`, lock and token; a worker's pass claims a batch,
POSTs one delivery after the other and marks each result under the token it claimed with. Answers get
lost, a worker can stall past its lock (unless it is in `Prompt`) and crash after a POST. `AtLeastOnce`
knows only whether a delivery is open, succeeded or given up and whether the endpoint received it;
`KeepsPromise` is the refinement.

### ClaimIdempotency

A call looks its key up, replays or refuses on a hit, and otherwise runs the claim statement, which
inserts ticket change, attempt and key record together, then reads the ticket to build the answer;
any of the later steps can fail and the answer can be lost. Maintenance deletes records whose
retention is over.

### EventFeed

A writer draws a number when it inserts its event, holding the row locks its statement takes, and the
event is visible at commit. `UpdateTicket` is inside a transaction, `RefineProposedTicket` is not and
writes its event without the ticket's lock. A reader asks for the recent window first and then for
what follows its cursor.

### Triage

A triage call reads the ticket (`requireProposedTicket`), and in later statements acts on it: the
status transition is guarded again, the update of a refinement is not. `history[t]` is the sequence of
a ticket's events, an event that tells a status by its type or, of a creation, by its data (`StatusTold`).
`CreateTicketFromAttempt` inserts the row of a follow-up ticket, `CreateTicketEvent` its event; in between
everybody else sees the ticket, and a call that is cut off there (`BreakOff`) stays on record as `cut_off`, so
that what it left behind can be told from what is still to come.

### Artifacts

A command stores its files under fresh random tokens, then runs the transaction that ends the attempt
and inserts the rows, and removes its files when that fails. Failures are part of the model: an upload
that stops halfway, a transaction that is rolled back, a COMMIT whose answer is lost, a removal that
fails, a crash at any point. `RegisterArtifact` stores whatever URL and backend it is told.
`DeleteLocalArtifact` reads the row, removes the file, deletes the row. Two rows that agree in who
registered them, URL and backend count as one.

### AgentCalls and Analytics

A call is a record of what is asked for and of its stage; there may be several at work, and a retry is one
more. `Complete`, `Fail`, `Block` and `CreateTicket` are transactions of two statements: `Update` takes the
attempt's row (`Held`), `Store` writes the metrics or the event, `CommitCall` or `Abort` ends it, and nothing
shows before. Heartbeat, checkpoint, cancel and claim are single statements whose result can be lost
(`Effective`). `InsertFollowUp` and `TellFollowUp` are the two visible statements of
`CreateTicketFromAttempt`. `RestAnswer`, `McpAnswer` and `CliAnswer` word a result as `resourceError`,
`ServeStdio` and the commands do; the channel changes nothing else, so `AnswersAreTrue` reads each result
in all three. One ticket, whose side of the matter is in `Ledger`; a claim fails whenever it likes. The
reports of `Analytics` are operators over the rows of that state, checked in every state it reaches.

### Decomposition

`hasDependencyCycle` is recursive; here its call stack is `stack`, and each step is an iteration of its loop
or a return. Then one transaction inserts children and dependencies row by row. `ReleaseChild`,
`ClaimChild`, `CompleteChild` are the children's later life, reduced to what dependencies matter for: they
make the point of the check, that an accepted plan can be worked off, a property (`PlanGetsDone`).

### Migrations

`run[m]` is one execution of the command: its release, its flag and, inside the transaction, the database
as it sees it (`tx`). `CREATE TABLE IF NOT EXISTS` waits for another transaction that creates the same table
and fails if that commits (`CreationConflict`); with the table there, `ALTER TABLE` and `LOCK TABLE` make
runs wait in turn. `Recognised` are the migrations `detectBaselineMigrations` has a trace for; executing a
file whose objects exist fails unless it replaces them (`Repeatable`).

### WebSession

The throttle is one counter for the process, not per address. `PostLogin` is the check, `LoginFails` the
count with the time read before the check, `LoginSucceeds` the cookie. A cookie is an expiry and the token
it was signed with; forging the signature is outside the model.

### TicketHistory, WebConsole, TerminalUI

Every change of a ticket writes its event in the same statement or transaction (`Ledger`, `AgentCalls`), so
what a query can return is a function of how long the ticket's history was when it ran. A page or a
timeline is then one number per statement. `WebConsole` has a tab that follows links, types addresses and
posts forms; sections whose statement fails are left out of ticket pages. `TerminalUI` follows `Update`
message by message, with a set of background commands that read four statements each and answer in any
order. `Consoles` puts both over one history: a form posted in a tab changes what a detail reads. In it a ticket's dependencies and retry budgets are ignored: more happens than the
service allows, never less.

## 3. Hazards and properties

`PROJECT.json` lists each hazard at its line with the properties that would catch it. In short:

* *Snapshot against lock.* `RunningIffInProgress`, `StartedAfterDependencies`, `KeepsBoard`,
  `RetryOverrunBounded`; proved as well: `ArchivedIsFinal`.
* *Late calls and stale lists.* `TerminalIsFinal`, `RenewedLeaseSurvives`, `StaleWorkerIsFenced`,
  `PromptWorkerKeepsOwnership`.
* *Lost and repeated calls.* `OneAttemptPerKey`, `AnswersOwnRequest`, `LostAnswerRecoverable`,
  `KeepsPromise`; proved as well: `SucceededWasAcknowledged`, `OneRunningPerTicket`.
* *Commit order.* `AttemptFeedComplete`, `MovesInCommitOrder`, `PagingLosesNothing`.
* *Row, then event.* `HistoryTellsStatus`: late and lost events of follow-up tickets, and callers that read the
  row before somebody else moved it.
* *Check then act.* `DecidedOnce`; refuted: `PatchesOnlyProposedWork`.
* *Two stores.* `EvidenceIsKept`, `NothingIsOrphaned`, `EvidenceOfTheReporter`.
* *Answers and rows.* `AnswersAreTrue`, `MetricsOnce`, `AnalyticsAddUp`.
* *Plans.* `SearchIsRight` (a refusal shows a cycle, a pass an order), `AllOrNothing`.
* *Migrators.* `PartsTypeOK` (one run at a time holds the lock), `SuccessIsLasting`, `WholeReleases`.
* *Logins.* `ThrottleHolds`, `SessionsEnd`.
* *What a person looks at.* `PageIsCausal`, `RefusedOnlyIfStale`, `DetailIsCurrent`,
  `ConsoleTypeOK` (the selected row is on the screen).
* *Progress.* `LapsedIsHandled`, `EveryDeliverySettles`, `FollowerCatchesUp`, `PlanGetsDone`,
  `EveryRunEnds`; proved of them, for every instance: `FirstLapsedIsListed`, `NothingIsStranded`, `PollMovesOn`,
  `PlanNeverStuck`, `NobodyWaitsInVain`.

Two hazards have no property. A COMMIT whose answer is lost makes `codex complete` remove files that rows
refer to; `EvidenceIsKept` names that exception (section 6), so it does not catch it. A migration file is
read once to be executed and again for its checksum, and the model takes a release's files as unchanged
meanwhile. Not listed as a hazard, because it relates no two pieces of state: the MCP server converts
`progress_percent` and `lease_seconds` before validating them, so that a huge value wraps.

## 4. Runs

| Run | Instance | Shows | Distinct states |
|---|---|---|---|
| `ledger` | 2 tickets with a budget of one failure (the second depends on the first), 3 attempts, 2 claims, 2 workers with batches of 1, clock to 2 | tickets and attempts agree, dependencies gate claims, the budget is overrun by fewer than the claims in flight, ended attempts never change, a renewed lease survives stale lists | 1.95 M |
| `ledger_board` | the same tickets, 2 attempts, 2 claims, one worker with batches of 1, one pass cut off between two expiries (only here: `ledger` has none) | the ledger is a `WorkBoard`: a ticket is held by one attempt and moved by its end only, what is archived stays so; every lapsed attempt is handled | 504 k |
| `dead_letter` | 1 ticket with a budget of one failure, 1 claim | **violation**, see section 6 | |
| `webhook` | 2 deliveries, a prompt and a stalling worker, lost answers, a crash | fence, lock time, refinement of `AtLeastOnce` | 241 k |
| `webhook_liveness` | prompt workers | every delivery settles | 94 k |
| `idempotency` | 4 calls: a repetition, the same key for another request, no key; 2 tickets; retention 1 | one attempt per key, answers match requests, a lost answer can be recovered | 2.1 M |
| `event_feed` | 2 writers, 2 attempts, 4 numbers, readers of a ticket and of an attempt, pages of 1 | no hole in an attempt's feed, commit order, paging, followers catch up | 73 k |
| `triage` | 2 tickets, 2 triage calls, 1 refinement | a proposal is decided once, human work never; events tell the status although follow-up tickets come in two statements | 754 k |
| `triage_refine` | as above, 2 refinements | **violation**, see section 6 | |
| `artifacts` | 2 commands on one attempt, 2 proofs each, 3 locations, 1 registering client, 2 deletions | nothing lost or orphaned without a reason, evidence of the reporter only | 451 k |
| `parts` | 2 migrators and 3 releases (one with a file in the middle, one with an edited file) on a new, hand-built or older database; a plan of 3 children with every dependency relation; 2 browsers, 2 tokens, a restart; 2 attempts, 3 calls of 5 mixes of operations, costs below and at the limit | section 3, the rows from *answers* to *logins*, and their progress | 336 k |
| `console` | one tab, or one terminal with 2 rows, 2 heights, a filter and 2 details, on a history of up to 4 entries | what a person looks at | 558 k |

A behaviour of `parts` or of `console` is a behaviour of one of its parts while the others stand still: they
share no variable, so their interleavings would only multiply. The calls of one behaviour of `parts` are
of one mix (a set of operations): calls meet only in the row of an attempt, and each operation on attempts
meets an end by a transaction in some mix.

Why these bounds are enough to be interesting: every hazard needs at most two actors of a kind (two
claims, two workers, a call and its repetition, two writers and a reader) and one more object than the
rule admits (one attempt more than the budget, one delivery more than the batch, one event more than
the page). The runs have that. Symmetry is used in safety runs only, over identifiers that nothing
distinguishes. `CHECK_DEADLOCK FALSE` stands where all calls of an instance may have returned.

**Fairness.** `ledger_board` and `webhook_liveness` assume weak fairness of each worker's steps:
`runWorkerLoop` starts a pass after every interval for as long as the process lives, and a pass works
its list off. A pass may still be cut short a bounded number of times (`MaxStops`; crashes after a
POST). Time passes. `parts` assumes that a migrator that is not cut off goes on, for `EveryRunEnds`, and that triage
releases and agents work on an accepted plan, for `PlanGetsDone`, which is about exactly that premise. `console`
assumes nothing. `webhook_liveness` also assumes workers that are not paused past their lock: a
worker that always stalls, or always stops between POST and mark, never advances `attempt_count`, and
the delivery is taken over again and again. `FollowerCatchesUp` assumes a client that keeps polling.
Nothing else is assumed of agents.

## 5. Proofs

All theorems are of the form `Spec => []Inv` or `Spec => [][A]_vars`, or a refinement, for arbitrary finite or infinite
sets unless an assumption says otherwise. Assumptions are the named `ASSUME`s of the specifications;
TLC evaluates them on every run. Each proof has an inductive invariant, a lemma per action or group of
actions, and a last step by temporal logic.

* **`LedgerProofs`.** `TypeCorrect`, `RunningIffInProgressHolds`, `StartedAfterDependenciesHolds`,
  `ArchivedIsFinalHolds`, `TerminalIsFinalHolds`, `RenewedLeaseSurvivesHolds`,
  `RetryOverrunBoundedHolds`, `KeepsBoardHolds`, `FirstLapsedIsListedHolds`. The overrun bound is the hard one: failures alone are not inductive,
  because claims in flight carry a permission decided on an old count. The invariant (`OverrunInv`)
  says that a ticket's failures and its running attempt are within the budget, or leave, together with the
  claims in flight that have it in their snapshot, room for the claim that used the budget up; a claim trades
  its place among those in flight for the attempt it starts. A renewed lease survives because a pass's cutoff is never after
  `now`.
  The refinement of `WorkBoard` goes step by step: a transition of a ticket is a decision about one nobody holds,
  a claim takes a ticket, the end of an attempt gives it back, everything else is invisible. It needs the agreement of the
  two tables, so that an end finds its ticket where the board has it, and `DependencyInv`, which carries the
  dependencies from a claim's snapshot to its update. That the worker's list exists at every limit
  (`OldestExist`) is an induction on the limit.
* **`WebhookProofs`.** `WebhookTypeCorrect`, `SucceededWasAcknowledgedHolds`, `StaleWorkerIsFencedHolds`,
  `KeepsPromiseHolds`, `PromptWorkerKeepsOwnershipHolds`, `NothingIsStrandedHolds`. The invariant says what a pass knows of the rows
  it claimed (`PassInv`), that tokens are never reused (`TokenInv`), that a row whose token a worker still
  holds is in the state the worker left it in (`FenceInv`), and that an acknowledged POST is on record
  (`AckInv`). For ownership the lock's remaining time is compared with what the worker still needs for
  the rest of its batch (`LockInv`), from the assumption that the buffer added to the lock is positive.
  The refinement maps each row to its fate in `AtLeastOnce`.
* **`IdempotencyProofs`.** `IdempotencyTypeCorrect`, `OneAttemptPerKeyHolds`, `AnswersOwnRequestHolds`, `LostAnswerRecoverableHolds`,
  `OneRunningPerTicketHolds`: from when an attempt exists (`CreatedInv`), what a record says about the attempt
  it names (`RecordInv`), how long it is kept (`RetentionInv`) and that a ticket is taken for one call
  (`TicketInv`).
* **`FeedProofs`.** `FeedTypeCorrect`, `AttemptFeedCompleteHolds`, `MovesInCommitOrderHolds`,
  `PagingLosesNothingHolds`, `PollMovesOnHolds`. The key is `DrawnInv`: who holds a row's lock has drawn a higher number than
  every committed event of that row, so locks turn draw order into commit order. The page lemmas
  (`OldestIsPrefix`, `NewestIsSuffix`) say that a page cut by `LIMIT` has no gap; they rest on the
  finiteness of the table and cardinality theorems.
* **`ArtifactsProofs`.** `ArtifactsTypeCorrect`, `EvidenceIsKeptHolds`, `NothingIsOrphanedHolds`,
  `EvidenceOfTheReporterHolds`. The key is `OwnInv`: until a row with it is committed, the URL of a file
  is in the hands of its command alone, because its token is fresh and URLs are learned from rows; so a
  clean-up cannot take anything away from others. The exception, a commit whose answer was lost, is
  carried in the invariant.

* **`CallsProofs`, agent calls.** `CallsTypeCorrect`, `MetricsOnceHolds`, `AnswersAreTrueHold`. What an
  answer says is not inductive: it must be traced from the call that is still at work. `HoldInv` says that an
  open transaction holds a running attempt, and holds it alone, `AttemptInv` that nobody has ended an attempt
  that runs, `QuietInv` that a call nobody was told of has changed nothing (but for a follow-up ticket),
  `ResultInv` what each result means; with these every step of another call leaves the meaning of an answer
  alone.
* **`CallsProofs`, analytics.** `AnalyticsAddUpHolds`. The reports are sums over sets of rows, and a sum is defined by a
  recursive function on subsets. The library's induction theorems take an operator as parameter; instead, a set
  of which a claim fails and that has fewest elements is refuted (`SmallestSet`, from `WFMin`, which takes a relation). In this
  way the recursive definition is shown to have the value its equations say (`AdderExists`, `AddersAgree`), a sum not to
  depend on the order of its terms (`SumRemove`), and a sum over groups to be the sum over all (`SumOfParts`);
  a count is a sum of ones (`CountIsSum`). What is left about the reports is that each row is in one group
  and that attempts without metrics add nothing.
* **`CallsProofs`, composition.** `PartsTypeCorrect`: a step of one part keeps the invariant of that part, by its own
  lemma, and those of the others, whose variables it leaves alone.
* **`AdminProofs`, sessions.** `SessionTypeCorrect`, `ThrottleHoldsAlways`, `SessionsEndHolds`: a login in flight
  trades its place for the failure it counts, and a cookie says when and under which token it was issued
  (`CookieInv`). `Browser` is finite.
* **`AdminProofs`, migrations.** `MigrationsTypeCorrect`, `SuccessIsLastingHolds`, `WholeReleasesHold`,
  `NobodyWaitsInVainHolds`. `LockInv`
  says that who holds the lock is at work, `RowsHaveObjects` that recorded objects exist, and `TxInv` relates
  the private database of an open transaction to the committed one: it replaces no checksum, and once it has
  verified, every row it has is one of its release. That `Missing` is neither a version nor a migrator is assumed.
* **`AdminProofs`, triage.** `TriageTypeCorrect`, `DecidedOnceHolds`, `HistoryTellsStatusHolds`. `HistoryInv` ties the events of a ticket to
  its status: a ticket in backlog has no decision yet, and only backlog is decided on, so the second of two
  calls that had both checked finds its guard false. For what the events tell, `OwedInv` follows a follow-up
  ticket between its two statements: one call owes it the event, and as long as nothing has moved the ticket,
  the event will tell the status it still has.
* **`AdminProofs`, plans.** `PlanTypeCorrect`, `SearchIsRightHolds`, `AllOrNothingHolds`, `PlanNeverStuckHolds`. The invariant of the
  depth-first search (`SearchInv`) is that the keys being visited are the stack and each depends on the next
  (`StackInv`), that what a visit has looked at was left before or is next up the stack (`RestInv`), and that
  the keys that were left have their dependencies before them (`OrderInv`). A key met on the stack is then a real cycle, and an empty
  stack an order of all children, for any set of keys. `PhaseInv` says how far the transaction has got. Of the children of an
  accepted plan that are not done, the one whose visit ended first waits for nobody (`PlanNeverStuck`).
* **`ConsoleProofs`.** `ConsolesTypeCorrect`, `PageIsCausalHolds`, `RefusedOnlyIfStaleHolds`,
  `DetailIsCurrentHolds`, for any number of tabs, tickets, rows and loads in flight. Everything rests on
  `Grows`: whoever acts, a history is only extended. For a page, `SeenInv` says that its statements have seen
  ever longer prefixes, with gaps for optional sections only, and `OriginInv` what the ticket was like when the page was
  asked for and when it was read; causality is then the order of `Reads`. That the n-th attempt has a claim in the history
  (`ClaimExists`) is a discrete intermediate value argument, by the least natural number (`LeastNatural`). For
  the terminal, loads have distinct numbers and the detail's is not among them (`LoadsInv`), and a later load of
  the same ticket has read no less than the detail on the screen (`LaterInv`).

The type invariants are proved, those of the core without being repeated in the runs.

Every inductive invariant was model-checked on the instance of its run before it was proved.

Only model-checked: the liveness properties `LapsedIsHandled`, `EveryDeliverySettles`, `FollowerCatchesUp`,
`PlanGetsDone` and `EveryRunEnds`, because fairness and `ENABLED` are out of the prover's reach. What they need in each
state is proved, as a state predicate: the list is not empty and begins with the oldest
(`FirstLapsedIsListed`), only time is in a delivery's way (`NothingIsStranded`), a poll moves on (`PollMovesOn`), a
child can move (`PlanNeverStuck`), a waiting run waits for one that goes on (`NobodyWaitsInVain`). That `GoesOn`
and `CanMove`, which stand for enabledness in the last two, are the enabledness of `Migrate` and of the disjuncts of `Work`
was checked by TLC on the instance of `parts`. What stays with TLC is the step from there to "eventually".

## 6. Where documents and code disagree

* **`dead_letter`.** The failure that reaches `max_attempts` sends the ticket back to `todo`
  (`transitions.sql:78`), not to `failed` as `PRD.md:1169` says: the count does not include the attempt
  the statement itself is failing. The ticket can then not be claimed any more, nor is it dead-lettered.
* **`triage_refine`.** `RefineProposedTicket` checks the proposal and then updates without the check
  (`tickets.go:447`), so a ticket that was enqueued, claimed or archived meanwhile is patched.

Behaviour worth knowing that the properties state exactly rather than refute:

* A repetition that overlaps its original is not replayed but fails, on the unique index or with "no
  claimable tickets" (`claims.go:167`); `PRD.md:1250` promises the original's answer. No second attempt is
  created (`OneAttemptPerKey`).
* A cost of 10^6 or more is accepted by `validateAttemptMetrics` and overflows the column, so the call
  ends in 500 every time it is repeated and the attempt stays running until its lease lapses. The analytics
  summary fails from the moment the total reaches that size (`AnalyticsAddUp` speaks of reports that
  can be given).
* 500, exit code 1 and the MCP tool error leave open whether the call took effect; `AnswersAreTrue` says
  what the other answers mean. MCP clients cannot tell a conflict from an outage.
* The login throttle is shared by all clients of a process and forgotten at a restart; logins in flight
  overshoot the limit by at most their number (`ThrottleHolds`), where
  `plans/022-login-throttle-and-session-hardening.md:74` wants "at most 10 failed POST attempts per 1-minute
  window process-wide". The composed server has no route to
  `handleLogout`, so a session ends by expiry or by a new token only (`plans/007-authentication-boundary.md:57`
  keeps one).
* In the terminal browser `j` and `k` move over rows the filter hides, and the window may then show no
  row at all; the selected row is on the screen only if it matches (`TerminalTypeOK`).
* On a ticket page the checkpoints are read last, so it can show a checkpoint of an attempt it does
  not list yet. A migrator that finds another one creating the table fails instead of going on.
* Concurrent claims can overrun `max_attempts`, by fewer than the claims in flight
  (`RetryOverrunBounded`); `PRD.md:702` reads as if they could not.
* A reader of a ticket's or a project's events can miss one that was uncommitted when its cursor passed
  the number: a heartbeat or a refinement with a higher number overtakes an update in flight. A reader of an
  attempt cannot.
* `CreateTicketFromAttempt` is not in a transaction: a follow-up ticket can be claimed before, or left
  without, its creation event, although `PRD.md:1200` wants event and state change in one transaction. A reader
  of its events may then find no creation at all, or one after the claim that tells a status the ticket has
  left; `HistoryTellsStatus` says that this is all, and that the newest of the other events is right.
* A lost answer to the COMMIT of `codex complete` makes the command remove files that committed rows refer
  to, and deleting one of two artifacts that share a URL empties the other; `EvidenceIsKept` names both
  exceptions. An upload that fails halfway leaves its partial file.
* Replay ignores `expires_at` until maintenance removes the record. Merging a proposal accepts archived
  targets and does not look for cycles. `PRD.md:720` orders claims by descending priority, the statement
  by ascending. The webhook payload of a completed attempt does not carry its metrics.

## 7. Not modelled, and what comes next

* *Search and recommendations* (`search.go`): read-only rankings by PostgreSQL's text search; a model
  could only restate the query. *Analytics trends*: the same columns grouped by a time bucket.
* *Policy, capabilities, workspaces and members, observability subscriptions, webhook destination policy*: decisions
  over one request and single-row upserts that no other state depends on. Where the claim and the
  triage depend on a decision of the policy, the models leave it open (`Refuse`, `canEnqueue`).
* *Pages of artifacts and workspaces, rendering, request decoding, output formats, configuration, contracts,
  generated scanning code*: no state, or the file handling that `Artifacts` has already.
* REST routes `ready`, `reopen`, `unblock`, `request-review`, `review` and `archive` answer 501 (`router.go`,
  `RegisterPhaseOneRoutes`); the transitions are reached over MCP and the web.

What comes next: `Ledger` and `AgentCalls` have the same statements from two sides, the ticket's and the
caller's; a composition with both would let answers be related to leases and retry budgets.
