----------------------------- MODULE AgentCalls -----------------------------
(***************************************************************************)
(* The calls agents make to work: claim, heartbeat, checkpoint, complete,  *)
(* fail, block, cancel, and new tickets. A call comes over REST, MCP or    *)
(* the command line; the three reach the same runtime and differ in how    *)
(* they word its result. A client may give up and call again while the     *)
(* first call is still at work, so a retry is just one more call.          *)
(*                                                                         *)
(* Complete, fail, block and a new ticket are transactions of two          *)
(* statements; a follow-up ticket is two statements without one; the other *)
(* calls are one statement. A transaction holds the row of its attempt, so *)
(* others wait, and shows nothing before it commits. Statements can fail,  *)
(* and the connection can break after the database has committed.          *)
(* Leases, dependencies and the ticket's side are in module Ledger.        *)
(***************************************************************************)
EXTENDS Naturals, Sequences, FiniteSets

CONSTANTS
    Profile,      \* what agents say of themselves: agent_id, harness and model
    Blank,        \* no model reported
    Cost,         \* costs that agents report, as attempt metrics
    CostLimit,    \* the first cost the database's column cannot hold
    NoMetrics,    \* a call or an attempt without metrics
    MaxAttempts,  \* bound on attempts
    MaxCalls      \* bound on calls

ASSUME CallsAssumption ==
    /\ \A p \in Profile : DOMAIN p = {"agent", "harness", "model"}
    /\ Cost \subseteq Nat
    /\ CostLimit \in Nat
    /\ NoMetrics \notin Nat
    /\ MaxAttempts \in Nat \ {0}
    /\ MaxCalls \in Nat

VARIABLES
    attempts,     \* the rows of attempts, all of the same ticket
    metrics,      \* per attempt: its row of attempt_metrics
    checkpoints,  \* per attempt: the calls that stored a checkpoint
    tickets,      \* the calls whose new ticket can be seen
    told,         \* the calls whose new ticket has its event
    calls         \* every call made so far

callVars == <<attempts, metrics, checkpoints, tickets, told, calls>>

Ending == {"complete", "fail", "block", "cancel"}

Transactional == {"complete", "fail", "block", "create"}

OnAttempt == Ending \cup {"heartbeat", "checkpoint"}

Op == OnAttempt \cup {"claim", "create", "follow_up"}

Result == {"ok", "argument", "invalid", "not_running", "no_claimable", "missing", "failed"}

Outcome(op) ==
    CASE op = "complete" -> "succeeded"
      [] op = "fail"     -> "failed"
      [] op = "block"    -> "blocked"
      [] op = "cancel"   -> "cancelled"

AttemptStatus == {"running", "succeeded", "failed", "blocked", "cancelled", "expired"}

\* claimedBy and endedBy are histories: the call that did it, 0 for none.
Attempt == [profile : Profile, status : AttemptStatus, claimedBy : Nat, endedBy : Nat]

\* A call: what it asks for, and its stage or, once it is answered, its result.
Call == [op : Op, attempt : Nat, profile : Profile, cost : Cost \cup {NoMetrics},
         stage : {"sent", "updated", "stored"} \cup Result]

\* Rows and calls have their types, and refer to rows and calls that exist.
CallsTypeOK ==
    /\ attempts \in Seq(Attempt) /\ Len(attempts) <= MaxAttempts
    /\ metrics \in [1 .. MaxAttempts -> Cost \cup {NoMetrics}]
    /\ checkpoints \in [1 .. MaxAttempts -> SUBSET (1 .. Len(calls))]
    /\ tickets \subseteq 1 .. Len(calls)
    /\ told \subseteq 1 .. Len(calls)
    /\ calls \in Seq(Call) /\ Len(calls) <= MaxCalls
    /\ \A i \in DOMAIN calls : calls[i].op \in OnAttempt => calls[i].attempt \in DOMAIN attempts

\* Attempts may be under way already, claimed by calls that are long over.
CallsInit ==
    /\ attempts \in {<<>>} \cup {<<[profile |-> p, status |-> "running", claimedBy |-> 0, endedBy |-> 0]>> :
                                    p \in Profile}
    /\ metrics = [a \in 1 .. MaxAttempts |-> NoMetrics]
    /\ checkpoints = [a \in 1 .. MaxAttempts |-> {}]
    /\ tickets = {}
    /\ told = {}
    /\ calls = <<>>

-----------------------------------------------------------------------------
(* The three ways in.                                                      *)

\* The routes: none for a follow-up ticket.
RestRoutes == Op \ {"follow_up"}

\* The tools: none to cancel an attempt.
McpTools == Op \ {"cancel"}

ForgeCommands == Op \ {"follow_up"}

CodexCommands == {"claim", "checkpoint", "complete", "block", "follow_up"}

Offered == [rest |-> RestRoutes, mcp |-> McpTools, cli |-> ForgeCommands \cup CodexCommands]

\* Mutant: every error of the runtime is answered as a conflict.
AllConflicts(result) == IF result = "ok" THEN "200" ELSE "409"

\* resourceError
RestAnswer(result) ==
    CASE result = "ok"                              -> "200"
      [] result \in {"argument", "invalid"}         -> "400"
      [] result = "missing"                         -> "404"
      [] result \in {"not_running", "no_claimable"} -> "409"
      [] result = "failed"                          -> "500"

McpAnswer(result) == IF result = "ok" THEN "result" ELSE "tool request failed"

\* The exit code. Only what the command itself finds wrong with its flags gives 2.
CliAnswer(result) ==
    CASE result = "ok"       -> "exit 0"
      [] result = "argument" -> "exit 2"
      [] OTHER               -> "exit 1"

\* What the client is told over channel c.
Answer(c, result) ==
    CASE c = "rest" -> RestAnswer(result)
      [] c = "mcp"  -> McpAnswer(result)
      [] c = "cli"  -> CliAnswer(result)

Success == {"200", "result", "exit 0"}

Answered(i) == calls[i].stage \in Result

\* Only complete, fail and block carry metrics; attempts are named by their id, and
\* nothing ties the caller to the attempt.
Send(op, a, p, cost) ==
    /\ Len(calls) < MaxCalls
    /\ IF op \in OnAttempt THEN a \in DOMAIN attempts ELSE a = 0
    /\ op \notin Transactional \ {"create"} => cost = NoMetrics
    /\ op # "claim" => p = CHOOSE q \in Profile : TRUE
    /\ calls' = Append(calls, [op |-> op, attempt |-> a, profile |-> p, cost |-> cost, stage |-> "sent"])
    /\ UNCHANGED <<attempts, metrics, checkpoints, tickets, told>>

-----------------------------------------------------------------------------
(* The runtime at work on call i.                                          *)

Stage(i, stage) == calls[i].stage = stage

MoveTo(i, stage) == calls' = [calls EXCEPT ![i].stage = stage]

Running(a) == attempts[a].status = "running"

\* A transaction holds the row of the attempt it has updated.
Held(a) == \E i \in DOMAIN calls : calls[i].attempt = a /\ calls[i].stage \in {"updated", "stored"}

\* Identifiers, flags or a body that do not parse.
RejectArguments(i) ==
    /\ Stage(i, "sent")
    /\ MoveTo(i, "argument")
    /\ UNCHANGED <<attempts, metrics, checkpoints, tickets, told>>

\* The service finds the request not valid.
RejectRequest(i) ==
    /\ Stage(i, "sent")
    /\ MoveTo(i, "invalid")
    /\ UNCHANGED <<attempts, metrics, checkpoints, tickets, told>>

\* No runtime, no transaction, or a failed first statement.
Unavailable(i) ==
    /\ Stage(i, "sent")
    /\ MoveTo(i, "failed")
    /\ UNCHANGED <<attempts, metrics, checkpoints, tickets, told>>

\* A single statement took effect; the connection may break before its result is read.
Effective(i) == \E result \in {"ok", "failed"} : MoveTo(i, result)

ClaimNext(i) ==
    /\ Stage(i, "sent") /\ calls[i].op = "claim"
    /\ Len(attempts) < MaxAttempts
    /\ \A a \in DOMAIN attempts : ~ Running(a)
    /\ attempts' = Append(attempts, [profile |-> calls[i].profile, status |-> "running",
                                     claimedBy |-> i, endedBy |-> 0])
    /\ Effective(i)
    /\ UNCHANGED <<metrics, checkpoints, tickets, told>>

\* The ticket is taken, or is not to be worked on.
NoneClaimable(i) ==
    /\ Stage(i, "sent") /\ calls[i].op = "claim"
    /\ MoveTo(i, "no_claimable")
    /\ UNCHANGED <<attempts, metrics, checkpoints, tickets, told>>

\* A statement on an attempt waits for the row.
Reaches(i, ops) == Stage(i, "sent") /\ calls[i].op \in ops /\ ~ Held(calls[i].attempt)

Heartbeat(i) ==
    /\ Reaches(i, {"heartbeat"})
    /\ Running(calls[i].attempt)
    /\ Effective(i)
    /\ UNCHANGED <<attempts, metrics, checkpoints, tickets, told>>

Checkpoint(i) ==
    /\ Reaches(i, {"checkpoint"})
    /\ Running(calls[i].attempt)
    /\ checkpoints' = [checkpoints EXCEPT ![calls[i].attempt] = @ \cup {i}]
    /\ Effective(i)
    /\ UNCHANGED <<attempts, metrics, tickets, told>>

EndBy(i) ==
    attempts' = [attempts EXCEPT ![calls[i].attempt].status = Outcome(calls[i].op),
                                 ![calls[i].attempt].endedBy = i]

Cancel(i) ==
    /\ Reaches(i, {"cancel"})
    /\ Running(calls[i].attempt)
    /\ EndBy(i)
    /\ Effective(i)
    /\ UNCHANGED <<metrics, checkpoints, tickets, told>>

\* The statement finds no running attempt; a transaction rolls back.
NotRunning(i) ==
    /\ Reaches(i, OnAttempt)
    /\ ~ Running(calls[i].attempt)
    /\ MoveTo(i, "not_running")
    /\ UNCHANGED <<attempts, metrics, checkpoints, tickets, told>>

\* First statement of Complete, Fail and Block, and of a new ticket.
Update(i) ==
    /\ \/ Reaches(i, Ending \ {"cancel"}) /\ Running(calls[i].attempt)
       \/ Stage(i, "sent") /\ calls[i].op = "create"
    /\ MoveTo(i, "updated")
    /\ UNCHANGED <<attempts, metrics, checkpoints, tickets, told>>

Fits(cost) == cost < CostLimit

\* Mutant: the metrics are written outside the transaction.
StoreAtOnce(i) ==
    /\ Stage(i, "updated") /\ calls[i].op # "follow_up"
    /\ IF calls[i].cost = NoMetrics
       THEN MoveTo(i, "stored") /\ UNCHANGED metrics
       ELSE IF Fits(calls[i].cost)
       THEN MoveTo(i, "stored") /\ metrics' = [metrics EXCEPT ![calls[i].attempt] = calls[i].cost]
       ELSE MoveTo(i, "failed") /\ UNCHANGED metrics
    /\ UNCHANGED <<attempts, checkpoints, tickets, told>>

\* Second statement: the metrics, where there are any; a new ticket's event. Metrics the
\* column cannot hold pass the validation and fail here.
Store(i) ==
    /\ Stage(i, "updated") /\ calls[i].op # "follow_up"
    /\ IF calls[i].cost = NoMetrics \/ Fits(calls[i].cost) THEN MoveTo(i, "stored") ELSE MoveTo(i, "failed")
    /\ UNCHANGED <<attempts, metrics, checkpoints, tickets, told>>

\* The transaction rolls back: a failed statement or commit, a reference to nothing (23503).
Abort(i) ==
    /\ calls[i].stage \in {"updated", "stored"} /\ calls[i].op # "follow_up"
    /\ \/ MoveTo(i, "failed")
       \/ calls[i].op = "create" /\ MoveTo(i, "missing")
    /\ UNCHANGED <<attempts, metrics, checkpoints, tickets, told>>

CommitCall(i) ==
    /\ Stage(i, "stored")
    /\ IF calls[i].op = "create"
       THEN /\ tickets' = tickets \cup {i} /\ told' = told \cup {i}
            /\ UNCHANGED <<attempts, metrics>>
       ELSE /\ EndBy(i)
            /\ metrics' = IF calls[i].cost = NoMetrics THEN metrics
                          ELSE [metrics EXCEPT ![calls[i].attempt] = calls[i].cost]
            /\ UNCHANGED <<tickets, told>>
    /\ Effective(i)
    /\ UNCHANGED checkpoints

\* CreateTicketFromAttempt runs without a transaction: the ticket can be seen at once.
InsertFollowUp(i) ==
    /\ Stage(i, "sent") /\ calls[i].op = "follow_up"
    /\ tickets' = tickets \cup {i}
    /\ \E stage \in {"updated", "failed"} : MoveTo(i, stage)
    /\ UNCHANGED <<attempts, metrics, checkpoints, told>>

\* Its event, or an error: the ticket stays without one.
TellFollowUp(i) ==
    /\ Stage(i, "updated") /\ calls[i].op = "follow_up"
    /\ \/ told' = told \cup {i} /\ Effective(i)
       \/ told' = told /\ MoveTo(i, "failed")
    /\ UNCHANGED <<attempts, metrics, checkpoints, tickets>>

\* The lease runs out and the maintenance worker ends the attempt.
Expire(a) ==
    /\ Running(a) /\ ~ Held(a)
    /\ attempts' = [attempts EXCEPT ![a].status = "expired"]
    /\ UNCHANGED <<metrics, checkpoints, tickets, told, calls>>

Serve(i) ==
    \/ RejectArguments(i) \/ RejectRequest(i) \/ Unavailable(i)
    \/ ClaimNext(i) \/ NoneClaimable(i)
    \/ Heartbeat(i) \/ Checkpoint(i) \/ Cancel(i) \/ NotRunning(i)
    \/ Update(i) \/ CommitCall(i) \/ Abort(i) \/ Store(i)
    \/ InsertFollowUp(i) \/ TellFollowUp(i)

CallsNext ==
    \/ \E op \in Op, a \in 0 .. MaxAttempts, p \in Profile, cost \in Cost \cup {NoMetrics} :
          Send(op, a, p, cost)
    \/ \E i \in DOMAIN calls : Serve(i)
    \/ \E a \in DOMAIN attempts : Expire(a)

CallsSpec == CallsInit /\ [][CallsNext]_callVars

-----------------------------------------------------------------------------
(* Properties                                                              *)

\* Call i changed something that others can see.
Changed(i) ==
    \/ \E a \in DOMAIN attempts :
          attempts[a].claimedBy = i \/ attempts[a].endedBy = i \/ i \in checkpoints[a]
    \/ i \in tickets

\* What call i asked for has happened, as asked.
Happened(i) ==
    LET c == calls[i] IN
    /\ c.op = "claim"      => \E a \in DOMAIN attempts :
                                 attempts[a].claimedBy = i /\ attempts[a].profile = c.profile
    /\ c.op = "checkpoint" => i \in checkpoints[c.attempt]
    /\ c.op \in Ending     => /\ attempts[c.attempt].endedBy = i
                              /\ attempts[c.attempt].status = Outcome(c.op)
                              /\ metrics[c.attempt] = c.cost
    /\ c.op \in {"create", "follow_up"} => i \in tickets \cap told

\* Over every channel, whatever other calls, retries, expiries, lost connections and
\* failed statements come in between: success means that what was asked for happened and
\* still stands; 400, 404, 409 and exit code 2 mean that the call changed nothing; 409 on
\* an attempt means that it has ended. (500, exit code 1 and the tool error leave open
\* what happened: resourceError, ServeStdio and the commands of cli.go.)
AnswersAreTrue ==
    \A i \in DOMAIN calls, c \in DOMAIN Offered :
        Answered(i) /\ calls[i].op \in Offered[c] =>
            LET answer == Answer(c, calls[i].stage) IN
            /\ answer \in Success => Happened(i)
            /\ answer \in {"400", "404", "409", "exit 2"} => ~ Changed(i)
            /\ answer = "409" /\ calls[i].op \in OnAttempt => ~ Running(calls[i].attempt)

\* An attempt has the metrics of the one call that ended it, or none if that call had
\* none or no call did: a retry never overwrites them (the statement would, ON CONFLICT DO
\* UPDATE), and a rolled-back end leaves none (transitionAttempt, recordAttemptMetrics).
MetricsOnce ==
    \A a \in DOMAIN attempts :
        metrics[a] = IF attempts[a].endedBy = 0 THEN NoMetrics ELSE calls[attempts[a].endedBy].cost

=============================================================================
