----------------------------- MODULE Analytics -----------------------------
(***************************************************************************)
(* The analytics reports. Each is one query over attempts LEFT JOIN        *)
(* attempt_metrics: the summary, and the groupings by model, harness,      *)
(* agent and status. A total is cast to the type of a single value, so a   *)
(* report fails when a total outgrows it.                                  *)
(***************************************************************************)
EXTENDS AgentCalls, Functions

\* COALESCE(NULLIF(a.model, ''), '(unknown)')
ByModel(a) ==
    IF attempts[a].profile.model = Blank THEN "(unknown)" ELSE attempts[a].profile.model

ByHarness(a) == attempts[a].profile.harness

ByAgent(a) == attempts[a].profile.agent

ByStatus(a) == attempts[a].status

Dimension == {"model", "harness", "agent", "status"}

Label(a, dimension) ==
    CASE dimension = "model"   -> ByModel(a)
      [] dimension = "harness" -> ByHarness(a)
      [] dimension = "agent"   -> ByAgent(a)
      [] dimension = "status"  -> ByStatus(a)

\* Mutant: the metrics are joined with JOIN.
InnerJoin == {a \in DOMAIN attempts : metrics[a] # NoMetrics}

\* The rows of the join: every attempt, once.
LeftJoin == DOMAIN attempts

WithMetrics(rows) == {a \in rows : metrics[a] # NoMetrics}

CountStatus(rows, s) == Cardinality({a \in rows : attempts[a].status = s})

\* One row of a report; fails is the error of the cast.
Report(rows) ==
    LET cost == SumFunctionOnSet(metrics, WithMetrics(rows)) IN
    [attempts    |-> Cardinality(rows),
     succeeded   |-> CountStatus(rows, "succeeded"),
     failed      |-> CountStatus(rows, "failed"),
     blocked     |-> CountStatus(rows, "blocked"),
     withMetrics |-> Cardinality(WithMetrics(rows)),
     cost        |-> cost,
     fails       |-> ~ Fits(cost)]

Summary == Report(LeftJoin)

Groups(dimension) == {Label(a, dimension) : a \in LeftJoin}

Group(dimension, g) == Report({a \in LeftJoin : Label(a, dimension) = g})

\* Every attempt is in the summary, with or without metrics. While the summary can be
\* given, so can every grouping, and its groups add up to the summary in every column
\* (GetAnalyticsSummary and GetAnalyticsBy...).
AnalyticsAddUp ==
    /\ Summary.attempts = Len(attempts)
    /\ ~ Summary.fails =>
        \A dimension \in Dimension :
            LET groups == Groups(dimension)
                Total(column) == SumFunction([g \in groups |-> Group(dimension, g)[column]])
            IN  /\ \A g \in groups : ~ Group(dimension, g).fails
                /\ \A column \in DOMAIN Summary \ {"fails"} : Total(column) = Summary[column]
=============================================================================
