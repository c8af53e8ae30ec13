--------------------------- MODULE Decomposition ---------------------------
(***************************************************************************)
(* DecomposeTicket: a plan of child tickets with dependencies among them.  *)
(* The request is validated, a depth-first search looks for a cycle, and   *)
(* one transaction inserts the children and then their dependencies.       *)
(* Afterwards the children are released, claimed and completed like any    *)
(* ticket, a claim waiting for the dependencies.                           *)
(*                                                                         *)
(* The search is the recursion of hasDependencyCycle with its call stack   *)
(* made explicit. A child is its key. The children's other fields are left *)
(* out: a request that is refused for them is refused like one with an     *)
(* unknown key.                                                            *)
(***************************************************************************)
EXTENDS Naturals, Sequences

CONSTANTS
    Key,        \* the children of the plan
    Stranger    \* a key that no child has

ASSUME DecompositionAssumption == Stranger \notin Key

VARIABLES
    request,    \* what was asked for
    phase,      \* where the call is
    state,      \* the search's map of keys
    stack,      \* the keys being visited, outermost first
    rest,       \* the dependencies a visit has still to look at
    left,       \* history: the visited keys, in the order their visits ended
    rows,       \* tickets and dependencies written by the open transaction
    childStatus, \* tickets.status of the children, as committed
    dependsOn    \* ticket_dependencies, as committed

searchVars == <<state, stack, rest, left>>

planVars == <<request, phase, searchVars, rows, childStatus, dependsOn>>

Request ==
    [mode : {"propose", "create"},
     canEnqueue : BOOLEAN,                          \* human, or an agent allowed to
     deps : [Key -> SUBSET (Key \cup {Stranger})],
     twice : BOOLEAN]                               \* some dependency is listed twice

Phase == {"idle", "checking", "searching", "inserting", "linking", "refused", "failed", "lost", "created"}

Status == {"none", "backlog", "todo", "in_progress", "done"}

\* Keys on the stack.
Active == {stack[i] : i \in 1 .. Len(stack)}

Visited == {k \in Key : state[k] = "visited"}

\* The request, the search, the transaction and the tickets hold values of their types.
PlanTypeOK ==
    /\ request \in Request
    /\ phase \in Phase
    /\ state \in [Key -> {"unvisited", "visiting", "visited"}]
    /\ stack \in Seq(Key)
    /\ rest \in [Key -> SUBSET (Key \cup {Stranger})]
    /\ left \in Seq(Key)
    /\ rows \in [tickets : SUBSET Key, links : SUBSET (Key \X Key)]
    /\ childStatus \in [Key -> Status]
    /\ dependsOn \subseteq Key \X Key

NoRows == [tickets |-> {}, links |-> {}]

PlanInit ==
    /\ request = [mode |-> "propose", canEnqueue |-> FALSE, deps |-> [k \in Key |-> {}], twice |-> FALSE]
    /\ phase = "idle"
    /\ state = [k \in Key |-> "unvisited"]
    /\ stack = <<>>
    /\ rest = [k \in Key |-> {}]
    /\ left = <<>>
    /\ rows = NoRows
    /\ childStatus = [k \in Key |-> "none"]
    /\ dependsOn = {}

-----------------------------------------------------------------------------

\* A request arrives, by REST or MCP. The search will walk every key's dependencies.
Receive ==
    /\ phase = "idle"
    /\ phase' = "checking"
    /\ request' \in Request
    /\ rest' = request'.deps
    /\ UNCHANGED <<state, stack, left, rows, childStatus, dependsOn>>

\* validateDecomposeTicketRequest before the search: known keys, no child depends
\* on itself, and the rest of the request.
WellFormed ==
    /\ Key # {}
    /\ \A k \in Key : request.deps[k] \subseteq Key \ {k}

Validate ==
    /\ phase = "checking"
    /\ phase' = IF WellFormed THEN "searching" ELSE "refused"
    /\ UNCHANGED <<request, searchVars, rows, childStatus, dependsOn>>

\* Mutant: a key counts as done as soon as its visit begins.
EnterDone(k) ==
    /\ state' = [state EXCEPT ![k] = "visited"]
    /\ stack' = Append(stack, k)

\* A call of visit: the key is marked and its loop starts.
Enter(k) ==
    /\ state' = [state EXCEPT ![k] = "visiting"]
    /\ stack' = Append(stack, k)

\* The loop over the children.
VisitChild(k) ==
    /\ phase = "searching"
    /\ stack = <<>>
    /\ state[k] = "unvisited"
    /\ Enter(k)
    /\ UNCHANGED <<request, phase, rest, left, rows, childStatus, dependsOn>>

Current == stack[Len(stack)]

\* The loop over a key's dependencies: visit(d) returns at once for a key that was
\* left before, and goes deeper for one that was never seen.
VisitDependency(d) ==
    /\ phase = "searching"
    /\ stack # <<>>
    /\ d \in rest[Current]
    /\ rest' = [rest EXCEPT ![Current] = @ \ {d}]
    /\ \/ state[d] = "visited" /\ UNCHANGED <<state, stack>>
       \/ state[d] = "unvisited" /\ Enter(d)
    /\ UNCHANGED <<request, phase, left, rows, childStatus, dependsOn>>

\* visit(d) finds d on the stack.
MeetsVisiting(d) == state[d] = "visiting"

\* true travels up through all the callers: the request is refused.
FindCycle(d) ==
    /\ phase = "searching"
    /\ stack # <<>>
    /\ d \in rest[Current]
    /\ MeetsVisiting(d)
    /\ phase' = "refused"
    /\ UNCHANGED <<request, searchVars, rows, childStatus, dependsOn>>

\* The loop is through: the key is marked and visit returns false.
Leave ==
    /\ phase = "searching"
    /\ stack # <<>>
    /\ rest[Current] = {}
    /\ state' = [state EXCEPT ![Current] = "visited"]
    /\ stack' = SubSeq(stack, 1, Len(stack) - 1)
    /\ left' = Append(left, Current)
    /\ UNCHANGED <<request, phase, rest, rows, childStatus, dependsOn>>

\* Every child was visited and no cycle met: the transaction goes on to the rows.
NoCycle ==
    /\ phase = "searching"
    /\ stack = <<>>
    /\ \A k \in Key : state[k] # "unvisited"
    /\ phase' = "inserting"
    /\ UNCHANGED <<request, searchVars, rows, childStatus, dependsOn>>

-----------------------------------------------------------------------------

\* CreateTicket or ProposeTicket of the next child, with its event. An agent without
\* the authority to enqueue gets no further than the first child of mode create.
InsertChild(k) ==
    /\ phase = "inserting"
    /\ k \notin rows.tickets
    /\ request.mode = "create" => request.canEnqueue
    /\ rows' = [rows EXCEPT !.tickets = @ \cup {k}]
    /\ phase' = IF rows'.tickets = Key THEN "linking" ELSE phase
    /\ UNCHANGED <<request, searchVars, childStatus, dependsOn>>

Wanted == {link \in Key \X Key : link[2] \in request.deps[link[1]]}

\* CreateTicketDependency of the next pair.
LinkChild ==
    /\ phase = "linking"
    /\ \E link \in Wanted \ rows.links : rows' = [rows EXCEPT !.links = @ \cup {link}]
    /\ UNCHANGED <<request, phase, searchVars, childStatus, dependsOn>>

\* Mutant: the tickets are published before their dependencies.
LinkedEarly == phase \in {"inserting", "linking"} /\ rows.tickets = Key

\* The loops over children and dependencies are through.
AllLinked == phase = "linking" /\ rows.links = Wanted /\ ~request.twice

\* createRequestsFromDecomposition: the status of the new tickets.
InitialStatus == IF request.mode = "create" THEN "todo" ELSE "backlog"

\* COMMIT; the answer may be lost.
CommitPlan ==
    /\ AllLinked
    /\ childStatus' = [k \in Key |-> IF k \in rows.tickets THEN InitialStatus ELSE "none"]
    /\ dependsOn' = rows.links
    /\ rows' = NoRows
    /\ phase' \in {"created", "lost"}
    /\ UNCHANGED <<request, searchVars>>

\* Missing authority, a dependency listed twice (the primary key of
\* ticket_dependencies), a parent that does not exist, a lost connection or a crash:
\* the transaction is rolled back.
FailPlan ==
    /\ phase \in {"inserting", "linking"}
    /\ rows' = NoRows
    /\ phase' = "failed"
    /\ UNCHANGED <<request, searchVars, childStatus, dependsOn>>

-----------------------------------------------------------------------------

\* The children's later life: triage releases a proposal, a claim waits for the
\* dependencies, and the work gets done.
ReleaseChild(k) ==
    /\ childStatus[k] = "backlog"
    /\ childStatus' = [childStatus EXCEPT ![k] = "todo"]
    /\ UNCHANGED <<request, phase, searchVars, rows, dependsOn>>

\* Mutant: the dependencies are looked up on either side.
NeighboursDone(k) ==
    \A d \in Key : <<k, d>> \in dependsOn \/ <<d, k>> \in dependsOn => childStatus[d] = "done"

\* NOT EXISTS a dependency whose ticket is not done.
DependenciesDone(k) == \A d \in Key : <<k, d>> \in dependsOn => childStatus[d] = "done"

ClaimChild(k) ==
    /\ childStatus[k] = "todo"
    /\ DependenciesDone(k)
    /\ childStatus' = [childStatus EXCEPT ![k] = "in_progress"]
    /\ UNCHANGED <<request, phase, searchVars, rows, dependsOn>>

CompleteChild(k) ==
    /\ childStatus[k] = "in_progress"
    /\ childStatus' = [childStatus EXCEPT ![k] = "done"]
    /\ UNCHANGED <<request, phase, searchVars, rows, dependsOn>>

Search ==
    \/ Validate
    \/ \E k \in Key : VisitChild(k) \/ VisitDependency(k) \/ FindCycle(k)
    \/ Leave
    \/ NoCycle

Write == (\E k \in Key : InsertChild(k)) \/ LinkChild \/ CommitPlan

Work == \E k \in Key : ReleaseChild(k) \/ ClaimChild(k) \/ CompleteChild(k)

PlanNext == Receive \/ Search \/ Write \/ FailPlan \/ Work

PlanSpec == PlanInit /\ [][PlanNext]_planVars

-----------------------------------------------------------------------------
(* Properties                                                              *)

\* A plan that is refused for a cycle has one: the stack is a chain of dependencies
\* that the last one closes (hasDependencyCycle returns true).
CycleIsReal ==
    phase = "refused" /\ WellFormed =>
        \E i \in 1 .. Len(stack) :
            /\ stack[i] \in request.deps[Current]
            /\ \A j \in i .. Len(stack) - 1 : stack[j + 1] \in request.deps[stack[j]]

\* A plan that passes can be worked off: the order in which the visits ended has every
\* child after all of its dependencies (hasDependencyCycle returns false).
PassedHasOrder ==
    phase \in {"inserting", "linking", "failed", "lost", "created"} =>
        /\ \A k \in Key : \E i \in 1 .. Len(left) : left[i] = k
        /\ \A i \in 1 .. Len(left) :
              \A d \in request.deps[left[i]] : \E j \in 1 .. i - 1 : left[j] = d

\* The search decides every plan rightly (hasDependencyCycle).
SearchIsRight == CycleIsReal /\ PassedHasOrder

\* All children with all of their dependencies, or nothing, whatever fails on the way
\* and whether the caller learns of it or not (Runtime.DecomposeTicket).
AllOrNothing ==
    IF phase \in {"created", "lost"}
    THEN dependsOn = Wanted /\ \A k \in Key : childStatus[k] # "none"
    ELSE dependsOn = {} /\ \A k \in Key : childStatus[k] = "none"

\* No plan that Forge accepted is stuck in its own dependencies: if triage releases and
\* agents work, all of it gets done.
PlanGetsDone == phase \in {"created", "lost"} ~> \A k \in Key : childStatus[k] = "done"

=============================================================================
