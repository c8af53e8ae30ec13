----------------------------- MODULE WorkBoard -----------------------------
(***************************************************************************)
(* What Forge promises a team of agents, without statements, snapshots,    *)
(* leases, retries or workers: a board of tickets. A ticket is handed out  *)
(* only when it is ready, to one turn at a time, after all it needs was    *)
(* done once; a turn is taken once and comes back once; while a turn holds *)
(* a ticket nobody else moves it; and what is gone stays gone.             *)
(***************************************************************************)

CONSTANTS
    Ticket,
    Turn,     \* what can hold a ticket
    Needs     \* the tickets each ticket waits for

VARIABLES
    column,    \* where each ticket is on the board
    holders,   \* the turns that hold it
    taken,     \* the turns that were ever taken
    completed  \* the tickets that were done at some time

board == <<column, holders, taken, completed>>

BoardInit ==
    /\ column = [t \in Ticket |-> "none"]
    /\ holders = [t \in Ticket |-> {}]
    /\ taken = {}
    /\ completed = {}

Put(t, c) ==
    /\ column' = [column EXCEPT ![t] = c]
    /\ completed' = IF c = "done" THEN completed \cup {t} ELSE completed

Add(t, c) ==
    /\ column[t] = "none"
    /\ c \in {"idle", "ready"}
    /\ Put(t, c)
    /\ UNCHANGED <<holders, taken>>

\* Somebody moves a ticket that nobody holds; a review may call it done.
Decide(t, c) ==
    /\ column[t] \in {"idle", "ready", "done"}
    /\ holders[t] = {}
    /\ c \in {"idle", "ready", "gone"} \/ (c = "done" /\ column[t] = "idle")
    /\ Put(t, c)
    /\ UNCHANGED <<holders, taken>>

Take(t, a) ==
    /\ column[t] = "ready"
    /\ holders[t] = {}
    /\ a \notin taken
    /\ Needs[t] \subseteq completed
    /\ Put(t, "held")
    /\ holders' = [holders EXCEPT ![t] = {a}]
    /\ taken' = taken \cup {a}

GiveBack(t, a, c) ==
    /\ column[t] = "held"
    /\ holders[t] = {a}
    /\ c \in {"idle", "ready", "done"}
    /\ Put(t, c)
    /\ holders' = [holders EXCEPT ![t] = {}]
    /\ UNCHANGED taken

Column == {"idle", "ready", "done", "gone"}

BoardNext ==
    \E t \in Ticket :
        \/ \E c \in Column : Add(t, c) \/ Decide(t, c)
        \/ \E a \in Turn : Take(t, a) \/ (\E c \in Column : GiveBack(t, a, c))

BoardSpec == BoardInit /\ [][BoardNext]_board
=============================================================================
