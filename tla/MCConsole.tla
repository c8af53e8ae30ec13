----------------------------- MODULE MCConsole -----------------------------
(***************************************************************************)
(* An instance of Consoles for TLC. The consoles do not see each other: a  *)
(* behaviour of the instance has a user at one of them, `console`, and the *)
(* changes the other could make are among those made elsewhere. Its steps  *)
(* are steps of ConsolesNext.                                              *)
(***************************************************************************)
EXTENDS Consoles, TLC

CONSTANTS t1, t2

TwoRows == <<t1, t2>>

VARIABLE console

vars == <<console, history, tab, terminalVars>>

\* The part that no user sits at has a single initial state.
Init ==
    /\ HistoryInit /\ WebInit /\ TerminalInit
    /\ console \in {"web", "terminal"}
    /\ console = "terminal" => /\ \A b \in Tab : tab[b].ticket = t1
                               /\ \A t \in Ticket : CurrentStatus(t) = "todo"
    /\ console = "web" => \A b \in Tab : \A t \in Ticket \ {tab[b].ticket} : CurrentStatus(t) = "todo"

AtWeb == console = "web" /\ WebNext /\ UNCHANGED <<console, terminalVars>>

AtTerminal(A) == console = "terminal" /\ A /\ UNCHANGED <<console, history, tab>>

\* A tab shows one ticket. To the terminal only the lengths of the histories
\* matter; one of its tickets changes.
Work ==
    /\ \/ console = "web" /\ \E b \in Tab : Elsewhere(tab[b].ticket)
       \/ console = "terminal" /\ Claim(t1)
    /\ UNCHANGED <<console, tab, terminalVars>>

Next == AtWeb \/ AtTerminal(TerminalNext) \/ Work

Spec == Init /\ [][Next]_vars
=============================================================================
