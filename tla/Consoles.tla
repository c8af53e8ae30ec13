------------------------------ MODULE Consoles ------------------------------
(***************************************************************************)
(* The web console and the terminal over one ticket history. They are two  *)
(* processes that share only the database: a form of the web console       *)
(* changes the history under the terminal's feet, and everybody else who   *)
(* works with the tickets changes it under both.                           *)
(***************************************************************************)
EXTENDS WebConsole, TerminalUI

consoleVars == <<history, tab, terminalVars>>

ConsolesInit == HistoryInit /\ WebInit /\ TerminalInit

ConsolesNext ==
    \/ WebNext /\ UNCHANGED terminalVars
    \/ TerminalNext /\ UNCHANGED <<history, tab>>
    \/ (\E t \in Ticket : Elsewhere(t)) /\ UNCHANGED <<tab, terminalVars>>

ConsolesSpec == ConsolesInit /\ [][ConsolesNext]_consoleVars

\* Pages, the list and its window, and the detail hold values of their types.
ConsoleTypeOK == WebTypeOK /\ TerminalTypeOK
=============================================================================
