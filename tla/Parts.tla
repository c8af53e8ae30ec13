------------------------------- MODULE Parts -------------------------------
(***************************************************************************)
(* Four parts of Forge over one database: migrations, plans, sessions of   *)
(* the web console, and the calls of agents with the reports on them. They *)
(* share no state, and a step is a step of one of them.                    *)
(***************************************************************************)
EXTENDS Migrations, Decomposition, WebSession, Analytics

partsVars == <<migrationVars, planVars, sessionVars, callVars>>

PartsInit == MigrationsInit /\ PlanInit /\ SessionInit /\ CallsInit

Migrating(Step) == Step /\ UNCHANGED <<planVars, sessionVars, callVars>>

Planning(Step) == Step /\ UNCHANGED <<migrationVars, sessionVars, callVars>>

Serving(Step) == Step /\ UNCHANGED <<migrationVars, planVars, callVars>>

Calling(Step) == Step /\ UNCHANGED <<migrationVars, planVars, sessionVars>>

PartsNext ==
    \/ Migrating(MigrationsNext)
    \/ Planning(PlanNext)
    \/ Serving(SessionNext)
    \/ Calling(CallsNext)

PartsSpec == PartsInit /\ [][PartsNext]_partsVars

\* Every part holds values of its types, and a part's locks have the holders they
\* should have (Migrations: one run at a time inside its transaction).
PartsTypeOK == PlanTypeOK /\ MigrationsTypeOK /\ SessionTypeOK /\ CallsTypeOK
=============================================================================
