------------------------------ MODULE MCParts ------------------------------
(***************************************************************************)
(* Instances of Parts for TLC. The parts share no state, so a behaviour of *)
(* the run is one of a single part, the one that `part` names, while the   *)
(* others stand still.                                                     *)
(*                                                                         *)
(* The calls of one behaviour are of a few operations, `mix`. Calls meet   *)
(* only in the row of an attempt, and the mixes have every operation on    *)
(* attempts meet an end of the attempt by a transaction.                   *)
(***************************************************************************)
EXTENDS Parts, TLC

CONSTANTS old, new, edited, v1, v2, s1, Mixes

ASSUME MixesAssumption == UNION Mixes = Op

\* A release, the next one with a file in the middle, and one that edits a file.
ThreeReleases ==
    (old :> (1 :> v1 @@ 2 :> Missing @@ 3 :> v1))
 @@ (new :> (1 :> v1 @@ 2 :> v1 @@ 3 :> v1))
 @@ (edited :> (1 :> v1 @@ 2 :> Missing @@ 3 :> v2))

\* Two agents on one harness; one does not name its model.
Unnamed == [agent |-> "a1", harness |-> "codex", model |-> Blank]

TwoProfiles == {Unnamed, [agent |-> "a2", harness |-> "codex", model |-> "m"]}

VARIABLES part, mix

\* There is one attempt to meet in; another is claimed.
MixInit ==
    /\ mix \in Mixes
    /\ Len(attempts) = 1 /\ attempts[1].profile = Unnamed

\* The parts that stand still have a single initial state; a server runs on a
\* database that has the whole schema.
Init ==
    /\ PartsInit
    /\ part \in {"migrate", "plan", "session", "calls"}
    /\ part # "migrate" => database.tracked /\ database.schema = Id
    /\ part # "session" => adminToken = s1
    /\ IF part = "calls" THEN MixInit ELSE mix = {} /\ attempts = <<>>

vars == <<part, mix, partsVars>>

Playing(p, Step) == part = p /\ Step /\ UNCHANGED <<part, mix>>

SentInMix == Len(calls') > Len(calls) => calls'[Len(calls')].op \in mix

Next ==
    \/ Playing("migrate", Migrating(MigrationsNext))
    \/ Playing("plan", Planning(PlanNext))
    \/ Playing("session", Serving(SessionNext))
    \/ Playing("calls", Calling(CallsNext /\ SentInMix))

Spec ==
    /\ Init
    /\ [][Next]_vars
    /\ \A m \in Migrator : WF_vars(Playing("migrate", Migrating(Migrate(m))))
    /\ WF_vars(Playing("plan", Planning(Work)))
=============================================================================
