---------------------------- MODULE Migrations ----------------------------
(***************************************************************************)
(* `forge migrate`: the migrators of one database. A run takes the files   *)
(* of its release, and in one transaction makes sure the table of applied  *)
(* migrations exists, locks it, optionally adopts a schema that was built  *)
(* by hand, verifies what was applied before and executes and records the  *)
(* rest in order. Several hosts may migrate at once, with the files of     *)
(* different releases, and a run may be cut off anywhere.                  *)
(*                                                                         *)
(* A migration's contents are a version, and so is their checksum. What a  *)
(* migration does is one bit: the schema has its objects or not. The files *)
(* of a release do not change while it is being applied.                   *)
(***************************************************************************)
EXTENDS Naturals, FiniteSets

CONSTANTS
    Migrator,     \* runs of the command
    Id,           \* identifiers of migrations, compared as their names are
    Version,      \* contents of a file, and their checksum
    Release,      \* directories of migration files
    Files,        \* Files[r][i]: what release r has for i, or Missing
    Recognised,   \* the migrations whose traces detectBaselineMigrations knows
    Repeatable,   \* migrations that succeed on a schema that has their objects
    Core,         \* the initial schema
    Missing,      \* no file; no row
    Unknown       \* a row without a checksum, written by an earlier forge

ASSUME MigrationsAssumption ==
    /\ Id \subseteq Nat
    /\ Core \in Id
    /\ Recognised \subseteq Id
    /\ Missing \notin Version \cup Migrator
    /\ Unknown \notin Version \cup {Missing}
    /\ Files \in [Release -> [Id -> Version \cup {Missing}]]

VARIABLES
    database,   \* the committed schema and table of applied migrations
    owner,      \* who holds the lock on that table, or Missing
    run         \* per migrator: its arguments, its transaction and where it is

migrationVars == <<database, owner, run>>

Database ==
    [tracked : BOOLEAN,                                  \* the table exists
     row     : [Id -> Version \cup {Missing, Unknown}],  \* checksums
     schema  : SUBSET Id]                                \* objects that exist

Applied(d) == {i \in Id : d.row[i] # Missing}

Listed(r) == {i \in Id : Files[r][i] # Missing}

At == {"idle", "begin", "creating", "locked", "verify", "apply", "ok", "error", "gone"}

\* The database and every run hold values of their types, and the lock belongs to
\* the one run that is inside its transaction.
MigrationsTypeOK ==
    /\ database \in Database
    /\ owner \in Migrator \cup {Missing}
    /\ \A m \in Migrator :
          /\ run[m].at \in At
          /\ run[m].at # "idle" => run[m].release \in Release /\ run[m].baseline \in BOOLEAN
          /\ run[m].at \in {"locked", "verify", "apply"} => owner = m /\ run[m].tx \in Database

\* A database is new, or was built by hand up to some migration, or was migrated by
\* a forge that did not record checksums.
MigrationsInit ==
    /\ \E last \in Nat \cap (Id \cup {0}), tracked \in BOOLEAN :
          LET past == {i \in Id : i <= last} IN
          database = [tracked |-> tracked,
                      row |-> [i \in Id |-> IF tracked /\ i \in past THEN Unknown ELSE Missing],
                      schema |-> past]
    /\ owner = Missing
    /\ run = [m \in Migrator |-> [at |-> "idle"]]

-----------------------------------------------------------------------------

Goto(m, at) ==
    run' = [run EXCEPT ![m] = [at |-> at, release |-> @.release, baseline |-> @.baseline]]

\* runMigrateCommand: flags and the files of the directory, then BEGIN.
Begin(m) ==
    /\ run[m].at = "idle"
    /\ \E r \in Release, b \in BOOLEAN :
          run' = [run EXCEPT ![m] = [at |-> "begin", release |-> r, baseline |-> b]]
    /\ UNCHANGED <<database, owner>>

\* CREATE TABLE IF NOT EXISTS finds no table and somebody else about to create it:
\* the statement waits for that transaction.
WaitForCreation(m) ==
    /\ run[m].at = "begin"
    /\ owner # Missing
    /\ ~database.tracked
    /\ Goto(m, "creating")
    /\ UNCHANGED <<database, owner>>

\* The other transaction committed: the name is taken and the statement fails.
CreationConflict(m) ==
    /\ run[m].at = "creating"
    /\ database.tracked
    /\ Goto(m, "error")
    /\ UNCHANGED <<database, owner>>

\* Mutant: nobody waits for the lock.
EnsureWithoutLock(m) ==
    /\ run[m].at = "begin"
    /\ owner' = m
    /\ run' = [run EXCEPT ![m] = [at |-> "locked", release |-> @.release, baseline |-> @.baseline,
                                   tx |-> [database EXCEPT !.tracked = TRUE]]]
    /\ UNCHANGED database

\* The table exists now, in this transaction or for everybody, and adding the
\* column already locks it; LOCK TABLE follows.
EnsureAndLock(m) ==
    /\ \/ run[m].at = "begin"
       \/ run[m].at = "creating" /\ ~database.tracked
    /\ owner = Missing
    /\ owner' = m
    /\ run' = [run EXCEPT ![m] = [at |-> "locked", release |-> @.release, baseline |-> @.baseline,
                                   tx |-> [database EXCEPT !.tracked = TRUE]]]
    /\ UNCHANGED database

\* The migrations whose objects are found, of those the release has.
DetectBaseline(d, r) ==
    IF Core \in d.schema THEN Recognised \cap d.schema \cap Listed(r) ELSE {}

\* The baseline is recorded only for a database that has no rows. What
\* loadAppliedMigrations reads is what is committed, for it runs after the lock.
WantsBaseline(m) == run[m].baseline /\ Applied(run[m].tx) = {}

Baseline(m) ==
    LET r == run[m].release
        found == DetectBaseline(run[m].tx, r)
    IN
    /\ run[m].at = "locked"
    /\ WantsBaseline(m) => found # {}
    /\ run' = [run EXCEPT
                 ![m].at = "verify",
                 ![m].tx.row = [i \in Id |->
                                  IF WantsBaseline(m) /\ i \in found THEN Files[r][i] ELSE @[i]]]
    /\ UNCHANGED <<database, owner>>

\* Mutant: what was applied is compared by name only.
UnchangedByName(tx, r) == Applied(tx) \subseteq Listed(r)

\* verifyMigrationChecksums: every applied migration is among the files, unchanged;
\* a row without a checksum adopts the one of the file.
Unchanged(tx, r) ==
    \A i \in Applied(tx) : i \in Listed(r) /\ tx.row[i] \in {Unknown, Files[r][i]}

Adopt(tx, r) == [i \in Id |-> IF tx.row[i] = Unknown THEN Files[r][i] ELSE tx.row[i]]

Verify(m) ==
    /\ run[m].at = "verify"
    /\ Unchanged(run[m].tx, run[m].release)
    /\ run' = [run EXCEPT ![m].at = "apply", ![m].tx.row = Adopt(run[m].tx, run[m].release)]
    /\ UNCHANGED <<database, owner>>

\* The files that are not applied yet.
Pending(m) == Listed(run[m].release) \ Applied(run[m].tx)

\* Executing a migration fails when its objects exist, unless it replaces them.
Executable(i, m) == i \in run[m].tx.schema => i \in Repeatable

\* The first of the pending files is executed and recorded.
ApplyFile(m) ==
    /\ run[m].at = "apply"
    /\ \E i \in Pending(m) :
          /\ \A j \in Pending(m) : i <= j
          /\ Executable(i, m)
          /\ run' = [run EXCEPT ![m].tx.schema = @ \cup {i},
                                ![m].tx.row[i] = Files[run[m].release][i]]
    /\ UNCHANGED <<database, owner>>

\* Mutant: every file in a transaction of its own.
CommitEachFile(m) ==
    /\ run[m].at = "apply"
    /\ database' = run[m].tx
    /\ owner' = Missing
    /\ \E at \in {"ok", "gone"} : (at = "ok" => Pending(m) = {}) /\ Goto(m, at)

\* COMMIT; its answer may be lost with the connection or the process.
Commit(m) ==
    /\ run[m].at = "apply"
    /\ Pending(m) = {}
    /\ database' = run[m].tx
    /\ owner' = Missing
    /\ \E at \in {"ok", "gone"} : Goto(m, at)

\* Mutant: an error returns without the deferred ROLLBACK and keeps the lock.
ReturnWithoutRollback(m) ==
    /\ Goto(m, "error")
    /\ UNCHANGED <<database, owner>>

\* The deferred ROLLBACK, or PostgreSQL's own when the process is gone.
Rollback(m) ==
    /\ owner' = IF owner = m THEN Missing ELSE owner
    /\ Goto(m, "error")
    /\ UNCHANGED database

\* The errors that the steps above return.
Refuse(m) ==
    /\ \/ /\ run[m].at = "locked"
          /\ WantsBaseline(m)
          /\ DetectBaseline(run[m].tx, run[m].release) = {}
       \/ run[m].at = "verify" /\ ~Unchanged(run[m].tx, run[m].release)
       \/ /\ run[m].at = "apply"
          /\ \E i \in Pending(m) : ~Executable(i, m) /\ \A j \in Pending(m) : i <= j
    /\ Rollback(m)

\* A lost connection, an unreadable file or a killed process, at any point.
CutOff(m) ==
    /\ run[m].at \in {"begin", "creating", "locked", "verify", "apply"}
    /\ Rollback(m)

\* What a migrator does when nothing cuts it off.
Migrate(m) ==
    \/ WaitForCreation(m)
    \/ CreationConflict(m)
    \/ EnsureAndLock(m)
    \/ Baseline(m)
    \/ Verify(m)
    \/ ApplyFile(m)
    \/ Commit(m)
    \/ Refuse(m)

MigrationsNext == \E m \in Migrator : Begin(m) \/ Migrate(m) \/ CutOff(m)

MigrationsSpec == MigrationsInit /\ [][MigrationsNext]_migrationVars

\* A migrator that is not cut off goes on, and PostgreSQL gives it a lock that stays free.
MigrationsFairness == \A m \in Migrator : WF_migrationVars(Migrate(m))

-----------------------------------------------------------------------------
(* Properties                                                              *)

\* The database moves from one whole release to another: whoever commits leaves
\* exactly the files of one release applied, so a crash, an error and the files of
\* an older release change nothing. What the table says was applied is in the schema:
\* rows are written for objects that were found or with the statements that create
\* them (ApplyMigrationsWithOptions, recordMigration).
WholeReleases ==
    [][database' # database =>
          /\ database'.tracked
          /\ \E r \in Release : Applied(database') = Listed(r)
          /\ Applied(database') \subseteq database'.schema]_migrationVars

\* A migrator whose answer was success sees the work of its release for ever after,
\* also when another one was at it at the same time or comes with an edited file: a
\* recorded checksum is never replaced (verifyMigrationChecksums).
SuccessIsLasting ==
    \A m \in Migrator :
        run[m].at = "ok" =>
            \A i \in Listed(run[m].release) : database.row[i] = Files[run[m].release][i]

\* Nobody waits for ever: the lock is given back, and two migrators that want to
\* create the table do not wait for each other.
EveryRunEnds ==
    \A m \in Migrator : run[m].at = "begin" ~> run[m].at \in {"ok", "error", "gone"}
=============================================================================
