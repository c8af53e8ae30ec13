---------------------------- MODULE AdminProofs ----------------------------
(***************************************************************************)
(* Theorems about the parts that people run the server with: sessions and  *)
(* the login throttle, migrations, the triage of proposed work, and plans. *)
(* Decomposition, for any plan: the search for a cycle decides rightly,    *)
(* and a plan is written whole or not at all.                              *)
(***************************************************************************)
EXTENDS WebSession, Migrations, Triage, Decomposition, SequenceTheorems, FiniteSetTheorems,
        WellFoundedInduction, TLAPS

-----------------------------------------------------------------------------

\* The least natural number of a set.
LEMMA LeastNumber ==
    ASSUME NEW N \in SUBSET Nat, N # {}
    PROVE  \E m \in N : \A n \in N : m <= n
<1> DEFINE Less == {ss \in Nat \X Nat : ss[1] < ss[2]}
<1>1. IsWellFoundedOn(Less, Nat)
    BY NatLessThanWellFounded DEF OpToRel
<1>2. PICK m \in N : \A n \in N : ~(<<n, m>> \in Less)
    BY <1>1, WFMin
<1>3. ASSUME NEW n \in N PROVE m <= n
  <2>1. m \in Nat /\ n \in Nat /\ <<n, m>> \in Nat \X Nat
    OBVIOUS
  <2>2. <<n, m>>[1] = n /\ <<n, m>>[2] = m
    OBVIOUS
  <2>3. ~(n < m)
    BY <1>2, <2>1, <2>2
  <2> QED BY <2>1, <2>3
<1> QED BY <1>3

-----------------------------------------------------------------------------
(* WebSession.                                                             *)

\* A cookie says when it was issued and under which token.
CookieInv ==
    \A b \in Browser : cookie[b] # None =>
        /\ cookie[b].expires = grant[b].time + TTL
        /\ cookie[b].signedWith = grant[b].token

SessionInv == SessionTypeOK /\ CookieInv /\ ThrottleHolds /\ SessionsEnd

LEMMA InFlightFinite ==
    /\ IsFiniteSet(InFlight) /\ Cardinality(InFlight) \in Nat
    /\ Cardinality(Browser) \in Nat /\ Cardinality(InFlight) <= Cardinality(Browser)
<1>1. InFlight \subseteq Browser
    BY DEF InFlight
<1>2. IsFiniteSet(Browser)
    BY SessionAssumption
<1> QED BY <1>1, <1>2, FS_Subset, FS_CardinalityType

\* A login that ends, whatever its outcome, is one less in flight.
LEMMA LoginEnds ==
    ASSUME SessionTypeOK, NEW b \in Browser, post[b] # None, post' = [post EXCEPT ![b] = None]
    PROVE  Cardinality(InFlight') = Cardinality(InFlight) - 1
<1>1. InFlight' = InFlight \ {b} /\ b \in InFlight
    BY DEF InFlight, SessionTypeOK
<1> QED BY <1>1, InFlightFinite, FS_RemoveElement

\* Moving the window on only forgets failures.
LEMMA RollForgets ==
    ASSUME SessionTypeOK, NEW t \in Nat
    PROVE  StartAt(t) \in Nat /\ FailuresAt(t) \in Nat /\ FailuresAt(t) <= failures
BY DEF SessionTypeOK, StartAt, FailuresAt

LEMMA SessionInitInv == SessionInit => SessionInv
<1> SUFFICES ASSUME SessionInit PROVE SessionInv
    OBVIOUS
<1> USE SessionAssumption
<1>1. SessionTypeOK
    BY DEF SessionInit, SessionTypeOK, Moment, Never
<1>2. CookieInv
    BY DEF SessionInit, CookieInv
<1>3. ThrottleHolds
  <2>1. InFlight = {}
    BY DEF SessionInit, InFlight
  <2> QED BY <2>1, FS_EmptySet, InFlightFinite DEF SessionInit, ThrottleHolds
<1>4. SessionsEnd
    BY DEF SessionInit, SessionsEnd
<1> QED BY <1>1, <1>2, <1>3, <1>4 DEF SessionInv

LEMMA SessionNextInv == SessionInv /\ [SessionNext]_sessionVars => SessionInv'
<1> SUFFICES ASSUME SessionInv, [SessionNext]_sessionVars PROVE SessionInv'
    OBVIOUS
<1> USE SessionAssumption
<1>0. /\ SessionTypeOK /\ CookieInv /\ ThrottleHolds /\ SessionsEnd
      /\ failures \in Nat /\ now \in Nat
    BY DEF SessionInv, SessionTypeOK
<1>k. ASSUME UNCHANGED <<cookie, grant, served>>
      PROVE  CookieInv' /\ SessionsEnd'
    BY <1>0, <1>k DEF CookieInv, SessionsEnd
<1>p. Cardinality(InFlight') \in Nat /\ Cardinality(InFlight') <= Cardinality(Browser)
  <2>1. InFlight' \subseteq Browser
    BY DEF InFlight
  <2> QED BY <2>1, FS_Subset, FS_CardinalityType
<1>1. ASSUME NEW b \in Browser, NEW token \in Token, PostLogin(b, token)
      PROVE  SessionInv'
  <2>1. StartAt(now) \in Nat /\ FailuresAt(now) \in Nat /\ FailuresAt(now) <= failures
    BY <1>0, RollForgets
  <2>2. SessionTypeOK'
    BY <1>0, <1>1, <2>1 DEF SessionTypeOK, PostLogin
  <2>3. ThrottleHolds'
    <3>1. CASE OverLimit(now)
      <4>1. InFlight' = InFlight
        BY <1>1, <3>1 DEF PostLogin, InFlight
      <4> QED BY <1>0, <1>1, <2>1, <4>1, InFlightFinite DEF ThrottleHolds, PostLogin
    <3>2. CASE ~ OverLimit(now)
      <4>1. failures' <= Limit - 1 /\ failures' \in Nat
        BY <1>1, <2>1, <3>2 DEF PostLogin, OverLimit
      <4> QED BY <1>p, <4>1, InFlightFinite DEF ThrottleHolds
    <3> QED BY <3>1, <3>2
  <2> QED BY <1>1, <1>k, <2>2, <2>3 DEF PostLogin, SessionInv
<1>2. ASSUME NEW b \in Browser, LoginFails(b)
      PROVE  SessionInv'
  <2>1. post[b].now \in Nat
    BY <1>0, <1>2 DEF SessionTypeOK, LoginFails
  <2>2. /\ StartAt(post[b].now) \in Nat /\ FailuresAt(post[b].now) \in Nat
        /\ FailuresAt(post[b].now) <= failures
    BY <1>0, <2>1, RollForgets
  <2>3. SessionTypeOK'
    BY <1>0, <1>2, <2>2 DEF SessionTypeOK, LoginFails
  <2>4. Cardinality(InFlight') = Cardinality(InFlight) - 1
    BY <1>0, <1>2, LoginEnds DEF LoginFails
  <2>5. ThrottleHolds'
    BY <1>0, <1>2, <2>2, <2>4, InFlightFinite DEF ThrottleHolds, LoginFails
  <2> QED BY <1>2, <1>k, <2>3, <2>5 DEF LoginFails, SessionInv
<1>3. ASSUME NEW b \in Browser, LoginSucceeds(b)
      PROVE  SessionInv'
  <2>1. SessionTypeOK'
    BY <1>0, <1>3 DEF SessionTypeOK, LoginSucceeds, SessionValue, Cookie, Moment, Never, throttle
  <2>2. Cardinality(InFlight') = Cardinality(InFlight) - 1
    BY <1>0, <1>3, LoginEnds DEF LoginSucceeds
  <2>3. ThrottleHolds'
    BY <1>0, <1>3, <2>2, InFlightFinite DEF ThrottleHolds, LoginSucceeds, throttle
  <2>4. /\ \A x \in Browser \ {b} : cookie'[x] = cookie[x] /\ grant'[x] = grant[x] /\ served'[x] = served[x]
        /\ cookie'[b].expires = now + TTL /\ cookie'[b].signedWith = adminToken
        /\ grant'[b].time = now /\ grant'[b].token = adminToken
        /\ served'[b] = Never
    BY <1>0, <1>3 DEF SessionTypeOK, LoginSucceeds, SessionValue
  <2>5. CookieInv'
    BY <1>0, <2>4 DEF CookieInv
  <2>6. SessionsEnd'
    BY <1>0, <2>4 DEF SessionsEnd
  <2> QED BY <2>1, <2>3, <2>5, <2>6 DEF SessionInv
<1>4. ASSUME NEW b \in Browser, ServePage(b)
      PROVE  SessionInv'
  <2>1. SessionTypeOK'
    BY <1>0, <1>4 DEF SessionTypeOK, ServePage, Moment, throttle
  <2>2. ThrottleHolds'
    BY <1>0, <1>4 DEF ThrottleHolds, InFlight, ServePage, throttle
  <2>3. /\ \A x \in Browser \ {b} : served'[x] = served[x]
        /\ served'[b].time = now /\ served'[b].token = adminToken
        /\ now < cookie[b].expires /\ cookie[b].signedWith = adminToken /\ cookie[b] # None
    BY <1>0, <1>4 DEF SessionTypeOK, ServePage, ValidSession
  <2>4. CookieInv'
    BY <1>0, <1>4 DEF CookieInv, ServePage
  <2>5. SessionsEnd'
    <3>1. grant' = grant
      BY <1>4 DEF ServePage
    <3> QED BY <1>0, <2>3, <3>1 DEF CookieInv, SessionsEnd
  <2> QED BY <2>1, <2>2, <2>4, <2>5 DEF SessionInv
<1>5. ASSUME RestartServer
      PROVE  SessionInv'
  <2>1. SessionTypeOK'
    BY <1>0, <1>5 DEF SessionTypeOK, RestartServer
  <2>2. InFlight' = {} /\ failures' = 0
    BY <1>5 DEF InFlight, RestartServer
  <2>3. ThrottleHolds'
    BY <2>2, FS_EmptySet, InFlightFinite DEF ThrottleHolds
  <2> QED BY <1>5, <1>k, <2>1, <2>3 DEF RestartServer, SessionInv
<1>6. ASSUME SessionTick
      PROVE  SessionInv'
  <2>1. SessionTypeOK'
    BY <1>0, <1>6 DEF SessionTypeOK, SessionTick, throttle
  <2>2. ThrottleHolds'
    BY <1>0, <1>6 DEF ThrottleHolds, InFlight, SessionTick, throttle
  <2> QED BY <1>6, <1>k, <2>1, <2>2 DEF SessionTick, SessionInv
<1>7. CASE UNCHANGED sessionVars
  <2>1. SessionTypeOK' /\ ThrottleHolds'
    BY <1>0, <1>7 DEF SessionTypeOK, ThrottleHolds, InFlight, sessionVars
  <2> QED BY <1>7, <1>k, <2>1 DEF sessionVars, SessionInv
<1> QED
    BY <1>1, <1>2, <1>3, <1>4, <1>5, <1>6, <1>7 DEF SessionNext

LEMMA SessionInvHolds == SessionSpec => []SessionInv
BY SessionInitInv, SessionNextInv, PTL DEF SessionSpec

\* The clock, the throttle, requests, cookies and histories keep their types.
THEOREM SessionTypeCorrect == SessionSpec => []SessionTypeOK
<1>1. SessionInv => SessionTypeOK
    BY DEF SessionInv
<1> QED BY <1>1, SessionInvHolds, PTL

\* overLimit and recordFailure take the lock separately; the overshoot is bounded by
\* the logins in flight, for any limit, window and number of clients.
THEOREM ThrottleHoldsAlways == SessionSpec => []ThrottleHolds
<1>1. SessionInv => ThrottleHolds
    BY DEF SessionInv
<1> QED BY <1>1, SessionInvHolds, PTL

\* No page is served for a session after its TTL or under another token than the one it
\* was opened with (validSessionValue), however often the server restarts.
THEOREM SessionsEndHolds == SessionSpec => []SessionsEnd
<1>1. SessionInv => SessionsEnd
    BY DEF SessionInv
<1> QED BY <1>1, SessionInvHolds, PTL

-----------------------------------------------------------------------------
(* Migrations: the inductive invariant.                                    *)

Inside == {"locked", "verify", "apply"}

Outside == {"begin", "creating", "ok", "error", "gone"}

\* A run has its arguments once it has begun, and a transaction while it is inside.
RunFields(at) ==
    IF at \in Inside THEN {"at", "release", "baseline", "tx"}
    ELSE IF at = "idle" THEN {"at"} ELSE {"at", "release", "baseline"}

RunsInv == DOMAIN run = Migrator /\ \A m \in Migrator : DOMAIN run[m] = RunFields(run[m].at)

\* Rows are written for objects that exist, in what is committed and in a transaction.
RowsHaveObjects(d) == Applied(d) \subseteq d.schema

\* No checksum of d is replaced in e.
KeepsChecksums(d, e) == \A i \in Id : d.row[i] \in Version => e.row[i] = d.row[i]

\* A transaction keeps what is committed; once it has verified, every row is the
\* release's.
TxInv(tx, at, r) ==
    /\ tx.tracked
    /\ RowsHaveObjects(tx)
    /\ KeepsChecksums(database, tx)
    /\ at = "apply" => \A i \in Applied(tx) : i \in Listed(r) /\ tx.row[i] = Files[r][i]

\* Who holds the lock is at work.
LockInv == \A m \in Migrator : owner = m => run[m].at \in Inside

MigrationsInv ==
    /\ MigrationsTypeOK
    /\ RunsInv
    /\ LockInv
    /\ RowsHaveObjects(database)
    /\ \A m \in Migrator : run[m].at \in Inside => TxInv(run[m].tx, run[m].at, run[m].release)
    /\ SuccessIsLasting

-----------------------------------------------------------------------------
(* Migrations: the two kinds of steps.                                     *)

\* A migrator goes on inside its transaction, or enters it.
LEMMA InsideStep ==
    ASSUME MigrationsInv, NEW m \in Migrator, run[m].at # "idle",
           owner \in {m, Missing}, owner' = m, database' = database,
           DOMAIN run' = Migrator, \A j \in Migrator \ {m} : run'[j] = run[j],
           DOMAIN run'[m] = {"at", "release", "baseline", "tx"},
           run'[m].at \in Inside, run'[m].release = run[m].release, run'[m].baseline = run[m].baseline,
           run'[m].tx \in Database,
           TxInv(run'[m].tx, run'[m].at, run[m].release)
    PROVE  MigrationsInv'
<1>0. MigrationsTypeOK /\ RunsInv /\ SuccessIsLasting
    BY DEF MigrationsInv
<1>1. \A j \in Migrator \ {m} : run[j].at \notin Inside
    BY <1>0, MigrationsAssumption DEF MigrationsTypeOK, Inside
<1>2. MigrationsTypeOK'
    BY <1>0, <1>1 DEF MigrationsTypeOK, Inside, At
<1>3. RunsInv' /\ LockInv'
    BY <1>0 DEF RunsInv, RunFields, LockInv
<1>4. RowsHaveObjects(database)' /\ SuccessIsLasting'
    BY <1>0 DEF MigrationsInv, RowsHaveObjects, Applied, SuccessIsLasting, Inside
<1>5. \A j \in Migrator : run'[j].at \in Inside => TxInv(run[j].tx, run[j].at, run[j].release)'
    BY <1>1 DEF TxInv, KeepsChecksums, RowsHaveObjects, Applied
<1> QED BY <1>2, <1>3, <1>4, <1>5 DEF MigrationsInv

\* A migrator waits, or ends with or without having committed.
LEMMA OutsideStep ==
    ASSUME MigrationsInv, NEW m \in Migrator,
           DOMAIN run' = Migrator, \A j \in Migrator \ {m} : run'[j] = run[j],
           DOMAIN run'[m] = {"at", "release", "baseline"}, run'[m].at \in Outside,
           run'[m].release \in Release, run'[m].baseline \in BOOLEAN,
           owner' = IF owner = m THEN Missing ELSE owner,
           database' \in Database, database' = database \/ owner = m,
           RowsHaveObjects(database)', KeepsChecksums(database, database'),
           run'[m].at = "ok" =>
               \A i \in Listed(run'[m].release) : database'.row[i] = Files[run'[m].release][i]
    PROVE  MigrationsInv'
<1>0. MigrationsTypeOK /\ RunsInv /\ SuccessIsLasting
    BY DEF MigrationsInv
<1>1. \A j \in Migrator \ {m} : run[j].at \in Inside => owner = j /\ database' = database
    BY <1>0 DEF MigrationsTypeOK, Inside
<1>2. MigrationsTypeOK'
    BY <1>0, <1>1 DEF MigrationsTypeOK, Inside, Outside, At
<1>3. RunsInv' /\ LockInv'
    BY <1>0, MigrationsAssumption DEF MigrationsInv, RunsInv, RunFields, Inside, Outside, LockInv
<1>4. SuccessIsLasting'
  <2>1. \A r \in Release : \A i \in Listed(r) : i \in Id /\ Files[r][i] \in Version
    BY MigrationsAssumption DEF Listed
  <2> QED
    BY <1>0, <2>1 DEF SuccessIsLasting, KeepsChecksums, MigrationsTypeOK
<1>5. \A j \in Migrator : run'[j].at \in Inside => TxInv(run[j].tx, run[j].at, run[j].release)'
    BY <1>1 DEF MigrationsInv, TxInv, KeepsChecksums, RowsHaveObjects, Applied, Inside, Outside
<1> QED BY <1>2, <1>3, <1>4, <1>5 DEF MigrationsInv

-----------------------------------------------------------------------------
(* Migrations: the actions.                                                *)

LEMMA MigrationsInitInv == MigrationsInit => MigrationsInv
<1> SUFFICES ASSUME MigrationsInit PROVE MigrationsInv
    OBVIOUS
<1>1. PICK last \in Nat \cap (Id \cup {0}), tracked \in BOOLEAN :
          database = [tracked |-> tracked,
                      row |-> [i \in Id |-> IF tracked /\ i \in {k \in Id : k <= last} THEN Unknown ELSE Missing],
                      schema |-> {k \in Id : k <= last}]
    BY DEF MigrationsInit
<1>2. database \in Database /\ RowsHaveObjects(database)
    BY <1>1 DEF Database, RowsHaveObjects, Applied
<1>3. DOMAIN run = Migrator /\ \A m \in Migrator : run[m] = [at |-> "idle"]
    BY DEF MigrationsInit
<1>4. \A m \in Migrator : run[m].at = "idle" /\ DOMAIN run[m] = {"at"}
    BY <1>3
<1>5. MigrationsTypeOK
    BY <1>2, <1>4 DEF MigrationsInit, MigrationsTypeOK, At
<1>6. RunsInv /\ LockInv
    BY <1>3, <1>4, MigrationsAssumption DEF MigrationsInit, RunsInv, RunFields, Inside, LockInv
<1> QED
    BY <1>2, <1>4, <1>5, <1>6 DEF MigrationsInv, SuccessIsLasting, Inside

\* What Goto does to a run that has begun.
LEMMA GotoFacts ==
    ASSUME MigrationsInv, NEW m \in Migrator, NEW at \in Outside, run[m].at # "idle", Goto(m, at)
    PROVE  /\ DOMAIN run' = Migrator /\ \A j \in Migrator \ {m} : run'[j] = run[j]
           /\ DOMAIN run'[m] = {"at", "release", "baseline"} /\ run'[m].at = at
           /\ run'[m].release = run[m].release /\ run'[m].baseline = run[m].baseline
           /\ run'[m].release \in Release /\ run'[m].baseline \in BOOLEAN
<1>1. /\ DOMAIN run = Migrator
      /\ run[m].release \in Release /\ run[m].baseline \in BOOLEAN
    BY DEF MigrationsInv, RunsInv, MigrationsTypeOK
<1>2. /\ DOMAIN run' = Migrator /\ \A j \in Migrator \ {m} : run'[j] = run[j]
      /\ run'[m] = [at |-> at, release |-> run[m].release, baseline |-> run[m].baseline]
    BY <1>1 DEF Goto
<1> QED BY <1>1, <1>2

\* The steps that leave the database alone and end outside a transaction.
LEMMA GotoKeepsInv ==
    ASSUME MigrationsInv, NEW m \in Migrator, NEW at \in Outside \ {"ok"}, run[m].at # "idle",
           Goto(m, at), database' = database,
           owner' = IF owner = m THEN Missing ELSE owner
    PROVE  MigrationsInv'
<1>1. database \in Database /\ RowsHaveObjects(database)
    BY DEF MigrationsInv, MigrationsTypeOK
<1>2. RowsHaveObjects(database)' /\ KeepsChecksums(database, database')
    BY <1>1 DEF RowsHaveObjects, Applied, KeepsChecksums
<1> QED
    BY <1>1, <1>2, GotoFacts, OutsideStep

LEMMA BeginKeepsInv ==
    ASSUME MigrationsInv, NEW m \in Migrator, Begin(m)
    PROVE  MigrationsInv'
<1>1. PICK r \in Release, b \in BOOLEAN :
          run' = [run EXCEPT ![m] = [at |-> "begin", release |-> r, baseline |-> b]]
    BY DEF Begin
<1>2. database \in Database /\ RowsHaveObjects(database) /\ DOMAIN run = Migrator
    BY DEF MigrationsInv, MigrationsTypeOK, RunsInv
<1>3. database' = database /\ owner' = owner /\ run[m].at = "idle"
    BY DEF Begin
<1>4. /\ DOMAIN run' = Migrator /\ \A j \in Migrator \ {m} : run'[j] = run[j]
      /\ run'[m] = [at |-> "begin", release |-> r, baseline |-> b]
    BY <1>1, <1>2
<1>5. /\ DOMAIN run'[m] = {"at", "release", "baseline"} /\ run'[m].at = "begin"
      /\ run'[m].release \in Release /\ run'[m].baseline \in BOOLEAN
    BY <1>4
<1>6. RowsHaveObjects(database)' /\ KeepsChecksums(database, database')
    BY <1>2, <1>3 DEF RowsHaveObjects, Applied, KeepsChecksums
<1>7. owner # m
    BY <1>3 DEF MigrationsInv, LockInv, Inside
<1> QED
    BY <1>2, <1>3, <1>4, <1>5, <1>6, <1>7, OutsideStep DEF Outside

\* Entering the transaction: the lock is free.
LEMMA EnsureKeepsInv ==
    ASSUME MigrationsInv, NEW m \in Migrator, EnsureAndLock(m)
    PROVE  MigrationsInv'
<1> DEFINE tx == [database EXCEPT !.tracked = TRUE]
<1>1. database \in Database /\ RowsHaveObjects(database) /\ DOMAIN run = Migrator
    BY DEF MigrationsInv, MigrationsTypeOK, RunsInv
<1>2. /\ tx \in Database /\ tx.tracked /\ tx.row = database.row /\ tx.schema = database.schema
    BY <1>1 DEF Database
<1>3. /\ owner = Missing /\ owner' = m /\ database' = database /\ run[m].at # "idle"
      /\ run' = [run EXCEPT ![m] = [at |-> "locked", release |-> run[m].release,
                                    baseline |-> run[m].baseline, tx |-> tx]]
    BY DEF EnsureAndLock
<1> HIDE DEF tx
<1>4. /\ DOMAIN run' = Migrator /\ \A j \in Migrator \ {m} : run'[j] = run[j]
      /\ run'[m] = [at |-> "locked", release |-> run[m].release, baseline |-> run[m].baseline, tx |-> tx]
    BY <1>1, <1>3
<1>5. /\ DOMAIN run'[m] = {"at", "release", "baseline", "tx"} /\ run'[m].at = "locked"
      /\ run'[m].release = run[m].release /\ run'[m].baseline = run[m].baseline /\ run'[m].tx = tx
    BY <1>4
<1>6. TxInv(tx, "locked", run[m].release)
    BY <1>1, <1>2 DEF TxInv, RowsHaveObjects, Applied, KeepsChecksums
<1> QED
    BY <1>2, <1>3, <1>4, <1>5, <1>6, InsideStep DEF Inside

\* A step inside the transaction that sets rows and objects; tx is its new state.
LEMMA WriteKeepsInv ==
    ASSUME MigrationsInv, NEW m \in Migrator, run[m].at \in Inside, NEW tx \in Database,
           UNCHANGED <<database, owner>>,
           DOMAIN run' = Migrator, \A j \in Migrator \ {m} : run'[j] = run[j],
           DOMAIN run'[m] = {"at", "release", "baseline", "tx"}, run'[m].at \in Inside,
           run'[m].release = run[m].release, run'[m].baseline = run[m].baseline, run'[m].tx = tx,
           tx.tracked = run[m].tx.tracked, KeepsChecksums(run[m].tx, tx), RowsHaveObjects(tx),
           run'[m].at = "apply" =>
               \A i \in Applied(tx) : i \in Listed(run[m].release) /\ tx.row[i] = Files[run[m].release][i]
    PROVE  MigrationsInv'
<1>1. /\ owner = m /\ TxInv(run[m].tx, run[m].at, run[m].release)
      /\ run[m].at # "idle"
    BY DEF MigrationsInv, MigrationsTypeOK, Inside
<1>2. KeepsChecksums(database, tx)
    BY <1>1 DEF TxInv, KeepsChecksums
<1>3. TxInv(tx, run'[m].at, run[m].release)
    BY <1>1, <1>2 DEF TxInv
<1> QED
    BY <1>1, <1>3, InsideStep

\* What a run inside its transaction consists of.
InTransaction(m) ==
    /\ DOMAIN run = Migrator /\ DOMAIN run[m] = {"at", "release", "baseline", "tx"}
    /\ owner = m /\ run[m].release \in Release /\ run[m].tx \in Database
    /\ TxInv(run[m].tx, run[m].at, run[m].release)
    /\ \A i \in Listed(run[m].release) : i \in Id /\ Files[run[m].release][i] \in Version
    /\ \A i \in Id : run[m].tx.row[i] \in Version \cup {Missing, Unknown}
    /\ run[m].tx.schema \subseteq Id /\ run[m].tx.tracked \in BOOLEAN
    /\ DOMAIN run[m].tx = {"tracked", "row", "schema"} /\ DOMAIN run[m].tx.row = Id

LEMMA InsideFacts ==
    ASSUME MigrationsInv, NEW m \in Migrator, run[m].at \in Inside
    PROVE  InTransaction(m)
<1>1. /\ DOMAIN run = Migrator /\ DOMAIN run[m] = {"at", "release", "baseline", "tx"}
      /\ owner = m /\ run[m].release \in Release /\ run[m].tx \in Database
      /\ TxInv(run[m].tx, run[m].at, run[m].release)
    BY DEF MigrationsInv, MigrationsTypeOK, RunsInv, RunFields, Inside
<1>2. \A i \in Listed(run[m].release) : i \in Id /\ Files[run[m].release][i] \in Version
    BY <1>1, MigrationsAssumption DEF Listed
<1> QED BY <1>1, <1>2 DEF Database, InTransaction

LEMMA BaselineKeepsInv ==
    ASSUME MigrationsInv, NEW m \in Migrator, Baseline(m)
    PROVE  MigrationsInv'
<1> DEFINE r == run[m].release
           found == DetectBaseline(run[m].tx, r)
           tx == run[m].tx
           row == [i \in Id |-> IF WantsBaseline(m) /\ i \in found THEN Files[r][i] ELSE tx.row[i]]
           next == [tx EXCEPT !.row = row]
<1>1. /\ run[m].at = "locked" /\ UNCHANGED <<database, owner>>
      /\ run' = [run EXCEPT ![m].at = "verify", ![m].tx.row = row]
    BY DEF Baseline
<1>2. InTransaction(m)
    BY <1>1, InsideFacts DEF Inside
<1>3. found \subseteq Listed(r) /\ found \subseteq tx.schema /\ found \subseteq Id
    BY DEF DetectBaseline, Listed
<1>6. row \in [Id -> Version \cup {Missing, Unknown}]
    BY <1>2, <1>3 DEF InTransaction
<1>7. KeepsChecksums(tx, [row |-> row])
  <2>1. \A i \in Id : WantsBaseline(m) => tx.row[i] = Missing
    BY DEF WantsBaseline, Applied
  <2> QED BY <2>1, MigrationsAssumption DEF KeepsChecksums
<1>8. \A i \in Id : row[i] # Missing => i \in tx.schema
    BY <1>2, <1>3 DEF RowsHaveObjects, Applied, TxInv, InTransaction
<1> HIDE DEF row
<1>9. next \in Database /\ next.row = row /\ next.schema = tx.schema /\ next.tracked = tx.tracked
    BY <1>2, <1>6 DEF Database, InTransaction
<1>10. /\ DOMAIN run' = Migrator /\ \A j \in Migrator \ {m} : run'[j] = run[j]
       /\ DOMAIN run'[m] = {"at", "release", "baseline", "tx"} /\ run'[m].at = "verify"
       /\ run'[m].release = run[m].release /\ run'[m].baseline = run[m].baseline
       /\ run'[m].tx = next
    BY <1>1, <1>2 DEF InTransaction
<1> HIDE DEF next
<1>11. KeepsChecksums(tx, next) /\ RowsHaveObjects(next)
    BY <1>7, <1>8, <1>9 DEF KeepsChecksums, RowsHaveObjects, Applied
<1> QED
    BY <1>1, <1>9, <1>10, <1>11, WriteKeepsInv DEF Inside

LEMMA VerifyKeepsInv ==
    ASSUME MigrationsInv, NEW m \in Migrator, Verify(m)
    PROVE  MigrationsInv'
<1> DEFINE r == run[m].release
           tx == run[m].tx
           row == Adopt(tx, r)
           next == [tx EXCEPT !.row = row]
<1>1. /\ run[m].at = "verify" /\ UNCHANGED <<database, owner>> /\ Unchanged(tx, r)
      /\ run' = [run EXCEPT ![m].at = "apply", ![m].tx.row = row]
    BY DEF Verify
<1>2. InTransaction(m)
    BY <1>1, InsideFacts DEF Inside
<1>3. \A i \in Id : tx.row[i] # Missing => i \in Listed(r) /\ tx.row[i] \in {Unknown, Files[r][i]}
    BY <1>1 DEF Unchanged, Applied
<1>4. row \in [Id -> Version \cup {Missing, Unknown}]
    BY <1>2, <1>3, MigrationsAssumption DEF InTransaction, Adopt
<1>5. \A i \in Id :
          /\ tx.row[i] \in Version => row[i] = tx.row[i]
          /\ row[i] # Missing => tx.row[i] # Missing /\ i \in Listed(r) /\ row[i] = Files[r][i]
    BY <1>3, MigrationsAssumption DEF Adopt
<1> HIDE DEF row
<1>6. \A i \in Id : row[i] # Missing => i \in tx.schema
  <2>1. \A i \in Id : tx.row[i] # Missing => i \in tx.schema
    BY <1>2 DEF InTransaction, TxInv, RowsHaveObjects, Applied
  <2> QED BY <1>5, <2>1
<1>7. next \in Database /\ next.row = row /\ next.schema = tx.schema /\ next.tracked = tx.tracked
    BY <1>2, <1>4 DEF Database, InTransaction
<1>8. /\ DOMAIN run' = Migrator /\ \A j \in Migrator \ {m} : run'[j] = run[j]
      /\ DOMAIN run'[m] = {"at", "release", "baseline", "tx"} /\ run'[m].at = "apply"
      /\ run'[m].release = run[m].release /\ run'[m].baseline = run[m].baseline
      /\ run'[m].tx = next
    BY <1>1, <1>2 DEF InTransaction
<1> HIDE DEF next
<1>9. /\ KeepsChecksums(tx, next) /\ RowsHaveObjects(next)
      /\ \A i \in Applied(next) : i \in Listed(r) /\ next.row[i] = Files[r][i]
  <2>1. KeepsChecksums(tx, next)
    BY <1>5, <1>7 DEF KeepsChecksums
  <2>2. RowsHaveObjects(next)
    BY <1>6, <1>7 DEF RowsHaveObjects, Applied
  <2>3. \A i \in Applied(next) : i \in Listed(r) /\ next.row[i] = Files[r][i]
    BY <1>5, <1>7 DEF Applied
  <2> QED BY <2>1, <2>2, <2>3
<1> QED
    BY <1>1, <1>7, <1>8, <1>9, WriteKeepsInv DEF Inside

LEMMA ApplyFileKeepsInv ==
    ASSUME MigrationsInv, NEW m \in Migrator, ApplyFile(m)
    PROVE  MigrationsInv'
<1> DEFINE r == run[m].release
           tx == run[m].tx
<1>1. run[m].at = "apply" /\ UNCHANGED <<database, owner>>
    BY DEF ApplyFile
<1>2. PICK i \in Pending(m) :
          run' = [run EXCEPT ![m].tx.schema = @ \cup {i}, ![m].tx.row[i] = Files[r][i]]
    BY DEF ApplyFile
<1>3. InTransaction(m)
    BY <1>1, InsideFacts DEF Inside
<1>4. i \in Id /\ i \in Listed(r) /\ tx.row[i] = Missing /\ Files[r][i] \in Version
    BY <1>3 DEF Pending, Applied, Listed, InTransaction
<1> DEFINE row == [tx.row EXCEPT ![i] = Files[r][i]]
           next == [tx EXCEPT !.schema = @ \cup {i}, !.row = row]
<1>5. /\ row \in [Id -> Version \cup {Missing, Unknown}]
      /\ \A k \in Id : row[k] = IF k = i THEN Files[r][i] ELSE tx.row[k]
    BY <1>3, <1>4 DEF InTransaction, Database
<1>6. /\ next \in Database /\ next.row = row /\ next.schema = tx.schema \cup {i}
      /\ next.tracked = tx.tracked
  <2> HIDE DEF row
  <2> QED BY <1>3, <1>4, <1>5 DEF Database, InTransaction
<1>7. /\ DOMAIN run' = Migrator /\ \A j \in Migrator \ {m} : run'[j] = run[j]
      /\ DOMAIN run'[m] = {"at", "release", "baseline", "tx"} /\ run'[m].at = "apply"
      /\ run'[m].release = run[m].release /\ run'[m].baseline = run[m].baseline
      /\ run'[m].tx = next
    BY <1>1, <1>2, <1>3 DEF InTransaction
<1> HIDE DEF row, next
<1>8. /\ KeepsChecksums(tx, next) /\ RowsHaveObjects(next)
      /\ \A k \in Applied(next) : k \in Listed(r) /\ next.row[k] = Files[r][k]
  <2>1. /\ \A k \in Id : tx.row[k] # Missing => k \in tx.schema /\ k \in Listed(r) /\ tx.row[k] = Files[r][k]
    BY <1>1, <1>3 DEF InTransaction, TxInv, RowsHaveObjects, Applied
  <2> QED
    BY <1>4, <1>5, <1>6, <2>1, MigrationsAssumption DEF KeepsChecksums, RowsHaveObjects, Applied
<1> QED
    BY <1>1, <1>6, <1>7, <1>8, WriteKeepsInv DEF Inside

\* What a commit makes of the database.
LEMMA CommitFacts ==
    ASSUME MigrationsInv, NEW m \in Migrator, Commit(m)
    PROVE  /\ database' = run[m].tx /\ database' \in Database /\ database'.tracked
           /\ run[m].release \in Release /\ Applied(database') = Listed(run[m].release)
           /\ RowsHaveObjects(database')
           /\ KeepsChecksums(database, database')
           /\ \A i \in Listed(run[m].release) : database'.row[i] = Files[run[m].release][i]
<1>1. run[m].at = "apply" /\ Pending(m) = {} /\ database' = run[m].tx
    BY DEF Commit
<1>2. InTransaction(m)
    BY <1>1, InsideFacts DEF Inside
<1>3. Applied(run[m].tx) = Listed(run[m].release)
    BY <1>1, <1>2 DEF InTransaction, TxInv, Pending
<1> QED
    BY <1>1, <1>2, <1>3 DEF InTransaction, TxInv

LEMMA CommitKeepsInv ==
    ASSUME MigrationsInv, NEW m \in Migrator, Commit(m)
    PROVE  MigrationsInv'
<1>1. PICK at \in {"ok", "gone"} : Goto(m, at)
    BY DEF Commit
<1>2. run[m].at = "apply" /\ owner' = Missing /\ owner = m
    BY InsideFacts DEF Commit, Inside, InTransaction
<1>3. /\ database' \in Database /\ RowsHaveObjects(database') /\ KeepsChecksums(database, database')
      /\ \A i \in Listed(run[m].release) : database'.row[i] = Files[run[m].release][i]
    BY CommitFacts
<1>4. RowsHaveObjects(database)'
    BY <1>3 DEF RowsHaveObjects, Applied
<1>5. /\ DOMAIN run' = Migrator /\ \A j \in Migrator \ {m} : run'[j] = run[j]
      /\ DOMAIN run'[m] = {"at", "release", "baseline"} /\ run'[m].at = at
      /\ run'[m].release = run[m].release
      /\ run'[m].release \in Release /\ run'[m].baseline \in BOOLEAN
    BY <1>1, <1>2, GotoFacts DEF Outside
<1> QED
    BY <1>2, <1>3, <1>4, <1>5, OutsideStep DEF Outside

LEMMA MigrationsNextInv == MigrationsInv /\ [MigrationsNext]_migrationVars => MigrationsInv'
<1> SUFFICES ASSUME MigrationsInv, [MigrationsNext]_migrationVars PROVE MigrationsInv'
    OBVIOUS
<1>1. ASSUME NEW m \in Migrator, Begin(m) \/ Migrate(m) \/ CutOff(m)
      PROVE  MigrationsInv'
  <2>1. CASE Begin(m)
    BY <2>1, BeginKeepsInv
  <2>2. CASE WaitForCreation(m) \/ CreationConflict(m)
    <3>1. run[m].at \in {"begin", "creating"} /\ UNCHANGED <<database, owner>>
      BY <2>2 DEF WaitForCreation, CreationConflict
    <3>2. owner # m
      BY <3>1 DEF MigrationsInv, LockInv, Inside
    <3>3. PICK at \in {"creating", "error"} : Goto(m, at)
      BY <2>2 DEF WaitForCreation, CreationConflict
    <3> QED BY <3>1, <3>2, <3>3, GotoKeepsInv DEF Outside
  <2>3. CASE EnsureAndLock(m)
    BY <2>3, EnsureKeepsInv
  <2>4. CASE Baseline(m)
    BY <2>4, BaselineKeepsInv
  <2>5. CASE Verify(m)
    BY <2>5, VerifyKeepsInv
  <2>6. CASE ApplyFile(m)
    BY <2>6, ApplyFileKeepsInv
  <2>7. CASE Commit(m)
    BY <2>7, CommitKeepsInv
  <2>8. CASE Refuse(m) \/ CutOff(m)
    <3>1. Rollback(m) /\ run[m].at # "idle"
      BY <2>8 DEF Refuse, CutOff
    <3> QED BY <3>1, GotoKeepsInv DEF Rollback, Outside
  <2> QED
    BY <1>1, <2>1, <2>2, <2>3, <2>4, <2>5, <2>6, <2>7, <2>8 DEF Migrate
<1>2. CASE UNCHANGED migrationVars
  <2>1. database' = database /\ owner' = owner /\ run' = run
    BY <1>2 DEF migrationVars
  <2> QED
    BY <2>1 DEF MigrationsInv, MigrationsTypeOK, RunsInv, LockInv, RowsHaveObjects, TxInv,
                KeepsChecksums, Applied, SuccessIsLasting
<1> QED
    BY <1>1, <1>2 DEF MigrationsNext

LEMMA MigrationsInvHolds == MigrationsSpec => []MigrationsInv
BY MigrationsInitInv, MigrationsNextInv, PTL DEF MigrationsSpec

\* The database and the runs keep their types, and only the holder of the lock is
\* inside a transaction.
THEOREM MigrationsTypeCorrect == MigrationsSpec => []MigrationsTypeOK
<1>1. MigrationsInv => MigrationsTypeOK
    BY DEF MigrationsInv
<1> QED BY <1>1, MigrationsInvHolds, PTL

\* Success is never undone, for any number of migrators, releases and files: no later
\* run replaces a checksum (verifyMigrationChecksums).
THEOREM SuccessIsLastingHolds == MigrationsSpec => []SuccessIsLasting
<1>1. MigrationsInv => SuccessIsLasting
    BY DEF MigrationsInv
<1> QED BY <1>1, MigrationsInvHolds, PTL

\* Whatever is committed is the whole of one release, and what is recorded exists
\* (ApplyMigrationsWithOptions).
THEOREM WholeReleasesHold == MigrationsSpec => WholeReleases
<1> DEFINE Whole == database' # database =>
                        /\ database'.tracked
                        /\ \E r \in Release : Applied(database') = Listed(r)
                        /\ Applied(database') \subseteq database'.schema
<1>1. MigrationsInv /\ [MigrationsNext]_migrationVars => [Whole]_migrationVars
  <2> SUFFICES ASSUME MigrationsInv, MigrationsNext PROVE Whole
    OBVIOUS
  <2>1. PICK m \in Migrator : Begin(m) \/ Migrate(m) \/ CutOff(m)
    BY DEF MigrationsNext
  <2>2. CASE Commit(m)
    BY <2>2, CommitFacts DEF RowsHaveObjects
  <2>3. CASE ~ Commit(m)
    BY <2>1, <2>3 DEF Begin, Migrate, WaitForCreation, CreationConflict, EnsureAndLock, Baseline,
                      Verify, ApplyFile, Refuse, CutOff, Rollback
  <2> QED BY <2>2, <2>3
<1> QED
    BY <1>1, MigrationsInvHolds, PTL DEF MigrationsSpec, WholeReleases

-----------------------------------------------------------------------------
(* Migrations: waiting.                                                    *)

UnderWay(m) == run[m].at \in {"begin", "creating", "locked", "verify", "apply"}

\* The statement that m is at does not wait: the conditions of the disjuncts of Migrate.
GoesOn(m) ==
    \/ run[m].at = "begin" /\ (owner = Missing \/ ~database.tracked)
    \/ run[m].at = "creating" /\ (owner = Missing \/ database.tracked)
    \/ run[m].at \in {"locked", "verify"}
    \/ /\ run[m].at = "apply"
       /\ Pending(m) # {} => \E i \in Pending(m) : \A j \in Pending(m) : i <= j

\* Whoever waits, waits for a run that goes on.
NobodyWaitsInVain ==
    \A m \in Migrator : UnderWay(m) =>
        GoesOn(m) \/ \E j \in Migrator \ {m} : owner = j /\ UnderWay(j) /\ GoesOn(j)

\* No circle of waiting among any number of migrators: one that waits, for the table to
\* be created or for its lock, waits for the holder of the lock, and the holder has a
\* step to take (CREATE TABLE IF NOT EXISTS, LOCK TABLE and the deferred ROLLBACK).
THEOREM NobodyWaitsInVainHolds == MigrationsSpec => []NobodyWaitsInVain
<1>1. ASSUME MigrationsInv, NEW m \in Migrator, run[m].at \in Inside PROVE GoesOn(m)
  <2>1. CASE run[m].at = "apply" /\ Pending(m) # {}
    <3>1. Pending(m) \in SUBSET Nat
      BY MigrationsAssumption DEF Pending, Listed
    <3> QED BY <2>1, <3>1, LeastNumber DEF GoesOn
  <2>2. CASE ~(run[m].at = "apply" /\ Pending(m) # {})
    BY <1>1, <2>2 DEF GoesOn, Inside
  <2> QED BY <2>1, <2>2
<1>2. MigrationsInv => NobodyWaitsInVain
  <2> SUFFICES ASSUME MigrationsInv, NEW m \in Migrator, UnderWay(m), ~ GoesOn(m)
               PROVE  \E j \in Migrator \ {m} : owner = j /\ UnderWay(j) /\ GoesOn(j)
    BY DEF NobodyWaitsInVain
  <2>1. run[m].at \notin Inside
    BY <1>1
  <2>2. owner # Missing
    BY <2>1 DEF UnderWay, GoesOn, Inside
  <2>3. owner \in Migrator /\ run[owner].at \in Inside
    BY <2>2 DEF MigrationsInv, MigrationsTypeOK, LockInv
  <2>4. UnderWay(owner) /\ GoesOn(owner) /\ owner # m
    BY <1>1, <2>1, <2>3 DEF UnderWay, Inside
  <2> QED BY <2>3, <2>4
<1> QED BY <1>2, MigrationsInvHolds, PTL

-----------------------------------------------------------------------------
(* Triage: the inductive invariant.                                        *)

Event == Creation \cup Moved \cup {"updated"}

TicketRowsInv ==
    /\ status \in [Ticket -> {"none", "backlog", "todo", "in_progress", "done", "archived"}]
    /\ author \in [Ticket -> {"human", "agent"}]
    /\ version \in [Ticket -> 0 .. MaxVersion]

\* Events belong to tickets that exist; nobody has decided on, moved or claimed what is
\* still in backlog.
HistoryInv ==
    /\ history \in [Ticket -> Seq(Event)]
    /\ \A t \in Ticket : \A i \in 1 .. Len(history[t]) :
          /\ status[t] # "none"
          /\ status[t] = "backlog" => history[t][i] \notin Decided \cup {"archived", "claimed"}

\* A call that passed requireProposedTicket is about an agent's proposal.
AtWorkInv(c) ==
    /\ call[c].at \in {"checked", "written", "cut_off"}
    /\ DOMAIN call[c] = {"at", "op", "ticket"}
    /\ call[c].op \in Operation
    /\ call[c].ticket \in Ticket /\ status[call[c].ticket] # "none"
    /\ call[c].at = "checked" => author[call[c].ticket] = "agent"

TriageCallsInv ==
    /\ DOMAIN call = TriageCall
    /\ \A c \in TriageCall : call[c].at \in {"idle", "over"} \/ AtWorkInv(c)

\* The event that a follow-up call has still to write.
CreationOf == [op \in FollowUp |-> IF op = "follow_up" THEN "proposed" ELSE "created"]

\* A follow-up ticket without its event is owed it by one call, whose event will tell the
\* status the ticket still has if nothing has moved it.
OwedInv ==
    /\ \A c, d \in TriageCall : \A t \in Ticket : Owes(c, t) /\ Owes(d, t) => c = d
    /\ \A c \in TriageCall : \A t \in Ticket :
          Owes(c, t) =>
              /\ author[t] = "agent"
              /\ Newest(t, Moved) = {} => status[t] = StatusTold[CreationOf[call[c].op]]

TellInv == HistoryTellsStatus /\ OwedInv

TriageInv == TicketRowsInv /\ HistoryInv /\ DecidedOnce /\ TriageCallsInv

-----------------------------------------------------------------------------
(* Triage: what the steps have in common.                                  *)

\* Nothing is known of a row before it exists, and it stays a row with its author.
RowsStay ==
    \A t \in Ticket : status[t] # "none" => status'[t] # "none" /\ author'[t] = author[t]

\* A ticket never comes back to backlog.
NoReturn == \A t \in Ticket : status'[t] \in {"none", "backlog"} => status[t] \in {"none", "backlog"}

\* A step without an event.
LEMMA SilentStep ==
    ASSUME TriageInv, RowsStay, NoReturn, history' = history
    PROVE  HistoryInv' /\ DecidedOnce'
<1>1. \A t \in Ticket : \A i \in 1 .. Len(history[t]) :
          /\ status'[t] # "none" /\ author'[t] = author[t]
          /\ status'[t] = "backlog" => status[t] = "backlog"
    BY DEF TriageInv, HistoryInv, RowsStay, NoReturn
<1>2. HistoryInv'
    BY <1>1 DEF TriageInv, HistoryInv
<1>3. DecidedOnce'
    BY <1>1 DEF TriageInv, DecidedOnce
<1> QED BY <1>2, <1>3

\* A step with event e of ticket t. What decides or makes ready starts from backlog and
\* leaves it, and so does whatever ends the triage.
LEMMA EventStep ==
    ASSUME TriageInv, RowsStay, NoReturn, NEW t \in Ticket, NEW e \in Event, Log(t, e),
           status'[t] # "none",
           e \in Decided \cup {"archived", "claimed"} => status'[t] # "backlog",
           e \in Decided => status[t] = "backlog",
           e \in Decision => author'[t] = "agent"
    PROVE  HistoryInv' /\ DecidedOnce'
<1> DEFINE h == history[t]
           n == Len(h) + 1
<1>1. /\ history \in [Ticket -> Seq(Event)] /\ h \in Seq(Event) /\ Len(h) \in Nat
    BY DEF TriageInv, HistoryInv
<1>2. /\ history' \in [Ticket -> Seq(Event)]
      /\ \A u \in Ticket \ {t} : history'[u] = history[u]
      /\ history'[t] = Append(h, e)
    BY <1>1 DEF Log
<1>3. /\ Len(history'[t]) = n /\ n \in Nat /\ 1 .. Len(history'[t]) = 1 .. Len(h) \cup {n}
      /\ \A i \in 1 .. Len(h) : history'[t][i] = h[i] /\ i < n
      /\ history'[t][n] = e
    BY <1>1, <1>2, AppendProperties
<1>4. \A u \in Ticket : \A i \in 1 .. Len(history[u]) :
          /\ status'[u] # "none" /\ author'[u] = author[u]
          /\ status'[u] = "backlog" => status[u] = "backlog"
          /\ status[u] = "backlog" => history[u][i] \notin Decided \cup {"archived", "claimed"}
    BY DEF TriageInv, HistoryInv, RowsStay, NoReturn
<1> HIDE DEF n
<1>5. HistoryInv'
  <2> SUFFICES ASSUME NEW u \in Ticket, NEW i \in 1 .. Len(history'[u])
               PROVE  /\ status'[u] # "none"
                      /\ status'[u] = "backlog" =>
                            history'[u][i] \notin Decided \cup {"archived", "claimed"}
    BY <1>2 DEF HistoryInv
  <2>1. CASE u # t
    BY <1>2, <1>4, <2>1
  <2>2. CASE u = t /\ i = n
    BY <1>3, <2>2
  <2>3. CASE u = t /\ i \in 1 .. Len(h)
    BY <1>3, <1>4, <2>3
  <2> QED BY <1>3, <2>1, <2>2, <2>3
<1>6. DecidedOnce'
  <2> SUFFICES ASSUME NEW u \in Ticket
               PROVE  /\ \A i, j \in 1 .. Len(history'[u]) :
                            /\ history'[u][i] \in Decided /\ history'[u][j] \in Decided => i = j
                            /\ history'[u][i] \in {"archived", "claimed"} /\ history'[u][j] \in Decision
                                  => j < i
                      /\ author'[u] = "human" =>
                            \A i \in 1 .. Len(history'[u]) : history'[u][i] \notin Decision
    BY DEF DecidedOnce
  <2>1. /\ \A i, j \in 1 .. Len(history[u]) :
              /\ history[u][i] \in Decided /\ history[u][j] \in Decided => i = j
              /\ history[u][i] \in {"archived", "claimed"} /\ history[u][j] \in Decision => j < i
        /\ author[u] = "human" => \A i \in 1 .. Len(history[u]) : history[u][i] \notin Decision
    BY DEF TriageInv, DecidedOnce
  <2>2. CASE u # t
    BY <1>2, <1>4, <2>1, <2>2
  <2>3. CASE u = t
    <3>1. e \in Decided =>
              \A i \in 1 .. Len(h) : h[i] \notin Decided \cup {"archived", "claimed"}
      BY <1>4
    <3>2. e \in {"archived", "claimed"} => e \notin Decided
      BY DEF Decided, Decision, Accept, Dismiss
    <3>3. Decision \subseteq Decided
      BY DEF Decided
    <3>4. \A i, j \in 1 .. Len(history'[t]) :
              /\ history'[t][i] \in Decided /\ history'[t][j] \in Decided => i = j
              /\ history'[t][i] \in {"archived", "claimed"} /\ history'[t][j] \in Decision => j < i
      <4> SUFFICES ASSUME NEW i \in 1 .. Len(h) \cup {n}, NEW j \in 1 .. Len(h) \cup {n}
                   PROVE  /\ history'[t][i] \in Decided /\ history'[t][j] \in Decided => i = j
                          /\ history'[t][i] \in {"archived", "claimed"} /\ history'[t][j] \in Decision => j < i
        BY <1>3
      <4>1. CASE i \in 1 .. Len(h) /\ j \in 1 .. Len(h)
        BY <1>3, <2>1, <2>3, <4>1
      <4>2. CASE i = n /\ j \in 1 .. Len(h)
        BY <1>3, <2>3, <3>1, <3>2, <3>3, <4>2
      <4>3. CASE j = n /\ i \in 1 .. Len(h)
        BY <1>3, <2>3, <3>1, <3>2, <3>3, <4>3
      <4>4. CASE i = n /\ j = n
        BY <1>3, <3>2, <3>3, <4>4
      <4> QED BY <4>1, <4>2, <4>3, <4>4
    <3>5. author'[t] = "human" => \A i \in 1 .. Len(history'[t]) : history'[t][i] \notin Decision
      BY <1>3, <1>4, <2>1, <2>3
    <3> QED BY <2>3, <3>4, <3>5
  <2> QED BY <2>2, <2>3
<1> QED BY <1>5, <1>6

\* A step that is no call's.
LEMMA NoCallStep ==
    ASSUME TriageInv, RowsStay, call' = call
    PROVE  TriageCallsInv'
BY DEF TriageInv, TriageCallsInv, AtWorkInv, RowsStay

\* A step of call c that ends it or leaves it at work.
LEMMA CallStep ==
    ASSUME TriageInv, RowsStay, NEW c \in TriageCall, DOMAIN call' = TriageCall,
           \A d \in TriageCall \ {c} : call'[d] = call[d],
           call'[c].at \in {"idle", "over"} \/ AtWorkInv(c)'
    PROVE  TriageCallsInv'
BY DEF TriageInv, TriageCallsInv, AtWorkInv, RowsStay

-----------------------------------------------------------------------------
(* Triage: the actions.                                                    *)

LEMMA TriageInitInv == Init => TriageInv
<1> SUFFICES ASSUME Init PROVE TriageInv
    OBVIOUS
<1>1. TicketRowsInv
    BY TriageAssumption DEF Init, TicketRowsInv
<1>2. \A t \in Ticket : history[t] = <<>> /\ Len(history[t]) = 0 /\ 1 .. Len(history[t]) = {}
    BY DEF Init
<1>3. HistoryInv /\ DecidedOnce
    BY <1>2 DEF Init, HistoryInv, DecidedOnce
<1>4. TriageCallsInv
    BY DEF Init, TriageCallsInv, Idle
<1> QED BY <1>1, <1>3, <1>4 DEF TriageInv

\* What a new row does to the tables.
LEMMA InsertFacts ==
    ASSUME TriageInv, NEW t \in Ticket, NEW by \in {"human", "agent"}, NEW s \in {"backlog", "todo"},
           Insert(t, by, s), version' = version
    PROVE  /\ TicketRowsInv' /\ RowsStay /\ NoReturn
           /\ status'[t] = s /\ author'[t] = by
BY DEF TriageInv, TicketRowsInv, Insert, RowsStay, NoReturn

LEMMA CreateKeepsInv ==
    ASSUME TriageInv, NEW t \in Ticket, CreateTicket(t) \/ ProposeTicket(t)
    PROVE  TriageInv'
<1>1. PICK by \in {"human", "agent"}, s \in {"backlog", "todo"},
           e \in {"created", "created_in_backlog", "proposed"} :
          Insert(t, by, s) /\ Log(t, e) /\ UNCHANGED <<version, call>>
    BY DEF CreateTicket, ProposeTicket
<1>2. TicketRowsInv' /\ RowsStay /\ NoReturn /\ status'[t] = s
    BY <1>1, InsertFacts
<1>3. e \in Event /\ e \notin Decided \cup {"archived", "claimed"} /\ e \notin Decision
    BY DEF Event, Moved, Creation, Decided, Decision, Accept, Dismiss
<1>4. HistoryInv' /\ DecidedOnce'
    BY <1>1, <1>2, <1>3, EventStep
<1> QED BY <1>1, <1>2, <1>4, NoCallStep DEF TriageInv

LEMMA FollowUpKeepsInv ==
    ASSUME TriageInv, NEW c \in TriageCall, NEW t \in Ticket, NEW op \in FollowUp,
           CreateTicketFromAttempt(c, t, op)
    PROVE  TriageInv'
<1>1. PICK s \in {"backlog", "todo"} : Insert(t, "agent", s) /\ UNCHANGED <<version, history>>
    BY DEF CreateTicketFromAttempt
<1>2. TicketRowsInv' /\ RowsStay /\ NoReturn /\ status'[t] = s /\ author'[t] = "agent"
    BY <1>1, InsertFacts
<1>3. /\ DOMAIN call' = TriageCall /\ \A d \in TriageCall \ {c} : call'[d] = call[d]
      /\ call'[c] = [at |-> "written", op |-> op, ticket |-> t]
    BY DEF CreateTicketFromAttempt, TriageInv, TriageCallsInv
<1>4. AtWorkInv(c)'
    BY <1>2, <1>3 DEF AtWorkInv, Operation
<1>5. TriageCallsInv'
    BY <1>2, <1>3, <1>4, CallStep
<1> QED BY <1>1, <1>2, <1>5, SilentStep DEF TriageInv

\* Steps that change no row and no status.
LEMMA SameRows ==
    ASSUME status' = status, author' = author
    PROVE  RowsStay /\ NoReturn
BY DEF RowsStay, NoReturn

LEMMA CheckKeepsInv ==
    ASSUME TriageInv, NEW c \in TriageCall, NEW t \in Ticket, NEW op \in Decision \cup {"refine_proposed"},
           RequireProposedTicket(c, t, op)
    PROVE  TriageInv'
<1>1. /\ UNCHANGED <<status, author, version, history>>
      /\ status[t] = "backlog" /\ author[t] = "agent"
    BY DEF RequireProposedTicket
<1>2. RowsStay /\ NoReturn
    BY <1>1, SameRows
<1>3. /\ DOMAIN call' = TriageCall /\ \A d \in TriageCall \ {c} : call'[d] = call[d]
      /\ call'[c] = [at |-> "checked", op |-> op, ticket |-> t]
    BY DEF RequireProposedTicket, TriageInv, TriageCallsInv
<1>4. AtWorkInv(c)'
    BY <1>1, <1>3 DEF AtWorkInv, Operation
<1>5. TriageCallsInv'
    BY <1>2, <1>3, <1>4, CallStep
<1>6. TicketRowsInv'
    BY <1>1 DEF TriageInv, TicketRowsInv
<1> QED BY <1>1, <1>2, <1>5, <1>6, SilentStep DEF TriageInv

\* A call that is over does nothing more.
LEMMA OverStep ==
    ASSUME TriageInv, RowsStay, NEW c \in TriageCall, call' = [call EXCEPT ![c] = Over]
    PROVE  TriageCallsInv'
<1>1. /\ DOMAIN call' = TriageCall /\ \A d \in TriageCall \ {c} : call'[d] = call[d]
      /\ call'[c] = [at |-> "over"]
    BY DEF TriageInv, TriageCallsInv, Over
<1> QED BY <1>1, CallStep

LEMMA DecisionKeepsInv ==
    ASSUME TriageInv, NEW c \in TriageCall, SetTicketStatus(c)
    PROVE  TriageInv'
<1> DEFINE t == call[c].ticket
           s == IF call[c].op \in Accept THEN "todo" ELSE "archived"
<1>1. /\ call[c].at = "checked" /\ call[c].op \in Decision
      /\ status[t] = "backlog" /\ status' = [status EXCEPT ![t] = s]
      /\ Log(t, call[c].op) /\ call' = [call EXCEPT ![c] = Over] /\ UNCHANGED <<author, version>>
    BY DEF SetTicketStatus, StandsAt
<1>2. t \in Ticket /\ author[t] = "agent"
    BY <1>1 DEF TriageInv, TriageCallsInv, AtWorkInv
<1>3. s \in {"todo", "archived"}
    OBVIOUS
<1> HIDE DEF s
<1>4. TicketRowsInv' /\ status'[t] = s /\ RowsStay /\ NoReturn
    BY <1>1, <1>2, <1>3 DEF TriageInv, TicketRowsInv, RowsStay, NoReturn
<1>5. HistoryInv' /\ DecidedOnce'
  <2>1. call[c].op \in Event
    BY <1>1 DEF Event, Moved
  <2> QED BY <1>1, <1>2, <1>3, <1>4, <2>1, EventStep
<1>6. TriageCallsInv'
    BY <1>1, <1>4, OverStep
<1> QED BY <1>4, <1>5, <1>6 DEF TriageInv

\* Calls that end, or stop, without doing anything more.
LEMMA EndedKeepsInv ==
    ASSUME TriageInv, NEW c \in TriageCall, TransitionNotAllowed(c) \/ BreakOff(c)
    PROVE  TriageInv'
<1>1. UNCHANGED <<status, author, version, history>>
    BY DEF TransitionNotAllowed, BreakOff
<1>2. RowsStay /\ NoReturn
    BY <1>1, SameRows
<1>3. TicketRowsInv'
    BY <1>1 DEF TriageInv, TicketRowsInv
<1>4. TriageCallsInv'
  <2>1. CASE call' = [call EXCEPT ![c] = Over]
    BY <1>2, <2>1, OverStep
  <2>2. CASE call[c].at = "written" /\ call' = [call EXCEPT ![c].at = "cut_off"]
    <3>1. AtWorkInv(c) /\ DOMAIN call = TriageCall
      BY <2>2 DEF TriageInv, TriageCallsInv
    <3>2. /\ DOMAIN call' = TriageCall /\ \A d \in TriageCall \ {c} : call'[d] = call[d]
          /\ call'[c].at = "cut_off" /\ call'[c].op = call[c].op /\ call'[c].ticket = call[c].ticket
          /\ DOMAIN call'[c] = {"at", "op", "ticket"}
      BY <2>2, <3>1 DEF AtWorkInv
    <3>3. AtWorkInv(c)'
      BY <1>1, <3>1, <3>2 DEF AtWorkInv
    <3> QED BY <1>2, <3>2, <3>3, CallStep
  <2> QED BY <2>1, <2>2 DEF TransitionNotAllowed, BreakOff
<1> QED BY <1>1, <1>2, <1>3, <1>4, SilentStep DEF TriageInv

LEMMA RefineKeepsInv ==
    ASSUME TriageInv, NEW c \in TriageCall, RefineProposedTicket(c)
    PROVE  TriageInv'
<1> DEFINE t == call[c].ticket
<1>1. /\ call[c].at = "checked" /\ version[t] < MaxVersion /\ version' = [version EXCEPT ![t] = @ + 1]
      /\ call' = [call EXCEPT ![c].at = "written"] /\ UNCHANGED <<status, author, history>>
    BY DEF RefineProposedTicket, StandsAt
<1>2. RowsStay /\ NoReturn
    BY <1>1, SameRows
<1>3. AtWorkInv(c) /\ DOMAIN call = TriageCall
    BY <1>1 DEF TriageInv, TriageCallsInv
<1>4. TicketRowsInv'
    BY <1>1, <1>3, TriageAssumption DEF TriageInv, TicketRowsInv, AtWorkInv
<1>5. /\ DOMAIN call' = TriageCall /\ \A d \in TriageCall \ {c} : call'[d] = call[d]
      /\ call'[c].at = "written" /\ call'[c].op = call[c].op /\ call'[c].ticket = t
      /\ DOMAIN call'[c] = {"at", "op", "ticket"}
    BY <1>1, <1>3 DEF AtWorkInv
<1>6. AtWorkInv(c)'
    BY <1>1, <1>3, <1>5 DEF AtWorkInv
<1>7. TriageCallsInv'
    BY <1>2, <1>5, <1>6, CallStep
<1> QED BY <1>1, <1>2, <1>4, <1>7, SilentStep DEF TriageInv

LEMMA LateEventKeepsInv ==
    ASSUME TriageInv, NEW c \in TriageCall, CreateTicketEvent(c)
    PROVE  TriageInv'
<1> DEFINE t == call[c].ticket
<1>1. PICK e \in {"updated", "proposed", "created"} : Log(t, e)
    BY DEF CreateTicketEvent
<1>2. /\ call[c].at = "written" /\ call' = [call EXCEPT ![c] = Over]
      /\ UNCHANGED <<status, author, version>>
    BY DEF CreateTicketEvent, StandsAt
<1>3. RowsStay /\ NoReturn
    BY <1>2, SameRows
<1>4. t \in Ticket /\ status[t] # "none"
    BY <1>2 DEF TriageInv, TriageCallsInv, AtWorkInv
<1>5. e \in Event /\ e \notin Decided \cup {"archived", "claimed"} /\ e \notin Decision
    BY DEF Event, Moved, Creation, Decided, Decision, Accept, Dismiss
<1>6. HistoryInv' /\ DecidedOnce'
    BY <1>1, <1>2, <1>3, <1>4, <1>5, EventStep
<1>7. TicketRowsInv'
    BY <1>2 DEF TriageInv, TicketRowsInv
<1> QED BY <1>2, <1>3, <1>6, <1>7, OverStep DEF TriageInv

LEMMA UpdateKeepsInv ==
    ASSUME TriageInv, NEW t \in Ticket, UpdateTicket(t)
    PROVE  TriageInv'
<1>1. RowsStay /\ NoReturn
    BY SameRows DEF UpdateTicket
<1>2. TicketRowsInv'
    BY TriageAssumption DEF TriageInv, TicketRowsInv, UpdateTicket
<1>3. "updated" \in Event /\ "updated" \notin Decided \cup {"archived", "claimed"} /\ "updated" \notin Decision
    BY DEF Event, Moved, Creation, Decided, Decision, Accept, Dismiss
<1>4. HistoryInv' /\ DecidedOnce'
    BY <1>1, <1>3, EventStep DEF UpdateTicket
<1> QED BY <1>1, <1>2, <1>4, NoCallStep DEF UpdateTicket, TriageInv

LEMMA MoveKeepsTriageInv ==
    ASSUME TriageInv, NEW t \in Ticket, MarkReady(t) \/ Archive(t) \/ ClaimNextTicket(t) \/ CompleteAttempt(t)
    PROVE  TriageInv'
<1>1. PICK e \in {"ready", "archived", "claimed", "completed"},
           s \in {"todo", "archived", "in_progress", "done"} :
          /\ status[t] # "none" /\ status' = [status EXCEPT ![t] = s]
          /\ e = "ready" => status[t] = "backlog"
          /\ Log(t, e) /\ UNCHANGED <<author, version, call>>
    BY DEF MarkReady, Archive, ClaimNextTicket, CompleteAttempt, Move
<1>2. TicketRowsInv' /\ status'[t] = s /\ RowsStay /\ NoReturn
    BY <1>1 DEF TriageInv, TicketRowsInv, RowsStay, NoReturn
<1>3. e \in Event /\ e \notin Decision /\ (e \in Decided => e = "ready")
    BY DEF Event, Moved, Creation, Decided, Decision, Accept, Dismiss
<1>4. HistoryInv' /\ DecidedOnce'
    BY <1>1, <1>2, <1>3, EventStep
<1> QED BY <1>1, <1>2, <1>4, NoCallStep DEF TriageInv

LEMMA TriageNextInv == TriageInv /\ [Next]_vars => TriageInv'
<1> SUFFICES ASSUME TriageInv, [Next]_vars PROVE TriageInv'
    OBVIOUS
<1>1. CASE Next
    BY <1>1, CreateKeepsInv, FollowUpKeepsInv, CheckKeepsInv, DecisionKeepsInv, EndedKeepsInv,
       RefineKeepsInv, LateEventKeepsInv, UpdateKeepsInv, MoveKeepsTriageInv DEF Next
<1>2. CASE UNCHANGED vars
  <2>1. UNCHANGED <<status, author, version, history, call>>
    BY <1>2 DEF vars
  <2>2. RowsStay /\ NoReturn
    BY <2>1, SameRows
  <2> QED BY <2>1, <2>2, SilentStep, NoCallStep DEF TriageInv, TicketRowsInv
<1> QED BY <1>1, <1>2

LEMMA TriageInvHolds == Spec => []TriageInv
BY TriageInitInv, TriageNextInv, PTL DEF Spec

\* Tickets, events and calls keep their types, and an event is of a ticket that exists,
\* also when a call is cut off between the two statements of a follow-up ticket.
THEOREM TriageTypeCorrect == Spec => []TypeOK
<1>1. TriageInv => TypeOK
  <2> SUFFICES ASSUME TriageInv PROVE TypeOK
    OBVIOUS
  <2>1. \A t \in Ticket : \A i \in 1 .. Len(history[t]) : history[t][i] \in Event /\ status[t] # "none"
    BY DEF TriageInv, HistoryInv
  <2> QED
    BY <2>1 DEF TriageInv, TicketRowsInv, TriageCallsInv, AtWorkInv, TypeOK, Event
<1> QED BY <1>1, TriageInvHolds, PTL

\* For any number of tickets and of calls that read the same proposal: one decision
\* takes effect, and none on a ticket that a person wrote (transitionProposedTicket).
THEOREM DecidedOnceHolds == Spec => []DecidedOnce
<1>1. TriageInv => DecidedOnce
    BY DEF TriageInv
<1> QED BY <1>1, TriageInvHolds, PTL

-----------------------------------------------------------------------------
(* Triage: what the events tell.                                           *)

\* HistoryTellsStatus for one ticket.
Tells(t) ==
    /\ \A i \in Newest(t, Moved) : StatusTold[history[t][i]] = status[t]
    /\ Newest(t, Moved) = {} => \A i \in Births(t) : StatusTold[history[t][i]] = status[t]
    /\ status[t] # "none" => (Births(t) = {} <=> EventOwed(t))
    /\ \A i, j \in Births(t) : i = j
    /\ author[t] = "human" => Births(t) \subseteq {1}

\* OwedInv for one ticket.
Owed(t) ==
    /\ \A c, d \in TriageCall : Owes(c, t) /\ Owes(d, t) => c = d
    /\ \A c \in TriageCall :
          Owes(c, t) =>
              /\ author[t] = "agent"
              /\ Newest(t, Moved) = {} => status[t] = StatusTold[CreationOf[call[c].op]]

LEMMA TellByTicket == TellInv <=> \A t \in Ticket : Tells(t) /\ Owed(t)
BY DEF TellInv, HistoryTellsStatus, OwedInv, Tells, Owed

\* What the events of a ticket tell depends on its row, its events and what is owed to it.
LEMMA SameTicket ==
    ASSUME NEW t \in Ticket, Tells(t), Owed(t), history'[t] = history[t],
           status'[t] = status[t], author'[t] = author[t],
           \A c \in TriageCall : /\ Owes(c, t)' <=> Owes(c, t)
                                 /\ Owes(c, t) => call'[c].op = call[c].op
    PROVE  Tells(t)' /\ Owed(t)'
<1>1. /\ Births(t)' = Births(t) /\ Newest(t, Moved)' = Newest(t, Moved)
      /\ \A i : history'[t][i] = history[t][i]
    BY DEF Births, Newest
<1>2. EventOwed(t)' <=> EventOwed(t)
    BY DEF EventOwed
<1>4. Tells(t)'
    BY <1>1, <1>2 DEF Tells
<1>5. Owed(t)'
    BY <1>1 DEF Owed
<1> QED BY <1>4, <1>5

\* Event e is added to the history of ticket t.
LEMMA EventAdded ==
    ASSUME HistoryInv, NEW t \in Ticket, NEW e \in Event, Log(t, e),
           NEW n, n = Len(history[t]) + 1
    PROVE  /\ \A u \in Ticket \ {t} : history'[u] = history[u]
           /\ \A i \in 1 .. Len(history[t]) : history'[t][i] = history[t][i]
           /\ history'[t][n] = e
           /\ Births(t)' = Births(t) \cup (IF e \in Creation THEN {n} ELSE {})
           /\ Newest(t, Moved)' = IF e \in Moved THEN {n} ELSE Newest(t, Moved)
           /\ Births(t) \subseteq 1 .. Len(history[t]) /\ Newest(t, Moved) \subseteq 1 .. Len(history[t])
           /\ n \notin 1 .. Len(history[t])
<1> DEFINE h == history[t]
<1>1. /\ history \in [Ticket -> Seq(Event)] /\ h \in Seq(Event) /\ Len(h) \in Nat
    BY DEF HistoryInv
<1>2. /\ \A u \in Ticket \ {t} : history'[u] = history[u]
      /\ history'[t] = Append(h, e)
    BY <1>1 DEF Log
<1>3. /\ Len(history'[t]) = n /\ n \in Nat
      /\ 1 .. Len(history'[t]) = 1 .. Len(h) \cup {n}
      /\ \A i \in 1 .. Len(h) : history'[t][i] = h[i] /\ i <= n /\ ~ n <= i
      /\ history'[t][n] = e /\ n <= n
    BY <1>1, <1>2, AppendProperties
<1>4. n \notin 1 .. Len(h)
    BY <1>3
<1> HIDE DEF h
<1>5. Births(t)' = Births(t) \cup (IF e \in Creation THEN {n} ELSE {})
    BY <1>3 DEF Births, Creation, h
<1>6. CASE e \in Moved
  <2>1. Newest(t, Moved)' = {n}
    BY <1>3, <1>6 DEF Newest, Moved, Decision, Accept, Dismiss, h
  <2> QED BY <1>2, <1>3, <1>4, <1>5, <1>6, <2>1 DEF Births, Newest, h
<1>7. CASE e \notin Moved
  <2>1. Newest(t, Moved)' = Newest(t, Moved)
    BY <1>3, <1>7 DEF Newest, Moved, Decision, Accept, Dismiss, h
  <2> QED BY <1>2, <1>3, <1>4, <1>5, <1>7, <2>1 DEF Births, Newest, h
<1> QED BY <1>6, <1>7

\* The kinds of events do not overlap.
LEMMA EventKinds ==
    /\ Creation \cap Moved = {} /\ "updated" \notin Creation \cup Moved
    /\ Creation \subseteq Event /\ Moved \subseteq Event /\ "updated" \in Event
BY DEF Event, Creation, Moved, Decision, Accept, Dismiss

\* What the creation events tell.
LEMMA StatusFacts ==
    /\ StatusTold["created"] = "todo"
    /\ StatusTold["created_in_backlog"] = "backlog" /\ StatusTold["proposed"] = "backlog"
<1>1. /\ "created" \in Creation \cup Moved /\ "created_in_backlog" \in Creation \cup Moved
      /\ "proposed" \in Creation \cup Moved
    BY DEF Creation
<1>2. StatusTold["created"] = "todo"
    BY <1>1 DEF StatusTold, Accept, Dismiss
<1>3. StatusTold["created_in_backlog"] = "backlog"
    BY <1>1 DEF StatusTold, Accept, Dismiss
<1>4. StatusTold["proposed"] = "backlog"
    BY <1>1 DEF StatusTold, Accept, Dismiss
<1> QED BY <1>2, <1>3, <1>4

\* A row that does not exist has no events and is owed none.
LEMMA NoRow ==
    ASSUME TriageInv, NEW t \in Ticket, status[t] = "none"
    PROVE  /\ history[t] = <<>> /\ Len(history[t]) = 0 /\ Births(t) = {} /\ Newest(t, Moved) = {}
           /\ \A c \in TriageCall : ~ Owes(c, t)
<1>1. history[t] \in Seq(Event) /\ Len(history[t]) \in Nat
    BY DEF TriageInv, HistoryInv
<1>2. \A i \in 1 .. Len(history[t]) : FALSE
    BY DEF TriageInv, HistoryInv
<1>3. Len(history[t]) = 0
    BY <1>1, <1>2
<1>4. history[t] = <<>> /\ 1 .. Len(history[t]) = {}
    BY <1>1, <1>3, EmptySeq
<1>5. \A c \in TriageCall : ~ Owes(c, t)
    BY DEF TriageInv, TriageCallsInv, AtWorkInv, Owes
<1> QED BY <1>3, <1>4, <1>5 DEF Births, Newest

\* A step without an event.
LEMMA SilentTells ==
    ASSUME TellInv, UNCHANGED <<status, author, history>>,
           \A c \in TriageCall : \A t \in Ticket :
               /\ Owes(c, t)' <=> Owes(c, t)
               /\ Owes(c, t) => call'[c].op = call[c].op
    PROVE  TellInv'
<1>1. \A t \in Ticket : Tells(t) /\ Owed(t)
    BY TellByTicket
<1>2. \A t \in Ticket : Tells(t)' /\ Owed(t)'
    BY <1>1, SameTicket
<1> QED BY <1>2 DEF TellInv, HistoryTellsStatus, OwedInv, Tells, Owed

\* A step with an event of ticket t that is not its creation.
LEMMA LaterEventTells ==
    ASSUME TriageInv, TellInv, NEW t \in Ticket, NEW e \in Moved \cup {"updated"}, Log(t, e),
           NEW s, status' = [status EXCEPT ![t] = s], status[t] # "none",
           s = IF e \in Moved THEN StatusTold[e] ELSE status[t],
           author' = author,
           \A c \in TriageCall : \A u \in Ticket :
               /\ Owes(c, u)' <=> Owes(c, u)
               /\ Owes(c, u) => call'[c].op = call[c].op
    PROVE  TellInv'
<1>1. \A u \in Ticket : Tells(u) /\ Owed(u)
    BY TellByTicket
<1>2. PICK n : n = Len(history[t]) + 1
    OBVIOUS
<1>3. e \in Event /\ e \notin Creation
    BY EventKinds
<1>4. /\ \A u \in Ticket \ {t} : history'[u] = history[u]
      /\ \A i \in 1 .. Len(history[t]) : history'[t][i] = history[t][i]
      /\ history'[t][n] = e
      /\ Births(t)' = Births(t) \cup (IF e \in Creation THEN {n} ELSE {})
      /\ Newest(t, Moved)' = IF e \in Moved THEN {n} ELSE Newest(t, Moved)
      /\ Births(t) \subseteq 1 .. Len(history[t]) /\ Newest(t, Moved) \subseteq 1 .. Len(history[t])
    BY <1>2, <1>3, EventAdded DEF TriageInv
<1>5. /\ status'[t] = s /\ \A u \in Ticket \ {t} : status'[u] = status[u]
    BY DEF TriageInv, TicketRowsInv
<1>7. \A u \in Ticket \ {t} : Tells(u)' /\ Owed(u)'
    BY <1>1, <1>4, <1>5, SameTicket
<1>8. EventOwed(t)' <=> EventOwed(t)
    BY DEF EventOwed
<1>9. Births(t)' = Births(t)
    BY <1>3, <1>4
<1>10. \A i \in Newest(t, Moved)' : StatusTold[history'[t][i]] = status'[t]
  <2>1. CASE e \in Moved
    BY <1>4, <1>5, <2>1
  <2>2. CASE e \notin Moved
    BY <1>1, <1>4, <1>5, <2>2 DEF Tells
  <2> QED BY <2>1, <2>2
<1>11. Newest(t, Moved)' = {} =>
           /\ Newest(t, Moved) = {} /\ status'[t] = status[t]
           /\ \A i \in Births(t)' : history'[t][i] = history[t][i]
    BY <1>4, <1>5, <1>9
<1>12. Tells(t)'
  <2>1. Newest(t, Moved)' = {} => \A i \in Births(t)' : StatusTold[history'[t][i]] = status'[t]
    BY <1>1, <1>9, <1>11 DEF Tells
  <2>2. status'[t] # "none" => (Births(t)' = {} <=> EventOwed(t)')
    BY <1>1, <1>8, <1>9 DEF Tells
  <2>3. /\ \A i, j \in Births(t)' : i = j
        /\ author'[t] = "human" => Births(t)' \subseteq {1}
    BY <1>1, <1>9 DEF Tells
  <2> QED BY <1>10, <2>1, <2>2, <2>3 DEF Tells
<1>13. Owed(t)'
    BY <1>1, <1>11 DEF Owed
<1> QED BY <1>7, <1>12, <1>13 DEF TellInv, HistoryTellsStatus, OwedInv, Tells, Owed

LEMMA InitTells == Init => TellInv
<1> SUFFICES ASSUME Init PROVE TellInv
    OBVIOUS
<1>1. \A t \in Ticket : status[t] = "none" /\ history[t] = <<>> /\ 1 .. Len(history[t]) = {}
    BY DEF Init
<1>2. \A t \in Ticket : Births(t) = {} /\ Newest(t, Moved) = {}
    BY <1>1 DEF Births, Newest
<1>3. \A c \in TriageCall : \A t \in Ticket : ~ Owes(c, t)
    BY DEF Init, Idle, Owes
<1> QED BY <1>1, <1>2, <1>3 DEF TellInv, HistoryTellsStatus, OwedInv

\* Row and event of a new ticket in one transaction.
LEMMA CreateTells ==
    ASSUME TriageInv, TellInv, NEW t \in Ticket, CreateTicket(t) \/ ProposeTicket(t)
    PROVE  TellInv'
<1>1. PICK by \in {"human", "agent"}, s \in {"backlog", "todo"}, e \in Creation :
          Insert(t, by, s) /\ Log(t, e) /\ call' = call /\ StatusTold[e] = s
    BY StatusFacts DEF CreateTicket, ProposeTicket, Creation
<1>2. /\ status[t] = "none" /\ status'[t] = s /\ s # "none"
      /\ \A u \in Ticket \ {t} : status'[u] = status[u] /\ author'[u] = author[u]
    BY <1>1 DEF Insert, TriageInv, TicketRowsInv
<1>3. /\ history[t] = <<>> /\ Len(history[t]) = 0 /\ Births(t) = {} /\ Newest(t, Moved) = {}
      /\ \A c \in TriageCall : ~ Owes(c, t)
    BY <1>2, NoRow
<1>4. \A c \in TriageCall : \A u \in Ticket : Owes(c, u)' <=> Owes(c, u)
    BY <1>1 DEF Owes
<1>5. e \in Event /\ e \notin Moved /\ 1 = Len(history[t]) + 1
    BY <1>3, EventKinds
<1>6. /\ \A u \in Ticket \ {t} : history'[u] = history[u]
      /\ history'[t][1] = e /\ Births(t)' = {1} /\ Newest(t, Moved)' = {}
    BY <1>1, <1>3, <1>5, EventAdded DEF TriageInv
<1>7. \A u \in Ticket \ {t} : Tells(u)' /\ Owed(u)'
    BY <1>1, <1>2, <1>4, <1>6, TellByTicket, SameTicket
<1>8. Owed(t)' /\ ~ EventOwed(t)'
    BY <1>3, <1>4 DEF Owed, EventOwed
<1>9. Tells(t)'
    BY <1>1, <1>2, <1>6, <1>8 DEF Tells
<1> QED BY <1>7, <1>8, <1>9 DEF TellInv, HistoryTellsStatus, OwedInv, Tells, Owed

\* The row of a follow-up ticket alone: the event is owed from here on.
LEMMA FollowUpTells ==
    ASSUME TriageInv, TellInv, NEW c \in TriageCall, NEW t \in Ticket, NEW op \in FollowUp,
           CreateTicketFromAttempt(c, t, op)
    PROVE  TellInv'
<1>1. PICK s \in {"backlog", "todo"} :
          /\ Insert(t, "agent", s) /\ history' = history /\ call[c] = Idle
          /\ s = StatusTold[CreationOf[op]]
    BY StatusFacts DEF CreateTicketFromAttempt, FollowUp, CreationOf
<1>2. /\ status[t] = "none" /\ status'[t] = s /\ author'[t] = "agent"
      /\ \A u \in Ticket \ {t} : status'[u] = status[u] /\ author'[u] = author[u]
    BY <1>1 DEF Insert, TriageInv, TicketRowsInv
<1>3. /\ history[t] = <<>> /\ Births(t) = {} /\ Newest(t, Moved) = {}
      /\ \A d \in TriageCall : ~ Owes(d, t)
    BY <1>2, NoRow
<1>4. /\ \A d \in TriageCall \ {c} : call'[d] = call[d]
      /\ call'[c] = [at |-> "written", op |-> op, ticket |-> t]
    BY DEF CreateTicketFromAttempt, TriageInv, TriageCallsInv
<1>5. /\ \A d \in TriageCall : Owes(d, t)' <=> d = c
      /\ \A d \in TriageCall : \A u \in Ticket \ {t} :
            /\ Owes(d, u)' <=> Owes(d, u)
            /\ Owes(d, u) => call'[d].op = call[d].op
    BY <1>1, <1>3, <1>4 DEF Owes, Idle
<1>6. \A u \in Ticket \ {t} : Tells(u)' /\ Owed(u)'
    BY <1>1, <1>2, <1>5, TellByTicket, SameTicket
<1>7. Births(t)' = {} /\ Newest(t, Moved)' = {}
    BY <1>1, <1>3 DEF Births, Newest
<1>8. Owed(t)'
    BY <1>1, <1>2, <1>4, <1>5 DEF Owed
<1>9. Tells(t)'
    BY <1>2, <1>5, <1>7 DEF Tells, EventOwed
<1> QED BY <1>6, <1>8, <1>9 DEF TellInv, HistoryTellsStatus, OwedInv, Tells, Owed

\* Its event, whatever has happened to the ticket in between.
LEMMA LateCreationTells ==
    ASSUME TriageInv, TellInv, NEW c \in TriageCall, CreateTicketEvent(c), call[c].op \in FollowUp,
           NEW t, t = call[c].ticket
    PROVE  TellInv'
<1>1. PICK e \in Creation : e = CreationOf[call[c].op] /\ Log(t, e)
    BY DEF CreateTicketEvent, FollowUp, Creation, CreationOf
<1>2. /\ call[c].at = "written" /\ call' = [call EXCEPT ![c] = Over]
      /\ UNCHANGED <<status, author>>
    BY DEF CreateTicketEvent, StandsAt
<1>3. /\ t \in Ticket /\ status[t] # "none" /\ Owes(c, t)
      /\ call'[c] = Over /\ \A d \in TriageCall \ {c} : call'[d] = call[d]
    BY <1>2 DEF TriageInv, TriageCallsInv, AtWorkInv, Owes
<1>4. /\ Tells(t) /\ Owed(t)
    BY <1>3, TellByTicket
<1>5. /\ \A d \in TriageCall : ~ Owes(d, t)'
      /\ \A d \in TriageCall : \A u \in Ticket \ {t} :
            /\ Owes(d, u)' <=> Owes(d, u)
            /\ Owes(d, u) => call'[d].op = call[d].op
  <2>1. \A u \in Ticket : ~ Owes(c, u)'
    BY <1>3 DEF Owes, Over
  <2>2. \A u \in Ticket \ {t} : ~ Owes(c, u)
    BY DEF Owes
  <2>3. \A d \in TriageCall \ {c} : \A u \in Ticket : Owes(d, u)' <=> Owes(d, u)
    BY <1>3 DEF Owes
  <2>4. \A d \in TriageCall \ {c} : ~ Owes(d, t)
    BY <1>3, <1>4 DEF Owed
  <2> QED BY <1>3, <2>1, <2>2, <2>3, <2>4
<1>6. Births(t) = {} /\ author[t] = "agent"
    BY <1>3, <1>4 DEF Tells, Owed, EventOwed
<1>7. PICK n : n = Len(history[t]) + 1
    OBVIOUS
<1>8. e \in Event /\ e \notin Moved
    BY EventKinds
<1>9. /\ \A u \in Ticket \ {t} : history'[u] = history[u]
      /\ \A i \in 1 .. Len(history[t]) : history'[t][i] = history[t][i]
      /\ history'[t][n] = e /\ Births(t)' = {n} /\ Newest(t, Moved)' = Newest(t, Moved)
      /\ Newest(t, Moved) \subseteq 1 .. Len(history[t])
  <2>1. Births(t)' = Births(t) \cup (IF e \in Creation THEN {n} ELSE {})
    BY <1>1, <1>3, <1>7, <1>8, EventAdded DEF TriageInv
  <2>2. Births(t)' = {n}
    BY <1>6, <2>1
  <2> QED BY <1>1, <1>3, <1>7, <1>8, <2>2, EventAdded DEF TriageInv
<1>10. \A u \in Ticket \ {t} : Tells(u)' /\ Owed(u)'
    BY <1>2, <1>5, <1>9, TellByTicket, SameTicket
<1>11. Newest(t, Moved) = {} => status[t] = StatusTold[e]
    BY <1>1, <1>3, <1>4 DEF Owed
<1>12. Tells(t)'
  <2>1. \A i \in Newest(t, Moved)' : StatusTold[history'[t][i]] = status'[t]
    BY <1>2, <1>4, <1>9 DEF Tells
  <2>2. Newest(t, Moved)' = {} => \A i \in Births(t)' : StatusTold[history'[t][i]] = status'[t]
    BY <1>2, <1>9, <1>11
  <2>3. ~ EventOwed(t)'
    BY <1>5 DEF EventOwed
  <2> QED BY <1>2, <1>6, <1>9, <2>1, <2>2, <2>3 DEF Tells
<1>13. Owed(t)'
    BY <1>5 DEF Owed
<1> QED BY <1>3, <1>10, <1>12, <1>13 DEF TellInv, HistoryTellsStatus, OwedInv, Tells, Owed

\* Steps of a call that is not about a follow-up ticket.
LEMMA OtherCallOwesNothing ==
    ASSUME TriageInv, NEW c \in TriageCall,
           \/ call' = [call EXCEPT ![c] = Over] /\ call[c].at \notin {"written", "cut_off"}
           \/ call' = [call EXCEPT ![c] = Over] /\ call[c].op \notin FollowUp
           \/ call' = [call EXCEPT ![c].at = "written"] /\ call[c].op \notin FollowUp /\ AtWorkInv(c)
           \/ /\ call' = [call EXCEPT ![c].at = "cut_off"]
              /\ call[c].at = "written" /\ AtWorkInv(c)
    PROVE  \A d \in TriageCall : \A t \in Ticket :
               /\ Owes(d, t)' <=> Owes(d, t)
               /\ Owes(d, t) => call'[d].op = call[d].op
<1>1. DOMAIN call = TriageCall
    BY DEF TriageInv, TriageCallsInv
<1>2. \A d \in TriageCall \ {c} : call'[d] = call[d]
    BY <1>1
<1>3. CASE call' = [call EXCEPT ![c] = Over]
    BY <1>1, <1>2, <1>3 DEF Owes, Over
<1>4. CASE call' = [call EXCEPT ![c].at = "written"] /\ call[c].op \notin FollowUp /\ AtWorkInv(c)
  <2>1. call'[c].op = call[c].op
    BY <1>1, <1>4 DEF AtWorkInv
  <2> QED BY <1>2, <1>4, <2>1 DEF Owes
<1>5. CASE call' = [call EXCEPT ![c].at = "cut_off"] /\ call[c].at = "written" /\ AtWorkInv(c)
  <2>1. call'[c].op = call[c].op /\ call'[c].ticket = call[c].ticket /\ call'[c].at = "cut_off"
    BY <1>1, <1>5 DEF AtWorkInv
  <2> QED BY <1>2, <1>5, <2>1 DEF Owes
<1> QED BY <1>3, <1>4, <1>5

\* Steps of calls that write no event.
LEMMA QuietCallTells ==
    ASSUME TriageInv, TellInv, NEW c \in TriageCall,
           \/ TransitionNotAllowed(c) \/ RefineProposedTicket(c) \/ BreakOff(c)
           \/ \E t \in Ticket, op \in Decision \cup {"refine_proposed"} : RequireProposedTicket(c, t, op)
    PROVE  TellInv'
<1>1. UNCHANGED <<status, author, history>>
    BY DEF TransitionNotAllowed, RefineProposedTicket, BreakOff, RequireProposedTicket
<1>2. call[c].at \in {"checked", "written"} => AtWorkInv(c)
    BY DEF TriageInv, TriageCallsInv
<1>3. CASE TransitionNotAllowed(c)
  <2>1. call[c].at = "checked" /\ call' = [call EXCEPT ![c] = Over]
    BY <1>3 DEF TransitionNotAllowed, StandsAt
  <2> QED BY <1>1, <2>1, OtherCallOwesNothing, SilentTells
<1>4. CASE RefineProposedTicket(c)
  <2>1. /\ call[c].at = "checked" /\ call[c].op \notin FollowUp
        /\ call' = [call EXCEPT ![c].at = "written"]
    BY <1>4 DEF RefineProposedTicket, StandsAt, FollowUp
  <2> QED BY <1>1, <1>2, <2>1, OtherCallOwesNothing, SilentTells
<1>5. CASE BreakOff(c)
  <2>1. \/ call[c].at = "checked" /\ call' = [call EXCEPT ![c] = Over]
        \/ call[c].at = "written" /\ call' = [call EXCEPT ![c].at = "cut_off"]
    BY <1>5 DEF BreakOff
  <2> QED BY <1>1, <1>2, <2>1, OtherCallOwesNothing, SilentTells
<1>6. ASSUME NEW t \in Ticket, NEW op \in Decision \cup {"refine_proposed"}, RequireProposedTicket(c, t, op)
      PROVE  TellInv'
  <2>1. /\ call[c] = Idle /\ call'[c].at = "checked"
        /\ \A d \in TriageCall \ {c} : call'[d] = call[d]
    BY <1>6 DEF RequireProposedTicket, TriageInv, TriageCallsInv
  <2>2. \A d \in TriageCall : \A u \in Ticket :
            /\ Owes(d, u)' <=> Owes(d, u)
            /\ Owes(d, u) => call'[d].op = call[d].op
    BY <2>1 DEF Owes, Idle
  <2> QED BY <1>1, <2>2, SilentTells
<1> QED BY <1>3, <1>4, <1>5, <1>6

\* What the events that move a ticket tell.
LEMMA MoveFacts ==
    /\ \A e \in Accept \cup {"ready"} : e \in Moved /\ StatusTold[e] = "todo"
    /\ \A e \in Dismiss \cup {"archived"} : e \in Moved /\ StatusTold[e] = "archived"
    /\ "claimed" \in Moved /\ StatusTold["claimed"] = "in_progress"
    /\ "completed" \in Moved /\ StatusTold["completed"] = "done"
<1>1. Accept \cup Dismiss \cup {"ready", "archived", "claimed", "completed"} \subseteq Moved
    BY DEF Moved, Decision
<1>2. \A e \in Accept \cup {"ready"} : StatusTold[e] = "todo"
    BY <1>1 DEF StatusTold, Accept, Dismiss
<1>3. \A e \in Dismiss \cup {"archived"} : StatusTold[e] = "archived"
    BY <1>1 DEF StatusTold, Accept, Dismiss
<1>4. StatusTold["claimed"] = "in_progress" /\ StatusTold["completed"] = "done"
    BY <1>1 DEF StatusTold, Accept, Dismiss
<1> QED BY <1>1, <1>2, <1>3, <1>4

\* A decision, a move of the ordinary life, and a change of the text.
LEMMA MoveTells ==
    ASSUME TriageInv, TellInv, NEW t \in Ticket,
           MarkReady(t) \/ Archive(t) \/ ClaimNextTicket(t) \/ CompleteAttempt(t) \/ UpdateTicket(t)
    PROVE  TellInv'
<1> DEFINE S == {status[t], "todo", "archived", "in_progress", "done"}
<1>1. PICK e \in Moved \cup {"updated"} : \E s \in S :
          /\ Log(t, e) /\ status' = [status EXCEPT ![t] = s] /\ status[t] # "none"
          /\ s = IF e \in Moved THEN StatusTold[e] ELSE status[t]
          /\ UNCHANGED <<author, call>>
  <2>1. CASE UpdateTicket(t)
    <3>1. status' = [status EXCEPT ![t] = status[t]]
      BY <2>1 DEF UpdateTicket, TriageInv, TicketRowsInv
    <3> QED BY <2>1, <3>1, EventKinds DEF UpdateTicket
  <2>2. CASE MarkReady(t) \/ Archive(t) \/ ClaimNextTicket(t) \/ CompleteAttempt(t)
    BY <2>2, MoveFacts DEF MarkReady, Archive, ClaimNextTicket, CompleteAttempt, Move
  <2> QED BY <2>1, <2>2
<1>2. PICK s : /\ Log(t, e) /\ status' = [status EXCEPT ![t] = s] /\ status[t] # "none"
               /\ s = IF e \in Moved THEN StatusTold[e] ELSE status[t]
               /\ UNCHANGED <<author, call>>
    BY <1>1
<1>3. \A c \in TriageCall : \A u \in Ticket : Owes(c, u)' <=> Owes(c, u)
    BY <1>2 DEF Owes
<1> QED BY <1>2, <1>3, LaterEventTells

LEMMA DecisionTells ==
    ASSUME TriageInv, TellInv, NEW c \in TriageCall, SetTicketStatus(c)
    PROVE  TellInv'
<1>1. PICK t : t = call[c].ticket
    OBVIOUS
<1>2. PICK e : e = call[c].op
    OBVIOUS
<1>3. PICK s : s = IF e \in Accept THEN "todo" ELSE "archived"
    OBVIOUS
<1>4. /\ call[c].at = "checked" /\ e \in Decision
      /\ status[t] = "backlog" /\ status' = [status EXCEPT ![t] = s]
      /\ Log(t, e) /\ call' = [call EXCEPT ![c] = Over] /\ author' = author
    BY <1>1, <1>2, <1>3 DEF SetTicketStatus, StandsAt
<1>5. t \in Ticket
    BY <1>1, <1>4 DEF TriageInv, TriageCallsInv, AtWorkInv
<1>6. e \in Moved /\ s = StatusTold[e]
    BY <1>3, <1>4, MoveFacts DEF Decision
<1>7. \A d \in TriageCall : \A u \in Ticket :
          /\ Owes(d, u)' <=> Owes(d, u)
          /\ Owes(d, u) => call'[d].op = call[d].op
    BY <1>4, OtherCallOwesNothing
<1> QED BY <1>4, <1>5, <1>6, <1>7, LaterEventTells

LEMMA LateEventTells ==
    ASSUME TriageInv, TellInv, NEW c \in TriageCall, CreateTicketEvent(c)
    PROVE  TellInv'
<1>1. PICK t : t = call[c].ticket
    OBVIOUS
<1>2. CASE call[c].op \in FollowUp
    BY <1>1, <1>2, LateCreationTells
<1>3. CASE call[c].op \notin FollowUp
  <2>1. PICK s : s = status[t]
    OBVIOUS
  <2>2. /\ call[c].at = "written" /\ call[c].op = "refine_proposed"
        /\ call' = [call EXCEPT ![c] = Over] /\ UNCHANGED <<status, author>>
        /\ Log(t, "updated")
    BY <1>1, <1>3 DEF CreateTicketEvent, StandsAt
  <2>3. t \in Ticket /\ status[t] # "none"
    BY <1>1, <2>2 DEF TriageInv, TriageCallsInv, AtWorkInv
  <2>4. status' = [status EXCEPT ![t] = s]
    BY <2>1, <2>2, <2>3 DEF TriageInv, TicketRowsInv
  <2>5. \A d \in TriageCall : \A u \in Ticket :
            /\ Owes(d, u)' <=> Owes(d, u)
            /\ Owes(d, u) => call'[d].op = call[d].op
    BY <1>3, <2>2, OtherCallOwesNothing
  <2> QED BY <2>1, <2>2, <2>3, <2>4, <2>5, EventKinds, LaterEventTells
<1> QED BY <1>2, <1>3

LEMMA TellNext == TriageInv /\ TellInv /\ [Next]_vars => TellInv'
<1> SUFFICES ASSUME TriageInv, TellInv, [Next]_vars PROVE TellInv'
    OBVIOUS
<1>1. CASE Next
  <2>1. ASSUME NEW c \in TriageCall,
               \/ \E t \in Ticket :
                     \/ \E op \in FollowUp : CreateTicketFromAttempt(c, t, op)
                     \/ \E op \in Decision \cup {"refine_proposed"} : RequireProposedTicket(c, t, op)
               \/ SetTicketStatus(c) \/ TransitionNotAllowed(c) \/ RefineProposedTicket(c)
               \/ CreateTicketEvent(c) \/ BreakOff(c)
        PROVE  TellInv'
    BY <2>1, FollowUpTells, QuietCallTells, DecisionTells, LateEventTells
  <2>2. ASSUME NEW t \in Ticket,
               \/ CreateTicket(t) \/ ProposeTicket(t) \/ UpdateTicket(t) \/ MarkReady(t)
               \/ Archive(t) \/ ClaimNextTicket(t) \/ CompleteAttempt(t)
        PROVE  TellInv'
    BY <2>2, CreateTells, MoveTells
  <2> QED BY <1>1, <2>1, <2>2 DEF Next
<1>2. CASE UNCHANGED vars
  <2>1. UNCHANGED <<status, author, history, call>>
    BY <1>2 DEF vars
  <2>2. \A c \in TriageCall : \A t \in Ticket : Owes(c, t)' <=> Owes(c, t)
    BY <2>1 DEF Owes
  <2> QED BY <2>1, <2>2, SilentTells
<1> QED BY <1>1, <1>2

\* For any number of tickets and calls: who reads a ticket's events is told its status by
\* the newest of its moves, or by its creation; no creation is told twice, and it is
\* missing or late only of a follow-up ticket (CreateTicketFromAttempt, createTicket).
THEOREM HistoryTellsStatusHolds == Spec => []HistoryTellsStatus
<1>1. TellInv => HistoryTellsStatus
    BY DEF TellInv
<1> QED BY <1>1, InitTells, TriageInvHolds, TellNext, PTL DEF Spec

-----------------------------------------------------------------------------
(* Decomposition: the inductive invariant.                                 *)

\* The keys being visited are the stack, each once, and each a dependency of the one
\* below it.
StackInv ==
    /\ \A k \in Key : state[k] = "visiting" <=> \E i \in 1 .. Len(stack) : stack[i] = k
    /\ \A i, j \in 1 .. Len(stack) : stack[i] = stack[j] => i = j
    /\ \A j \in 1 .. Len(stack) - 1 : stack[j + 1] \in request.deps[stack[j]]

\* What a visit has already looked at was left before, or is being visited next up the
\* stack; a key that was never entered has everything before it.
RestInv ==
    /\ \A k \in Key : rest[k] \subseteq request.deps[k]
    /\ \A k \in Key : state[k] = "unvisited" => rest[k] = request.deps[k]
    /\ \A i \in 1 .. Len(stack) : \A d \in request.deps[stack[i]] \ rest[stack[i]] :
          state[d] = "visited" \/ (i < Len(stack) /\ d = stack[i + 1])

\* The visited keys, in the order they were left, have their dependencies before them.
OrderInv ==
    /\ \A k \in Key : state[k] = "visited" => \E i \in 1 .. Len(left) : left[i] = k
    /\ \A i \in 1 .. Len(left) :
          \A d \in request.deps[left[i]] : \E j \in 1 .. i - 1 : left[j] = d

Fresh == stack = <<>> /\ left = <<>> /\ \A k \in Key : state[k] = "unvisited"

Passed == {"inserting", "linking", "failed", "lost", "created"}

PhaseInv ==
    /\ phase = "idle" => Fresh
    /\ phase \in Passed \cup {"searching"} => WellFormed
    /\ phase \in Passed => \A k \in Key : state[k] = "visited"
    /\ phase = "refused" /\ WellFormed =>
          stack # <<>> /\ \E d \in Key : d \in request.deps[Current] /\ state[d] = "visiting"
    /\ phase = "linking" => rows.tickets = Key

SearchInv == StackInv /\ RestInv /\ OrderInv

PlanInv == PlanTypeOK /\ SearchInv /\ PhaseInv /\ AllOrNothing

-----------------------------------------------------------------------------
(* Decomposition: the search.                                              *)

LEMMA SearchTypes ==
    ASSUME PlanTypeOK
    PROVE  /\ stack \in Seq(Key) /\ left \in Seq(Key)
           /\ Len(stack) \in Nat /\ Len(left) \in Nat
           /\ \A i \in 1 .. Len(stack) : stack[i] \in Key
           /\ \A i \in 1 .. Len(left) : left[i] \in Key
           /\ stack # <<>> => Len(stack) \in 1 .. Len(stack) /\ Current \in Key
           /\ stack = <<>> => Len(stack) = 0
           /\ request.deps \in [Key -> SUBSET (Key \cup {Stranger})]
BY DEF PlanTypeOK, Request, Current

\* visit(d) of a key that was never seen, by the outer loop or from the key that is
\* being visited: what the callers have yet to look at does not change.
LEMMA EnterKeepsSearch ==
    ASSUME PlanTypeOK, SearchInv, NEW d \in Key, state[d] = "unvisited", Enter(d),
           request' = request, left' = left, rest' \in [Key -> SUBSET (Key \cup {Stranger})],
           \A k \in Key : rest'[k] \subseteq rest[k],
           \A k \in Key : k \notin Active \/ k # Current => rest'[k] = rest[k],
           stack # <<>> => d \in request.deps[Current] /\ rest[Current] \subseteq rest'[Current] \cup {d}
    PROVE  SearchInv' /\ stack' \in Seq(Key) /\ state' \in [Key -> {"unvisited", "visiting", "visited"}]
<1>1. PICK n : n = Len(stack)
    OBVIOUS
<1>2. /\ n \in Nat /\ stack \in Seq(Key) /\ \A i \in 1 .. n : stack[i] \in Key
      /\ stack # <<>> => n \in 1 .. n
      /\ stack = <<>> => n = 0
    BY <1>1, SearchTypes
<1>3. /\ stack' \in Seq(Key) /\ Len(stack') = n + 1
      /\ \A i \in 1 .. n : stack'[i] = stack[i]
      /\ stack'[n + 1] = d
    BY <1>1, <1>2, AppendProperties DEF Enter
<1>4. /\ state' \in [Key -> {"unvisited", "visiting", "visited"}]
      /\ \A k \in Key : state'[k] = IF k = d THEN "visiting" ELSE state[k]
    BY DEF Enter, PlanTypeOK
<1>5. /\ \A k \in Key : state[k] = "visiting" <=> \E i \in 1 .. n : stack[i] = k
      /\ \A i, j \in 1 .. n : stack[i] = stack[j] => i = j
      /\ \A j \in 1 .. n - 1 : stack[j + 1] \in request.deps[stack[j]]
    BY <1>1 DEF SearchInv, StackInv
<1>6. \A i \in 1 .. n : stack[i] # d
    BY <1>2, <1>5
<1>7. 1 .. n + 1 = 1 .. n \cup {n + 1} /\ n + 1 \notin 1 .. n
    BY <1>2
<1>8. StackInv'
  <2>1. \A k \in Key : state'[k] = "visiting" <=> \E i \in 1 .. n + 1 : stack'[i] = k
    BY <1>3, <1>4, <1>5, <1>7
  <2>2. \A i, j \in 1 .. n + 1 : stack'[i] = stack'[j] => i = j
    BY <1>3, <1>5, <1>6, <1>7
  <2>3. ASSUME NEW j \in 1 .. n
        PROVE  stack'[j + 1] \in request.deps[stack'[j]]
    <3>1. CASE j = n
      BY <1>1, <1>2, <1>3, <2>3, <3>1 DEF Current
    <3>2. CASE j # n
      <4>1. j \in 1 .. n - 1 /\ j + 1 \in 1 .. n
        BY <1>2, <2>3, <3>2
      <4> QED BY <1>3, <1>5, <2>3, <4>1
    <3> QED BY <3>1, <3>2
  <2>4. Len(stack') - 1 = n
    BY <1>2, <1>3
  <2> QED BY <1>3, <2>1, <2>2, <2>3, <2>4 DEF StackInv
<1>9. RestInv'
  <2>1. \A k \in Key : rest'[k] \subseteq request.deps[k]
    BY DEF SearchInv, RestInv
  <2>2. \A i \in 1 .. n : i # n => rest'[stack[i]] = rest[stack[i]]
    BY <1>1, <1>2, <1>5 DEF Current
  <2>3. d \notin Active
    BY <1>1, <1>6 DEF Active
  <2>4. \A k \in Key : state'[k] = "unvisited" => rest'[k] = request.deps[k]
    <3> SUFFICES ASSUME NEW k \in Key, state'[k] = "unvisited" PROVE rest'[k] = request.deps[k]
      OBVIOUS
    <3>1. state[k] = "unvisited"
      BY <1>4
    <3>2. k \notin Active
      BY <1>1, <1>5, <3>1 DEF Active
    <3> QED BY <3>1, <3>2 DEF SearchInv, RestInv
  <2>5. ASSUME NEW i \in 1 .. n + 1, NEW e \in request.deps[stack'[i]] \ rest'[stack'[i]]
        PROVE  state'[e] = "visited" \/ (i < n + 1 /\ e = stack'[i + 1])
    <3>0. request.deps[stack'[i]] \subseteq Key \cup {Stranger}
      BY <1>2, <1>3, <1>7, SearchTypes
    <3>v. ASSUME state[e] = "visited" PROVE state'[e] = "visited"
      <4>1. CASE e \in Key
        BY <1>4, <3>v, <4>1
      <4>2. CASE e \notin Key
        BY <3>v, <4>2 DEF Enter, PlanTypeOK
      <4> QED BY <4>1, <4>2
    <3>1. CASE i = n + 1
      <4>1. rest'[d] = rest[d] /\ rest[d] = request.deps[d]
        BY <2>3 DEF SearchInv, RestInv
      <4> QED BY <1>3, <2>5, <3>1, <4>1
    <3>2. CASE i \in 1 .. n
      <4>1. i < n + 1 /\ stack'[i] = stack[i]
        BY <1>2, <1>3, <3>2
      <4>2. e \in request.deps[stack[i]] \ rest[stack[i]] =>
                state[e] = "visited" \/ (i < n /\ e = stack[i + 1])
        BY <1>1, <3>2 DEF SearchInv, RestInv
      <4>3. CASE i = n
        <5>1. e \in request.deps[stack[i]] \ rest[stack[i]] \/ e = d
          BY <1>1, <1>2, <2>5, <3>2, <4>1, <4>3 DEF Current
        <5> QED BY <1>2, <1>3, <3>v, <4>1, <4>2, <4>3, <5>1
      <4>4. CASE i # n
        <5>1. e \in request.deps[stack[i]] \ rest[stack[i]] /\ i + 1 \in 1 .. n
          BY <1>2, <2>2, <2>5, <3>2, <4>1, <4>4
        <5> QED BY <1>3, <3>v, <4>1, <4>2, <5>1
      <4> QED BY <4>3, <4>4
    <3> QED BY <1>7, <3>1, <3>2
  <2> QED BY <1>3, <2>1, <2>4, <2>5 DEF RestInv
<1>10. OrderInv'
    BY <1>4 DEF SearchInv, OrderInv
<1> QED BY <1>3, <1>4, <1>8, <1>9, <1>10 DEF SearchInv

\* The order so far depends on the request and on what was left.
LEMMA SameOrder ==
    ASSUME OrderInv, request' = request, state' = state, left' = left
    PROVE  OrderInv'
<1>1. \A k \in Key : state'[k] = "visited" => \E i \in 1 .. Len(left') : left'[i] = k
    BY DEF OrderInv
<1>2. ASSUME NEW i \in 1 .. Len(left'), NEW d \in request'.deps[left'[i]]
      PROVE  \E j \in 1 .. i - 1 : left'[j] = d
  <2>1. i \in 1 .. Len(left) /\ d \in request.deps[left[i]]
    BY <1>2
  <2>2. PICK j \in 1 .. i - 1 : left[j] = d
    BY <2>1 DEF OrderInv
  <2> QED BY <2>2
<1> QED BY <1>1, <1>2 DEF OrderInv

\* visit(d) of a key that was left before returns at once.
LEMMA SkipKeepsSearch ==
    ASSUME PlanTypeOK, SearchInv, stack # <<>>, NEW d \in Key, state[d] = "visited",
           rest' = [rest EXCEPT ![Current] = @ \ {d}], UNCHANGED <<request, state, stack, left>>
    PROVE  SearchInv'
<1>1. /\ Current \in Key /\ Len(stack) \in Nat
      /\ \A i \in 1 .. Len(stack) : stack[i] \in Key
    BY SearchTypes
<1>2. \A k \in Key : rest'[k] = IF k = Current THEN rest[k] \ {d} ELSE rest[k]
    BY <1>1 DEF PlanTypeOK
<1>3. StackInv' /\ OrderInv'
  <2>1. request' = request /\ state' = state /\ stack' = stack /\ left' = left
    OBVIOUS
  <2>2. StackInv'
    BY <2>1 DEF SearchInv, StackInv
  <2>3. OrderInv'
    BY <2>1, SameOrder DEF SearchInv
  <2> QED BY <2>2, <2>3
<1>4. RestInv'
  <2>1. Current \in Active /\ state[Current] # "unvisited"
    <3>1. stack[Len(stack)] = Current /\ Len(stack) \in 1 .. Len(stack)
      BY SearchTypes DEF Current
    <3> QED BY <1>1, <3>1 DEF SearchInv, StackInv, Active
  <2>2. \A i \in 1 .. Len(stack) : \A e \in request.deps[stack[i]] \ rest'[stack[i]] :
            e \in request.deps[stack[i]] \ rest[stack[i]] \/ e = d
    BY <1>1, <1>2
  <2>3. \A i \in 1 .. Len(stack) : \A e \in request.deps[stack[i]] \ rest'[stack[i]] :
            state[e] = "visited" \/ (i < Len(stack) /\ e = stack[i + 1])
    BY <2>2 DEF SearchInv, RestInv
  <2>4. \A k \in Key : rest'[k] \subseteq request.deps[k]
    BY <1>2 DEF SearchInv, RestInv
  <2>5. \A k \in Key : state[k] = "unvisited" => rest'[k] = request.deps[k]
    BY <1>2, <2>1 DEF SearchInv, RestInv
  <2> QED BY <2>3, <2>4, <2>5 DEF RestInv
<1> QED BY <1>3, <1>4 DEF SearchInv

\* visit returns false: every dependency of the key was left before it.
LEMMA LeaveKeepsSearch ==
    ASSUME PlanTypeOK, SearchInv, Leave, WellFormed
    PROVE  /\ SearchInv' /\ stack' \in Seq(Key) /\ left' \in Seq(Key)
           /\ state' \in [Key -> {"unvisited", "visiting", "visited"}]
<1>0. /\ stack # <<>> /\ rest[Current] = {}
      /\ state' = [state EXCEPT ![Current] = "visited"]
      /\ stack' = SubSeq(stack, 1, Len(stack) - 1) /\ left' = Append(left, Current)
      /\ request' = request /\ rest' = rest
    BY DEF Leave
<1>1. PICK n, c, m : n = Len(stack) /\ c = Current /\ m = Len(left)
    OBVIOUS
<1>2. /\ n \in Nat /\ n \in 1 .. n /\ c \in Key /\ stack[n] = c /\ m \in Nat
      /\ \A i \in 1 .. n : stack[i] \in Key
      /\ \A i \in 1 .. m : left[i] \in Key
      /\ stack \in Seq(Key) /\ left \in Seq(Key)
    BY <1>0, <1>1, SearchTypes DEF Current
<1>3. /\ stack' \in Seq(Key) /\ Len(stack') = n - 1
      /\ \A i \in 1 .. n - 1 : stack'[i] = stack[i] /\ i \in 1 .. n /\ i # n
  <2>1. n - 1 \in Int /\ \A i \in 1 .. n - 1 : stack[i] \in Key
    BY <1>2
  <2>2. /\ SubSeq(stack, 1, n - 1) \in Seq(Key)
        /\ Len(SubSeq(stack, 1, n - 1)) = IF 1 <= n - 1 THEN n - 1 - 1 + 1 ELSE 0
        /\ \A i \in 1 .. n - 1 - 1 + 1 : SubSeq(stack, 1, n - 1)[i] = stack[1 + i - 1]
    BY <2>1, SubSeqProperties
  <2> QED BY <1>0, <1>1, <1>2, <2>2
<1>4. /\ left' \in Seq(Key) /\ Len(left') = m + 1 /\ left'[m + 1] = c
      /\ \A i \in 1 .. m : left'[i] = left[i]
      /\ 1 .. m + 1 = 1 .. m \cup {m + 1}
    BY <1>0, <1>1, <1>2, AppendProperties
<1>5. /\ state' \in [Key -> {"unvisited", "visiting", "visited"}]
      /\ \A k \in Key : state'[k] = IF k = c THEN "visited" ELSE state[k]
    BY <1>0, <1>1, <1>2 DEF PlanTypeOK
<1>6. /\ \A k \in Key : state[k] = "visiting" <=> \E i \in 1 .. n : stack[i] = k
      /\ \A i, j \in 1 .. n : stack[i] = stack[j] => i = j
      /\ \A j \in 1 .. n - 1 : stack[j + 1] \in request.deps[stack[j]]
    BY <1>1 DEF SearchInv, StackInv
<1>7. \A k \in Key : request.deps[k] \subseteq Key
    BY DEF WellFormed
<1>8. StackInv'
  <2>1. \A k \in Key : state'[k] = "visiting" <=> \E i \in 1 .. n - 1 : stack'[i] = k
    <3> SUFFICES ASSUME NEW k \in Key
                 PROVE  state'[k] = "visiting" <=> \E i \in 1 .. n - 1 : stack'[i] = k
      OBVIOUS
    <3>1. CASE k = c
      BY <1>2, <1>3, <1>5, <1>6, <3>1
    <3>2. CASE k # c
      <4>1. \A i \in 1 .. n : stack[i] = k => i \in 1 .. n - 1
        BY <1>2, <3>2
      <4> QED BY <1>3, <1>5, <1>6, <3>2, <4>1
    <3> QED BY <3>1, <3>2
  <2>2. \A i, j \in 1 .. n - 1 : stack'[i] = stack'[j] => i = j
    BY <1>3, <1>6
  <2>3. \A j \in 1 .. n - 1 - 1 : stack'[j + 1] \in request.deps[stack'[j]]
    <3> SUFFICES ASSUME NEW j \in 1 .. n - 1 - 1 PROVE stack'[j + 1] \in request.deps[stack'[j]]
      OBVIOUS
    <3>1. j \in 1 .. n - 1 /\ j + 1 \in 1 .. n - 1
      BY <1>2
    <3> QED BY <1>3, <1>6, <3>1
  <2> QED BY <1>0, <1>3, <2>1, <2>2, <2>3 DEF StackInv
<1>9. RestInv'
  <2>1. ASSUME NEW i \in 1 .. n - 1, NEW e \in request.deps[stack'[i]] \ rest[stack'[i]]
        PROVE  state'[e] = "visited" \/ (i < n - 1 /\ e = stack'[i + 1])
    <3>1. stack'[i] = stack[i] /\ i \in 1 .. n /\ e \in Key
      BY <1>2, <1>3, <1>7, <2>1
    <3>2. state[e] = "visited" \/ (i < n /\ e = stack[i + 1])
      BY <1>1, <2>1, <3>1 DEF SearchInv, RestInv
    <3>3. CASE state[e] = "visited"
      BY <1>5, <3>1, <3>3
    <3>4. CASE e = stack[i + 1] /\ i + 1 = n
      BY <1>2, <1>5, <3>1, <3>4
    <3>5. CASE e = stack[i + 1] /\ i + 1 # n
      <4>1. i + 1 \in 1 .. n - 1 /\ i < n - 1
        BY <1>2, <2>1, <3>5
      <4> QED BY <1>3, <3>5, <4>1
    <3> QED BY <3>2, <3>3, <3>4, <3>5
  <2>2. \A k \in Key : rest[k] \subseteq request.deps[k] /\ (state'[k] = "unvisited" => rest[k] = request.deps[k])
    BY <1>5 DEF SearchInv, RestInv
  <2>3. ASSUME NEW i \in 1 .. Len(stack'), NEW e \in request'.deps[stack'[i]] \ rest'[stack'[i]]
        PROVE  state'[e] = "visited" \/ (i < Len(stack') /\ e = stack'[i + 1])
    <3>1. i \in 1 .. n - 1 /\ e \in request.deps[stack'[i]] \ rest[stack'[i]]
      BY <1>0, <1>3, <2>3
    <3> QED BY <1>3, <2>1, <3>1
  <2>4. /\ \A k \in Key : rest'[k] \subseteq request'.deps[k]
        /\ \A k \in Key : state'[k] = "unvisited" => rest'[k] = request'.deps[k]
    BY <1>0, <2>2
  <2> QED BY <2>3, <2>4 DEF RestInv
<1>10. OrderInv'
  <2>1. \A e \in request.deps[c] : \E j \in 1 .. m : left[j] = e
    <3> SUFFICES ASSUME NEW e \in request.deps[c] PROVE \E j \in 1 .. m : left[j] = e
      OBVIOUS
    <3>1. e \in request.deps[stack[n]] \ rest[stack[n]] /\ e \in Key
      BY <1>0, <1>1, <1>2, <1>7
    <3>2. state[e] = "visited"
      BY <1>1, <1>2, <3>1 DEF SearchInv, RestInv
    <3> QED BY <1>1, <3>1, <3>2 DEF SearchInv, OrderInv
  <2>2. \A k \in Key : state'[k] = "visited" => \E i \in 1 .. m + 1 : left'[i] = k
    BY <1>1, <1>2, <1>4, <1>5 DEF SearchInv, OrderInv
  <2>3. ASSUME NEW i \in 1 .. m + 1, NEW e \in request.deps[left'[i]]
        PROVE  \E j \in 1 .. i - 1 : left'[j] = e
    <3>1. CASE i = m + 1
      <4>1. PICK j \in 1 .. m : left[j] = e
        BY <1>4, <2>1, <2>3, <3>1
      <4>2. j \in 1 .. i - 1 /\ left'[j] = e
        BY <1>2, <1>4, <3>1, <4>1
      <4> QED BY <4>2
    <3>2. CASE i \in 1 .. m
      <4>1. PICK j \in 1 .. i - 1 : left[j] = e
        BY <1>1, <1>4, <2>3, <3>2 DEF SearchInv, OrderInv
      <4>2. j \in 1 .. m
        BY <1>2, <3>2, <4>1
      <4> QED BY <1>4, <4>1, <4>2
    <3> QED BY <1>4, <3>1, <3>2
  <2> QED BY <1>0, <1>4, <2>2, <2>3 DEF OrderInv
<1> QED BY <1>3, <1>4, <1>5, <1>8, <1>9, <1>10 DEF SearchInv

\* A step that leaves the search alone.
LEMMA SameSearch ==
    ASSUME SearchInv, UNCHANGED <<request, state, stack, rest, left>>
    PROVE  SearchInv'
<1>1. StackInv'
    BY DEF SearchInv, StackInv
<1>2. RestInv'
    BY DEF SearchInv, RestInv
<1>3. OrderInv'
    BY SameOrder DEF SearchInv
<1> QED BY <1>1, <1>2, <1>3 DEF SearchInv

-----------------------------------------------------------------------------
(* Decomposition: the actions.                                             *)

LEMMA PlanInitInv == PlanInit => PlanInv
<1> SUFFICES ASSUME PlanInit PROVE PlanInv
    OBVIOUS
<1>1. /\ request \in Request /\ \A k \in Key : request.deps[k] = {}
    BY DEF PlanInit, Request
<1>2. stack = <<>> /\ left = <<>> /\ 1 .. Len(stack) = {} /\ 1 .. Len(left) = {}
    BY DEF PlanInit
<1>3. \A k \in Key : state[k] = "unvisited" /\ rest[k] = {}
    BY DEF PlanInit
<1>4. PlanTypeOK
    BY <1>1, <1>2 DEF PlanInit, PlanTypeOK, Phase, Status, NoRows
<1>5. StackInv /\ RestInv /\ OrderInv
  <2>1. StackInv
    <3>1. 1 .. Len(stack) - 1 = {}
      BY <1>2
    <3> QED BY <1>2, <1>3, <3>1 DEF StackInv
  <2>2. RestInv
    BY <1>1, <1>2, <1>3 DEF RestInv
  <2>3. OrderInv
    BY <1>2, <1>3 DEF OrderInv
  <2> QED BY <2>1, <2>2, <2>3
<1>6. PhaseInv
    BY <1>2, <1>3 DEF PlanInit, PhaseInv, Fresh, Passed
<1>7. AllOrNothing
    BY DEF PlanInit, AllOrNothing
<1> QED BY <1>4, <1>5, <1>6, <1>7 DEF PlanInv, SearchInv

LEMMA ReceiveKeepsInv ==
    ASSUME PlanInv, Receive
    PROVE  PlanInv'
<1>1. /\ phase = "idle" /\ phase' = "checking" /\ request' \in Request /\ rest' = request'.deps
      /\ UNCHANGED <<state, stack, left, rows, childStatus, dependsOn>>
    BY DEF Receive
<1>2. Fresh /\ Len(stack) = 0 /\ Len(left) = 0
    BY <1>1 DEF PlanInv, PhaseInv, Fresh
<1>3. PlanTypeOK'
    BY <1>1 DEF PlanInv, PlanTypeOK, Phase, Request
<1>4. StackInv' /\ RestInv' /\ OrderInv'
    BY <1>1, <1>2 DEF StackInv, RestInv, OrderInv, Fresh
<1>5. PhaseInv'
    BY <1>1 DEF PhaseInv, Passed
<1>6. AllOrNothing'
    BY <1>1 DEF PlanInv, AllOrNothing
<1> QED BY <1>3, <1>4, <1>5, <1>6 DEF PlanInv, SearchInv

\* Steps of the search that write nothing.
LEMMA SearchKeepsInv ==
    ASSUME PlanInv, phase \in {"checking", "searching"}, request' = request,
           SearchInv', PhaseInv',
           stack' \in Seq(Key), left' \in Seq(Key),
           state' \in [Key -> {"unvisited", "visiting", "visited"}],
           rest' \in [Key -> SUBSET (Key \cup {Stranger})],
           phase' \in {"searching", "refused", "inserting"},
           UNCHANGED <<rows, childStatus, dependsOn>>
    PROVE  PlanInv'
<1>1. PlanTypeOK'
    BY DEF PlanInv, PlanTypeOK, Phase
<1>2. AllOrNothing'
    BY DEF PlanInv, AllOrNothing
<1> QED BY <1>1, <1>2 DEF PlanInv

LEMMA ValidateKeepsInv ==
    ASSUME PlanInv, Validate \/ NoCycle \/ \E d \in Key : FindCycle(d)
    PROVE  PlanInv'
<1>1. /\ UNCHANGED <<request, state, stack, rest, left>> /\ UNCHANGED <<rows, childStatus, dependsOn>>
      /\ phase \in {"checking", "searching"} /\ phase' \in {"searching", "refused", "inserting"}
    BY DEF Validate, NoCycle, FindCycle, searchVars
<1>2. SearchInv'
    BY <1>1, SameSearch DEF PlanInv
<1>3. WellFormed' <=> WellFormed
    BY <1>1 DEF WellFormed
<1>4. PlanTypeOK /\ SearchInv
    BY DEF PlanInv
<1>5. PhaseInv'
  <2>1. CASE Validate
    BY <1>3, <2>1 DEF Validate, PhaseInv, Passed
  <2>2. CASE NoCycle
    <3>1. \A k \in Key : state[k] = "visited"
      <4>1. \A k \in Key : state[k] # "visiting"
        BY <1>4, <2>2, SearchTypes DEF SearchInv, StackInv, NoCycle
      <4> QED BY <1>4, <2>2, <4>1 DEF PlanTypeOK, NoCycle
    <3> QED BY <1>1, <1>3, <2>2, <3>1 DEF PlanInv, NoCycle, PhaseInv, Passed
  <2>3. ASSUME NEW d \in Key, FindCycle(d)
        PROVE  PhaseInv'
    <3>1. stack # <<>> /\ d \in rest[Current] /\ state[d] = "visiting" /\ phase' = "refused"
      BY <2>3 DEF FindCycle, MeetsVisiting
    <3>2. d \in request.deps[Current]
      BY <1>4, <3>1, SearchTypes DEF SearchInv, RestInv
    <3> QED BY <1>1, <3>1, <3>2 DEF PhaseInv, Passed, Current
  <2> QED BY <2>1, <2>2, <2>3
<1> QED
    BY <1>1, <1>2, <1>4, <1>5, SearchKeepsInv DEF PlanTypeOK

LEMMA VisitKeepsInv ==
    ASSUME PlanInv, NEW d \in Key, VisitChild(d) \/ VisitDependency(d)
    PROVE  PlanInv'
<1>1. /\ phase = "searching" /\ phase' = phase /\ request' = request /\ left' = left
      /\ UNCHANGED <<rows, childStatus, dependsOn>>
    BY DEF VisitChild, VisitDependency
<1>2. PlanTypeOK /\ SearchInv /\ WellFormed
    BY <1>1 DEF PlanInv, PhaseInv
<1>3. WellFormed'
    BY <1>1, <1>2 DEF WellFormed
<1>4. PhaseInv'
    BY <1>1, <1>3 DEF PhaseInv, Passed
<1>5. /\ SearchInv' /\ stack' \in Seq(Key)
      /\ state' \in [Key -> {"unvisited", "visiting", "visited"}]
      /\ rest' \in [Key -> SUBSET (Key \cup {Stranger})]
  <2>1. CASE VisitChild(d)
    <3>1. stack = <<>> /\ state[d] = "unvisited" /\ Enter(d) /\ rest' = rest
      BY <2>1 DEF VisitChild
    <3>2. rest' \in [Key -> SUBSET (Key \cup {Stranger})]
      BY <1>2, <3>1 DEF PlanTypeOK
    <3> QED BY <1>1, <1>2, <3>1, <3>2, EnterKeepsSearch
  <2>2. CASE VisitDependency(d)
    <3>1. /\ stack # <<>> /\ d \in rest[Current] /\ rest' = [rest EXCEPT ![Current] = @ \ {d}]
      BY <2>2 DEF VisitDependency
    <3>2. Current \in Key
      BY <1>2, <3>1, SearchTypes
    <3>3. /\ rest' \in [Key -> SUBSET (Key \cup {Stranger})]
          /\ \A k \in Key : rest'[k] = IF k = Current THEN rest[k] \ {d} ELSE rest[k]
      BY <1>2, <3>1, <3>2 DEF PlanTypeOK
    <3>4. CASE state[d] = "visited" /\ UNCHANGED <<state, stack>>
      BY <1>1, <1>2, <3>1, <3>3, <3>4, SkipKeepsSearch DEF PlanTypeOK
    <3>5. CASE state[d] = "unvisited" /\ Enter(d)
      <4>1. d \in request.deps[Current]
        BY <1>2, <3>1, <3>2 DEF SearchInv, RestInv
      <4>2. Current \in Active
        BY <1>2, <3>1, SearchTypes DEF Active, Current
      <4>3. /\ \A k \in Key : rest'[k] \subseteq rest[k]
            /\ \A k \in Key : k \notin Active \/ k # Current => rest'[k] = rest[k]
            /\ rest[Current] \subseteq rest'[Current] \cup {d}
        BY <3>2, <3>3, <4>2
      <4> QED BY <1>1, <1>2, <3>3, <3>5, <4>1, <4>3, EnterKeepsSearch
    <3> QED BY <2>2, <3>4, <3>5 DEF VisitDependency
  <2> QED BY <2>1, <2>2
<1> QED
    BY <1>1, <1>2, <1>4, <1>5, SearchKeepsInv DEF PlanTypeOK

LEMMA LeaveKeepsInv ==
    ASSUME PlanInv, Leave
    PROVE  PlanInv'
<1>1. /\ phase = "searching" /\ phase' = phase /\ request' = request /\ rest' = rest
      /\ UNCHANGED <<rows, childStatus, dependsOn>>
    BY DEF Leave
<1>2. PlanTypeOK /\ SearchInv /\ WellFormed
    BY <1>1 DEF PlanInv, PhaseInv
<1>3. PhaseInv'
    BY <1>1, <1>2 DEF PhaseInv, Passed, WellFormed
<1> QED
    BY <1>1, <1>2, <1>3, LeaveKeepsSearch, SearchKeepsInv DEF PlanTypeOK

\* Steps after the search.
LEMMA LaterKeepsInv ==
    ASSUME PlanInv, UNCHANGED <<request, state, stack, rest, left>>,
           (phase \in Passed /\ phase' \in Passed) \/ phase' = phase,
           rows' \in [tickets : SUBSET Key, links : SUBSET (Key \X Key)],
           phase' = "linking" => rows'.tickets = Key,
           childStatus' \in [Key -> Status], dependsOn' \subseteq Key \X Key,
           AllOrNothing'
    PROVE  PlanInv'
<1>1. SearchInv'
    BY SameSearch DEF PlanInv
<1>2. PlanTypeOK'
    BY DEF PlanInv, PlanTypeOK, Phase, Passed
<1>3. WellFormed' <=> WellFormed
    BY DEF WellFormed
<1>4. PhaseInv'
    BY <1>3 DEF PlanInv, PhaseInv, Passed, Fresh, Current
<1> QED BY <1>1, <1>2, <1>4 DEF PlanInv

LEMMA InsertKeepsInv ==
    ASSUME PlanInv, (\E k \in Key : InsertChild(k)) \/ LinkChild \/ FailPlan
    PROVE  PlanInv'
<1>1. /\ UNCHANGED <<request, state, stack, rest, left>> /\ UNCHANGED <<childStatus, dependsOn>>
      /\ phase \in {"inserting", "linking"} /\ phase' \in {"inserting", "linking", "failed"}
    BY DEF InsertChild, LinkChild, FailPlan, searchVars
<1>2. /\ rows \in [tickets : SUBSET Key, links : SUBSET (Key \X Key)]
      /\ childStatus \in [Key -> Status] /\ dependsOn \subseteq Key \X Key
    BY DEF PlanInv, PlanTypeOK
<1>3. AllOrNothing'
    BY <1>1 DEF PlanInv, AllOrNothing
<1>4. /\ rows' \in [tickets : SUBSET Key, links : SUBSET (Key \X Key)]
      /\ phase' = "linking" => rows'.tickets = Key
  <2>1. ASSUME NEW k \in Key, InsertChild(k)
        PROVE  <1>4
    <3>1. /\ rows' = [rows EXCEPT !.tickets = @ \cup {k}] /\ phase = "inserting"
          /\ phase' = IF rows'.tickets = Key THEN "linking" ELSE phase
      BY <2>1 DEF InsertChild
    <3> QED BY <1>2, <3>1
  <2>2. CASE LinkChild
    <3>1. PICK link \in Wanted : rows' = [rows EXCEPT !.links = @ \cup {link}]
      BY <2>2 DEF LinkChild
    <3>2. link \in Key \X Key
      BY DEF Wanted
    <3>3. rows.tickets = Key
      BY <2>2 DEF LinkChild, PlanInv, PhaseInv
    <3> QED BY <1>2, <3>1, <3>2, <3>3
  <2>3. CASE FailPlan
    BY <2>3 DEF FailPlan, NoRows
  <2> QED BY <2>1, <2>2, <2>3
<1> QED BY <1>1, <1>2, <1>3, <1>4, LaterKeepsInv DEF Passed

LEMMA CommitPlanKeepsInv ==
    ASSUME PlanInv, CommitPlan
    PROVE  PlanInv'
<1>1. /\ UNCHANGED <<request, state, stack, rest, left>> /\ phase = "linking"
      /\ phase' \in {"created", "lost"} /\ dependsOn' = Wanted /\ rows' = NoRows
      /\ childStatus' = [k \in Key |-> IF k \in rows.tickets THEN InitialStatus ELSE "none"]
    BY DEF CommitPlan, AllLinked, searchVars
<1>2. rows.tickets = Key
    BY <1>1 DEF PlanInv, PhaseInv
<1>3. \A k \in Key : childStatus'[k] \in Status /\ childStatus'[k] # "none"
    BY <1>1, <1>2 DEF InitialStatus, Status
<1>4. AllOrNothing'
    BY <1>1, <1>3 DEF AllOrNothing, Wanted
<1>5. /\ rows' \in [tickets : SUBSET Key, links : SUBSET (Key \X Key)]
      /\ childStatus' \in [Key -> Status] /\ dependsOn' \subseteq Key \X Key
    BY <1>1, <1>3 DEF NoRows, Wanted
<1> QED BY <1>1, <1>4, <1>5, LaterKeepsInv DEF Passed

LEMMA WorkKeepsInv ==
    ASSUME PlanInv, Work
    PROVE  PlanInv'
<1>1. PICK k \in Key, s \in {"todo", "in_progress", "done"} :
          /\ childStatus[k] # "none" /\ childStatus' = [childStatus EXCEPT ![k] = s]
          /\ UNCHANGED <<request, state, stack, rest, left>> /\ UNCHANGED <<phase, rows, dependsOn>>
    BY DEF Work, ReleaseChild, ClaimChild, CompleteChild, searchVars
<1>2. /\ rows \in [tickets : SUBSET Key, links : SUBSET (Key \X Key)]
      /\ childStatus \in [Key -> Status] /\ dependsOn \subseteq Key \X Key
    BY DEF PlanInv, PlanTypeOK
<1>3. childStatus' \in [Key -> Status] /\ \A x \in Key : childStatus'[x] = IF x = k THEN s ELSE childStatus[x]
    BY <1>1, <1>2 DEF Status
<1>4. AllOrNothing'
    BY <1>1, <1>3 DEF PlanInv, AllOrNothing, Wanted
<1>5. phase' = "linking" => rows'.tickets = Key
    BY <1>1 DEF PlanInv, PhaseInv
<1> QED BY <1>1, <1>2, <1>3, <1>4, <1>5, LaterKeepsInv

LEMMA PlanNextInv == PlanInv /\ [PlanNext]_planVars => PlanInv'
<1> SUFFICES ASSUME PlanInv, [PlanNext]_planVars PROVE PlanInv'
    OBVIOUS
<1>1. CASE PlanNext
    BY <1>1, ReceiveKeepsInv, ValidateKeepsInv, VisitKeepsInv, LeaveKeepsInv, InsertKeepsInv,
       CommitPlanKeepsInv, WorkKeepsInv DEF PlanNext, Search, Write
<1>2. CASE UNCHANGED planVars
  <2>1. /\ UNCHANGED <<request, state, stack, rest, left>>
        /\ UNCHANGED <<phase, rows, childStatus, dependsOn>>
    BY <1>2 DEF planVars, searchVars
  <2>2. AllOrNothing'
    BY <2>1 DEF PlanInv, AllOrNothing, Wanted
  <2> QED BY <2>1, <2>2, LaterKeepsInv DEF PlanInv, PlanTypeOK, PhaseInv
<1> QED BY <1>1, <1>2

LEMMA PlanInvHolds == PlanSpec => []PlanInv
BY PlanInitInv, PlanNextInv, PTL DEF PlanSpec

-----------------------------------------------------------------------------
(* Decomposition: the theorems.                                            *)

\* The request, the search, the transaction and the tickets keep their types.
THEOREM PlanTypeCorrect == PlanSpec => []PlanTypeOK
<1>1. PlanInv => PlanTypeOK
    BY DEF PlanInv
<1> QED BY <1>1, PlanInvHolds, PTL

\* hasDependencyCycle is right for every plan of any size: a refusal shows a cycle, and
\* a plan that passes has an order with every dependency before what depends on it.
THEOREM SearchIsRightHolds == PlanSpec => []SearchIsRight
<1>1. PlanInv => SearchIsRight
  <2> SUFFICES ASSUME PlanInv PROVE CycleIsReal /\ PassedHasOrder
    BY DEF SearchIsRight
  <2>0. PlanTypeOK /\ StackInv /\ OrderInv /\ PhaseInv
    BY DEF PlanInv, SearchInv
  <2>1. CycleIsReal
    <3> SUFFICES ASSUME phase = "refused", WellFormed
                 PROVE  \E i \in 1 .. Len(stack) :
                            /\ stack[i] \in request.deps[Current]
                            /\ \A j \in i .. Len(stack) - 1 : stack[j + 1] \in request.deps[stack[j]]
      BY DEF CycleIsReal
    <3>1. PICK d \in Key : d \in request.deps[Current] /\ state[d] = "visiting"
      BY <2>0 DEF PhaseInv
    <3>2. PICK i \in 1 .. Len(stack) : stack[i] = d
      BY <2>0, <3>1 DEF StackInv
    <3>3. \A j \in i .. Len(stack) - 1 : j \in 1 .. Len(stack) - 1
      BY <2>0, SearchTypes
    <3> QED BY <2>0, <3>1, <3>2, <3>3 DEF StackInv
  <2>2. PassedHasOrder
    BY <2>0 DEF PassedHasOrder, PhaseInv, OrderInv, Passed
  <2> QED BY <2>1, <2>2
<1> QED BY <1>1, PlanInvHolds, PTL

\* A plan of any size is committed with all of its tickets and dependencies or not at
\* all (Runtime.DecomposeTicket), and nothing of it is taken back later.
THEOREM AllOrNothingHolds == PlanSpec => []AllOrNothing
<1>1. PlanInv => AllOrNothing
    BY DEF PlanInv
<1> QED BY <1>1, PlanInvHolds, PTL

-----------------------------------------------------------------------------
(* Decomposition: accepted plans.                                          *)

\* There is something to do on child k: to release it, to claim it or to complete it
\* (the conditions of the disjuncts of Work).
CanMove(k) ==
    \/ childStatus[k] \in {"backlog", "in_progress"}
    \/ childStatus[k] = "todo" /\ DependenciesDone(k)

PlanNeverStuck ==
    phase \in {"created", "lost"} /\ (\E k \in Key : childStatus[k] # "done") => \E k \in Key : CanMove(k)

\* A plan of any size that Forge accepted never gets stuck in its own dependencies: of
\* the children that are not done, the one whose visit ended first waits for nobody.
THEOREM PlanNeverStuckHolds == PlanSpec => []PlanNeverStuck
<1>1. PlanInv => PlanNeverStuck
  <2> SUFFICES ASSUME PlanInv, phase \in {"created", "lost"}, \E k \in Key : childStatus[k] # "done"
               PROVE  \E k \in Key : CanMove(k)
    BY DEF PlanNeverStuck
  <2> DEFINE Open == {i \in 1 .. Len(left) : childStatus[left[i]] # "done"}
  <2>1. /\ PlanTypeOK /\ OrderInv
        /\ \A k \in Key : state[k] = "visited"
        /\ dependsOn = Wanted /\ \A k \in Key : childStatus[k] # "none"
    BY DEF PlanInv, SearchInv, PhaseInv, Passed, AllOrNothing
  <2>2. left \in Seq(Key) /\ Len(left) \in Nat /\ \A i \in 1 .. Len(left) : left[i] \in Key
    BY <2>1, SearchTypes
  <2>3. Open \in SUBSET Nat /\ Open # {}
    <3>1. PICK k \in Key : childStatus[k] # "done"
      OBVIOUS
    <3>2. PICK i \in 1 .. Len(left) : left[i] = k
      BY <2>1, <3>1 DEF OrderInv
    <3>3. i \in Open
      BY <3>1, <3>2
    <3>4. \A j \in Open : j \in Nat
      BY <2>2
    <3> QED BY <3>3, <3>4
  <2>4. PICK m \in Open : \A i \in Open : m <= i
    BY <2>3, LeastNumber
  <2>5. m \in 1 .. Len(left) /\ left[m] \in Key
    BY <2>2
  <2>6. ASSUME NEW d \in Key, <<left[m], d>> \in dependsOn PROVE childStatus[d] = "done"
    <3>1. d \in request.deps[left[m]]
      BY <2>1, <2>5, <2>6 DEF Wanted
    <3>2. PICK j \in 1 .. m - 1 : left[j] = d
      BY <2>1, <2>5, <3>1 DEF OrderInv
    <3>3. j \in 1 .. Len(left) /\ ~(m <= j)
      BY <2>2, <2>5, <3>2
    <3>4. j \notin Open
      BY <2>4, <3>3
    <3> QED BY <3>2, <3>3, <3>4
  <2>7. childStatus[left[m]] \in {"backlog", "todo", "in_progress"}
    BY <2>1, <2>4, <2>5 DEF PlanTypeOK, Status
  <2>8. CanMove(left[m])
    BY <2>6, <2>7 DEF CanMove, DependenciesDone
  <2> QED BY <2>5, <2>8
<1> QED BY <1>1, PlanInvHolds, PTL
=============================================================================
