------------------------------ MODULE Startup ------------------------------
(***************************************************************************)
(* main.py, db/startup.py and db/migrate.py: replicas, possibly of         *)
(* different images, start against one PostgreSQL server that may not have *)
(* the database yet, crash and are started again.  Two session locks: one  *)
(* around CREATE DATABASE, one around schema and migrations.               *)
(***************************************************************************)
EXTENDS Integers, Sequences, FiniteSets

CONSTANTS
    Replicas,
    Images,       \* sets of migration files [v, sum, plain]: plain is ~no_transaction
    Servers,      \* what may be found: is the database there, are PostgreSQL and pgvector
                  \* recent enough, is ANALYZER_PG_CREATE_DB set, has the role CREATEDB
    Attempts,     \* attempts of ensure_database
    Statements,   \* statements of a migration file
    MaxStarts,    \* bound: starts of containers in a behaviour
    MaxOutages    \* bound: connection failures

Unheld == "nobody"

ASSUME StartupAssumption ==
    /\ Servers \subseteq [db : BOOLEAN, supported : BOOLEAN, createDb : BOOLEAN, mayCreate : BOOLEAN]
    /\ Unheld \notin Replicas
    /\ Attempts \in Nat \ {0} /\ Statements \in Nat \ {0}
    /\ \A m \in Images : \A f \in m : f \in [v : Nat, sum : Nat, plain : BOOLEAN]
    /\ \A m \in Images : \A f, g \in m : f.v = g.v => f = g    \* discover_migrations: no duplicates
    /\ \A m, n \in Images : \A f \in m, g \in n :
          f.v = g.v /\ f.sum = g.sum => f = g                   \* a checksum tells contents apart

Files == UNION Images
NoFile == [v |-> 0, sum |-> 0, plain |-> TRUE]
NotRun == [i \in 1..Statements |-> 0]

VARIABLES
    host, db, schema,   \* the server found, and whether database and schema exist by now
    ledger,       \* schema_migrations: the files recorded
    ran,          \* how often each statement of a file has run for good
    createLock, migrateLock,
    place, image, tries, code,    \* each replica: place, image, connection attempts, exit code
    pending, file, stmt,       \* its pending files, the one it applies, and statements done
    starts, outages

startupVars == <<host, db, schema, ledger, ran, createLock, migrateLock, place, image, tries, code,
          pending, file, stmt, starts, outages>>
server == <<host, db, schema, ledger, ran>>
locks == <<createLock, migrateLock>>
counts == <<starts, outages>>

StartupInit ==
    /\ host \in Servers /\ db = host.db /\ schema = FALSE /\ ledger = {}
    /\ ran = [f \in Files |-> NotRun]
    /\ createLock = Unheld /\ migrateLock = Unheld
    /\ place = [r \in Replicas |-> "down"] /\ image = [r \in Replicas |-> {}]
    /\ tries = [r \in Replicas |-> 0] /\ code = [r \in Replicas |-> 0]
    /\ pending = [r \in Replicas |-> {}] /\ file = [r \in Replicas |-> NoFile]
    /\ stmt = [r \in Replicas |-> 0]
    /\ starts = 0 /\ outages = 0

To(r, p) == place' = [place EXCEPT ![r] = p]

(* Mutant of Released: a session's lock outlives it. *)
Kept(lock, r) == lock

\* pg_advisory_lock is the session's: it goes with the connection.
Released(lock, r) == IF lock = r THEN Unheld ELSE lock

\* The process ends: its locks are released, an open transaction is undone.
Leaves(r, p, c) ==
    /\ To(r, p)
    /\ code' = [code EXCEPT ![r] = c]
    /\ createLock' = Released(createLock, r) /\ migrateLock' = Released(migrateLock, r)
    /\ pending' = [pending EXCEPT ![r] = {}] /\ file' = [file EXCEPT ![r] = NoFile]
    /\ stmt' = [stmt EXCEPT ![r] = 0]
    /\ tries' = [tries EXCEPT ![r] = 0]
    /\ UNCHANGED <<server, image>>

Stays == UNCHANGED <<image, code, pending, file, stmt>>

\* A container starts, of whatever image is deployed by then.
Boot(r) ==
    /\ place[r] = "down" /\ starts < MaxStarts /\ starts' = starts + 1
    /\ \E m \in Images : image' = [image EXCEPT ![r] = m]
    /\ To(r, "connect")
    /\ UNCHANGED <<server, locks, tries, code, pending, file, stmt, outages>>

\* It is killed, or its orchestrator takes an exited one away.
Stop(r) ==
    /\ place[r] # "down" /\ starts < MaxStarts
    /\ Leaves(r, "down", 0) /\ UNCHANGED counts

-----------------------------------------------------------------------------
\* ensure_database: connect; a failure is told apart by a look at pg_database, by when
\* another starter may have created it
Connect(r) ==
    /\ place[r] = "connect" /\ tries[r] < Attempts
    /\ IF db THEN To(r, "check") /\ UNCHANGED tries
             ELSE To(r, "probe") /\ tries' = [tries EXCEPT ![r] = @ + 1]
    /\ Stays /\ UNCHANGED <<server, locks, counts>>

\* The server does not answer, on the database or on the maintenance one.
Unreachable(r) ==
    /\ place[r] = "connect" /\ tries[r] < Attempts /\ outages < MaxOutages
    /\ outages' = outages + 1
    /\ tries' = [tries EXCEPT ![r] = @ + 1]
    /\ Stays /\ UNCHANGED <<place, server, locks, starts>>

Probe(r) ==
    /\ place[r] = "probe"
    /\ IF db \/ host.createDb
       THEN /\ To(r, IF db THEN "connect" ELSE "createLock")
            /\ Stays /\ UNCHANGED <<server, locks, tries>>
       ELSE Leaves(r, "exit", 3)
    /\ UNCHANGED counts

\* The loop is over, even if its last attempt has just created the database.
GiveUp(r) ==
    /\ place[r] = "connect" /\ tries[r] >= Attempts
    /\ Leaves(r, "exit", 4) /\ UNCHANGED counts

\* _create_database: connect_with_retries, the lock, a second look, CREATE DATABASE
MaintenanceLost(r) ==
    /\ place[r] = "createLock" /\ outages < MaxOutages
    /\ outages' = outages + 1
    /\ Leaves(r, "exit", 4) /\ UNCHANGED starts

LockCreate(r) ==
    /\ place[r] = "createLock" /\ createLock = Unheld
    /\ createLock' = r /\ To(r, "create")
    /\ Stays /\ UNCHANGED <<server, migrateLock, tries, counts>>

Create(r) ==
    /\ place[r] = "create"
    /\ IF db \/ host.mayCreate
       THEN /\ db' = TRUE /\ createLock' = Unheld /\ To(r, "connect")
            /\ Stays /\ UNCHANGED <<host, schema, ledger, ran, migrateLock, tries>>
       ELSE Leaves(r, "exit", 3)
    /\ UNCHANGED counts

\* check_server_and_extensions
Check(r) ==
    /\ place[r] = "check"
    /\ IF host.supported
       THEN To(r, "lock") /\ Stays /\ UNCHANGED <<server, locks, tries>>
       ELSE Leaves(r, "exit", 3)
    /\ UNCHANGED counts

-----------------------------------------------------------------------------
(* Mutant of LockFree: the lock is not waited for. *)
LockIgnored == TRUE

LockFree == migrateLock = Unheld

\* migration_lock
LockMigrate(r) ==
    /\ place[r] = "lock" /\ LockFree
    /\ migrateLock' = r /\ To(r, "schema")
    /\ Stays /\ UNCHANGED <<server, createLock, tries, counts>>

\* ensure_schema_and_extensions and _ensure_ledger
Schema(r) ==
    /\ place[r] = "schema"
    /\ schema' = TRUE /\ To(r, "verify")
    /\ Stays /\ UNCHANGED <<host, db, ledger, ran, locks, tries, counts>>

Versions(fs) == {f.v : f \in fs}

\* _verify_applied: every recorded version has its file, unchanged
Verified(r) == \A f \in ledger : \E g \in image[r] : g.v = f.v /\ g.sum = f.sum

(* Mutant of Pending: a high-watermark instead of membership. *)
PendingAbove(r) == {f \in image[r] : \A v \in Versions(ledger) : f.v > v}

\* select_pending: by membership, so that a version reserved by a branch is applied when it lands
Pending(r) == {f \in image[r] : f.v \notin Versions(ledger)}

Verify(r) ==
    /\ place[r] = "verify"
    /\ IF Verified(r)
       THEN /\ pending' = [pending EXCEPT ![r] = Pending(r)]
            /\ To(r, "apply")
            /\ UNCHANGED <<server, locks, image, code, file, stmt, tries>>
       ELSE Leaves(r, "exit", 5)
    /\ UNCHANGED counts

\* apply_migrations takes the next file in version order
Take(r) ==
    /\ place[r] = "apply"
    /\ \E f \in pending[r] :
         /\ \A g \in pending[r] : f.v <= g.v
         /\ file' = [file EXCEPT ![r] = f]
         /\ pending' = [pending EXCEPT ![r] = @ \ {f}]
    /\ To(r, "run")
    /\ UNCHANGED <<server, locks, image, code, stmt, tries, counts>>

\* Nothing is left: the lock is released, and main.py opens the pool, loads the seed catalog
\* and starts the service.
Up(r) ==
    /\ place[r] = "apply" /\ pending[r] = {}
    /\ To(r, "up") /\ migrateLock' = Released(migrateLock, r)
    /\ Stays /\ UNCHANGED <<server, createLock, tries, counts>>

\* The ledger row's version is its primary key.
Recorded(r) == file[r].v \in Versions(ledger)

\* _apply_one, a file in one transaction with its ledger row
RunPlain(r) ==
    /\ place[r] = "run" /\ file[r].plain
    /\ IF Recorded(r)
       THEN Leaves(r, "exit", 5)
       ELSE /\ ran' = [ran EXCEPT ![file[r]] = [i \in 1..Statements |-> @[i] + 1]]
            /\ ledger' = ledger \cup {file[r]}
            /\ To(r, "apply") /\ Stays /\ UNCHANGED <<host, db, schema, locks, tries>>
    /\ UNCHANGED counts

\* _apply_one, a no-transaction file: each statement commits on its own.  One that has run
\* before, in a start that died, runs again or raises.
RunStatement(r) ==
    /\ place[r] = "run" /\ ~ file[r].plain /\ stmt[r] < Statements
    /\ ran' = [ran EXCEPT ![file[r]][stmt[r] + 1] = @ + 1]
    /\ stmt' = [stmt EXCEPT ![r] = @ + 1]
    /\ UNCHANGED <<host, db, schema, ledger, locks, place, image, tries, code, pending, file, counts>>

StatementRaises(r) ==
    /\ place[r] = "run" /\ ~ file[r].plain /\ stmt[r] < Statements
    /\ ran[file[r]][stmt[r] + 1] > 0
    /\ Leaves(r, "exit", 5) /\ UNCHANGED counts

Record(r) ==
    /\ place[r] = "run" /\ ~ file[r].plain /\ stmt[r] = Statements
    /\ IF Recorded(r)
       THEN Leaves(r, "exit", 5)
       ELSE /\ ledger' = ledger \cup {file[r]} /\ stmt' = [stmt EXCEPT ![r] = 0]
            /\ To(r, "apply")
            /\ UNCHANGED <<host, db, schema, ran, locks, image, tries, code, pending, file>>
    /\ UNCHANGED counts

-----------------------------------------------------------------------------
Proceed(r) ==
    \/ Connect(r) \/ Probe(r) \/ GiveUp(r) \/ LockCreate(r) \/ Create(r) \/ Check(r)
    \/ LockMigrate(r) \/ Schema(r) \/ Verify(r) \/ Take(r) \/ Up(r)
    \/ RunPlain(r) \/ RunStatement(r) \/ StatementRaises(r) \/ Record(r)

StartupNext == \E r \in Replicas :
    Proceed(r) \/ Boot(r) \/ Stop(r) \/ Unreachable(r) \/ MaintenanceLost(r)

\* A process that is neither killed nor cut off goes on, and gets a lock it waits for
\* once the lock is free: starts are few, and each holds a lock once.
Fairness == \A r \in Replicas : WF_startupVars(Proceed(r))

StartupSpec == StartupInit /\ [][StartupNext]_startupVars /\ Fairness

-----------------------------------------------------------------------------
Once == [i \in 1..Statements |-> 1]

(* A service that is up serves the schema its image was written for: every migration of     *)
(* the image is in the ledger with its checksum, the statements of a transactional one have  *)
(* taken effect exactly once ("exactly once", migrate.py:3) and those of the others at least *)
(* once, whoever applied them, in whatever order branches landed and starts died.            *)
UpMeansMigrated ==
    \A r \in Replicas : place[r] = "up" =>
        \A f \in image[r] :
            /\ f \in ledger
            /\ f.plain => ran[f] = Once
            /\ \A i \in 1..Statements : ran[f][i] > 0

Interrupted(f) == \E i \in 1..Statements : ran[f][i] > 0

(* Concurrent starts converge (startup.py:323-325): a start gives up on the migrations only  *)
(* over history, a recorded file that its image lacks or has edited, or a no-transaction      *)
(* file that an earlier start left half done; never because another start is applying them.   *)
StartsConverge == [][
    \A r \in Replicas : code'[r] = 5 /\ code[r] = 0 =>
        \/ ~ Verified(r)
        \/ ~ file[r].plain /\ Interrupted(file[r])]_startupVars

(* Every start that is not killed ends: the service is up, or the process exits with a code.  *)
(* Nobody waits for good on an advisory lock, whoever held it when it died.                   *)
StartsSettle == \A r \in Replicas : place[r] = "connect" ~> place[r] \in {"up", "exit", "down"}
=============================================================================
