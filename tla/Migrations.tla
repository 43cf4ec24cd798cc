----------------------------- MODULE Migrations -----------------------------
(***************************************************************************)
(* Opening the job database: workflows/storage/migrations.py, with         *)
(* ProcessLock and the worker lock of workflows/runtime/worker.py.         *)
(*                                                                         *)
(* Every process that opens the store runs initialize_database: under the  *)
(* migration lock it reads the schema version, refuses a newer one, takes  *)
(* the worker lock, backs the file up and applies the missing migrations,  *)
(* one transaction each.  A database a user restored may carry part of a   *)
(* migration its version does not count yet.                               *)
(***************************************************************************)
EXTENDS Naturals, FiniteSets

CONSTANTS
    Hosts,          \* processes that open the store
    NoHost,
    Release,        \* Release[h]: SCHEMA_VERSION of the code host h runs
    LatestSchema,   \* the newest release's SCHEMA_VERSION
    Kind,           \* Kind[n]: how initialize_database guards migration n
    MaxBackups      \* bound: backup files

ASSUME MigrationsAssumption ==
    /\ LatestSchema \in Nat \ {0} /\ MaxBackups \in Nat
    /\ NoHost \notin Hosts
    /\ Release \in [Hosts -> 1..LatestSchema]
    /\ Kind \in [1..LatestSchema -> {"plain", "marked", "additive", "checked"}]

Numbers == 1..LatestSchema

\* What a migration leaves in the schema: two markers stand for the tables,
\* columns, indexes and triggers of its script.
Markers == {"first", "last"}

\* What a backup file holds.
Contents == [version : 0..LatestSchema, schema : [Numbers -> SUBSET Markers]]

VARIABLES
    tables,         \* the jobs table exists
    version,        \* PRAGMA user_version
    schema,         \* schema[n]: the markers of migration n present
    conflicting,    \* an occurrence has two jobs (what migration 17 refuses)
    migrationLock,  \* holder of the .migration.lock file
    workerLock,     \* holder of the .worker.lock file
    pc,             \* what each host is doing
    seen,           \* seen[h]: the version and tables host h read
    backups         \* the finished backup files; incomplete ones are not kept

migrationsVars == <<tables, version, schema, conflicting, migrationLock,
                    workerLock, pc, seen, backups>>

database == <<tables, version, schema, conflicting>>

MigrationsTypeOK ==
    /\ tables \in BOOLEAN /\ conflicting \in BOOLEAN
    /\ version \in 0..LatestSchema
    /\ schema \in [Numbers -> SUBSET Markers]
    /\ migrationLock \in Hosts \cup {NoHost}
    /\ workerLock \in Hosts \cup {NoHost}
    /\ pc \in [Hosts -> {"out", "reading", "copying", "preparing", "applying",
                         "open", "working"}]
    /\ seen \in [Hosts -> [version : 0..LatestSchema, tables : BOOLEAN]]
    /\ backups \subseteq [of : 0..LatestSchema, holds : Contents]

-----------------------------------------------------------------------------
Applied(n) == schema[n] = Markers
Partial(n) == schema[n] # {} /\ ~Applied(n)

\* A new file, or a database some release left behind; a restored one may
\* hold markers beyond its version.
MigrationsInit ==
    /\ tables \in BOOLEAN
    /\ version \in 0..LatestSchema
    /\ schema \in [Numbers -> SUBSET Markers]
    /\ \A n \in Numbers : n <= version => Applied(n)
    /\ ~tables => version = 0 /\ \A n \in Numbers : schema[n] = {}
    /\ conflicting \in BOOLEAN
    /\ conflicting => tables
    /\ migrationLock = NoHost /\ workerLock = NoHost
    /\ pc = [h \in Hosts |-> "out"]
    /\ seen = [h \in Hosts |-> [version |-> 0, tables |-> FALSE]]
    /\ backups = {}

\* Leaving initialize_database for `there`: the with block and the finally
\* clause close both lock files.
Leave(h, there) ==
    /\ pc' = [pc EXCEPT ![h] = there]
    /\ migrationLock' = IF migrationLock = h THEN NoHost ELSE migrationLock
    /\ workerLock' = IF workerLock = h THEN NoHost ELSE workerLock

\* A host that finds the lock held raises and stays out; it may try again.
TakeMigrationLock(h) ==
    /\ pc[h] = "out" /\ migrationLock = NoHost
    /\ migrationLock' = h
    /\ pc' = [pc EXCEPT ![h] = "reading"]
    /\ UNCHANGED <<database, workerLock, seen, backups>>

Refused(h) == version > Release[h]
AtRelease(h) == version = Release[h]

RefuseNewer(h) ==
    /\ pc[h] = "reading" /\ Refused(h)
    /\ Leave(h, "out")
    /\ UNCHANGED <<database, seen, backups>>

OpenCurrent(h) ==
    /\ pc[h] = "reading" /\ AtRelease(h)
    /\ Leave(h, "open")
    /\ UNCHANGED <<database, seen, backups>>

\* An older database is upgraded only while no worker runs.
WorkerInTheWay(h) ==
    /\ pc[h] = "reading" /\ version < Release[h] /\ workerLock # NoHost
    /\ Leave(h, "out")
    /\ UNCHANGED <<database, seen, backups>>

\* Only an existing database is copied first.
StartUpgrade(h) ==
    /\ pc[h] = "reading" /\ version < Release[h] /\ workerLock = NoHost
    /\ workerLock' = h
    /\ seen' = [seen EXCEPT ![h] = [version |-> version, tables |-> tables]]
    /\ pc' = [pc EXCEPT ![h] = IF tables THEN "copying" ELSE "preparing"]
    /\ UNCHANGED <<database, migrationLock, backups>>

\* The online backup copies one state of the file; the copy is checked and
\* kept under a new name that carries the version.
BackUp(h) ==
    /\ pc[h] = "copying" /\ Cardinality(backups) < MaxBackups
    /\ backups' = backups \cup
         {[of |-> seen[h].version,
           holds |-> [version |-> version, schema |-> schema]]}
    /\ pc' = [pc EXCEPT ![h] = "preparing"]
    /\ UNCHANGED <<database, migrationLock, workerLock, seen>>

\* A copy that fails is removed and nothing else is changed.
BackUpFails(h) ==
    /\ pc[h] = "copying"
    /\ Leave(h, "out")
    /\ UNCHANGED <<database, seen, backups>>

\* _initialize: tables of schema 0 that do not exist yet.  Its jobs table has
\* the error_code column of the additive migration already.
Prepare(h) ==
    /\ pc[h] = "preparing"
    /\ IF seen[h].version = 0
         THEN /\ tables' = TRUE
              /\ schema' = [n \in Numbers |->
                   IF Kind[n] = "additive" /\ ~tables
                     THEN schema[n] \cup {"first"} ELSE schema[n]]
         ELSE UNCHANGED <<tables, schema>>
    /\ pc' = [pc EXCEPT ![h] = "applying"]
    /\ UNCHANGED <<version, conflicting, migrationLock, workerLock,
                   seen, backups>>

-----------------------------------------------------------------------------
\* A plain script fails over objects that exist; a marked one is skipped when
\* all its objects exist and refused when some do; an additive one adds what
\* is missing; the checked one is refused over conflicting rows.
RunsMigration(n) == CASE Kind[n] = "plain"    -> schema[n] = {}
             [] Kind[n] = "marked"   -> ~Partial(n)
             [] Kind[n] = "additive" -> TRUE
             [] Kind[n] = "checked"  -> ~conflicting

NextNumber == version + 1

\* One migration: script and version marker commit together.  The loop passes
\* over the numbers up to the version it read, so the next one is version + 1.
Script(n) ==
    IF Kind[n] = "marked" /\ schema[n] # {} THEN schema[n] ELSE Markers

\* Mutant: the script commits before the version marker is written.
CommitApart(n) ==
    /\ schema' = [schema EXCEPT ![n] = Script(n)]
    /\ version' \in {version, n}

Commit(n) ==
    /\ schema' = [schema EXCEPT ![n] = Script(n)]
    /\ version' = n

ApplyStep(h) ==
    /\ pc[h] = "applying" /\ version < Release[h]
    /\ RunsMigration(NextNumber)
    /\ Commit(NextNumber)
    /\ UNCHANGED <<tables, conflicting, migrationLock, workerLock, pc,
                   seen, backups>>

StepFails(h) ==
    /\ pc[h] = "applying" /\ version < Release[h]
    /\ ~RunsMigration(NextNumber)
    /\ Leave(h, "out")
    /\ UNCHANGED <<database, seen, backups>>

FinishUpgrade(h) ==
    /\ pc[h] = "applying" /\ version >= Release[h]
    /\ Leave(h, "open")
    /\ UNCHANGED <<database, seen, backups>>

-----------------------------------------------------------------------------
\* AutomationWorker.run takes the worker lock for as long as it runs.
StartWorker(h) ==
    /\ pc[h] = "open" /\ workerLock = NoHost
    /\ workerLock' = h
    /\ pc' = [pc EXCEPT ![h] = "working"]
    /\ UNCHANGED <<database, migrationLock, seen, backups>>

StopWorker(h) ==
    /\ pc[h] = "working"
    /\ Leave(h, "open")
    /\ UNCHANGED <<database, seen, backups>>

\* The process ends, at any point: the open transaction is rolled back, the
\* kernel drops its locks, and a copy under way stays incomplete.
Exit(h) ==
    /\ pc[h] # "out"
    /\ Leave(h, "out")
    /\ UNCHANGED <<database, seen, backups>>

MigrationsNext ==
    \E h \in Hosts :
        \/ TakeMigrationLock(h) \/ RefuseNewer(h) \/ OpenCurrent(h)
        \/ WorkerInTheWay(h) \/ StartUpgrade(h) \/ BackUp(h) \/ BackUpFails(h)
        \/ Prepare(h) \/ ApplyStep(h) \/ StepFails(h) \/ FinishUpgrade(h)
        \/ StartWorker(h) \/ StopWorker(h) \/ Exit(h)

MigrationsSpec == MigrationsInit /\ [][MigrationsNext]_migrationsVars

-----------------------------------------------------------------------------
\* The version marker never runs ahead of the schema: whatever was restored
\* and wherever a process died, every migration it counts is there in full.
VersionIsTrue ==
    \A n \in Numbers : n <= version => Applied(n)

\* A host that changes an existing database has a backup of it: labelled with
\* the version it upgrades from, at that version, and with the schema that was
\* there before the first change.
Undone(b, h) ==
    /\ b.of = seen[h].version
    /\ b.holds.version = b.of
    /\ \A n \in Numbers : n > version => b.holds.schema[n] = schema[n]

BackedUp ==
    \A h \in Hosts : pc[h] \in {"preparing", "applying"} /\ seen[h].tables =>
        \E b \in backups : Undone(b, h)

\* A crash or a failed step never leaves a migration half done: what exists
\* beyond the version was there before, or came with a new jobs table.
Ahead == {n \in Numbers : n > version /\ schema[n] # {}}

NothingHalfDone ==
    [][tables => Ahead' \subseteq Ahead]_migrationsVars

\* A store that is open has reached its host's release: no upgrade by
\* somebody else, crash or refused step takes the version back.
OpensAtItsVersion ==
    \A h \in Hosts : pc[h] \in {"open", "working"} => version >= Release[h]

\* An upgrade of the store is all of this, through crashes, restored files and
\* hosts of different releases.
SafeUpgrades ==
    [](VersionIsTrue /\ BackedUp /\ OpensAtItsVersion) /\ NothingHalfDone
=============================================================================
