--------------------------- MODULE SchemaMigration ---------------------------
(***************************************************************************)
(* Starting the server on a database of some age: the lifespan handler     *)
(* runs the migrations of the release before the first request is served,  *)
(* one transaction per migration, and records each in a ledger inside the  *)
(* database.  The process may end at any step, and it may be started again *)
(* as another release: newer, older, or with a migration edited.           *)
(*                                                                         *)
(* A release is replaced only while the server is down.  DuckDB lets one   *)
(* process open the file, so there is one server.                          *)
(***************************************************************************)
EXTENDS Integers, Sequences, FiniteSets

CONSTANTS
    Contents,       \* what a migration file may contain, up to its checksum
    Broken,         \* contents with a statement that fails
    MaxVersion,     \* bound on the versions of migration files
    MaxStops        \* bound on how often the server ends

ASSUME BrokenAssumption == Broken \subseteq Contents
ASSUME BoundsAssumption == MaxVersion \in Nat /\ MaxStops \in Nat

VARIABLES
    files,          \* the migrations directory of the release
    ledger,         \* schema_migrations: the checksum by version
    schema,         \* history: the contents whose statements are committed
    cursor,         \* the version the loop over the migrations has come to
    inTransaction,  \* its statements are executed and not committed
    server,         \* "down", "migrating" or "serving"
    startup,        \* how run_migrations ended
    readiness,      \* the last answer of the readiness endpoint
    stops           \* how often the server has ended

database == <<ledger, schema>>
process == <<cursor, inTransaction, server, startup>>
vars == <<files, database, process, readiness, stops>>

Versions == 1 .. MaxVersion

\* A release has at least one migration file.
Directories == UNION {[S -> Contents] : S \in (SUBSET Versions) \ {{}}}
EmptyLedger == <<>>

\* Versions are contiguous and start at 1 (discover_migrations).
Contiguous(directory) == DOMAIN directory = 1 .. Cardinality(DOMAIN directory)

TypeOK ==
    /\ files \in Directories
    /\ ledger \in Directories \cup {EmptyLedger}
    /\ schema \in Seq(Contents)
    /\ cursor \in 1 .. MaxVersion + 1
    /\ inTransaction \in BOOLEAN
    /\ inTransaction => server = "migrating" /\ cursor \in DOMAIN files
    /\ server \in {"down", "migrating", "serving"}
    /\ startup \in {"none", "migrated", "failed"}
    /\ server = "serving" <=> startup # "none"
    /\ readiness \in {"none", "ready", "unavailable"}
    /\ stops \in 0 .. MaxStops

--------------------------------------------------------------------------------
(* Actions *)

\* Another release is installed.
Deploy ==
    /\ server = "down"
    /\ files' \in Directories
    /\ UNCHANGED <<database, process, readiness, stops>>

IsNewer == \E v \in DOMAIN ledger : v > Cardinality(DOMAIN files)

\* discover_migrations and the check for versions this release does not know.
StartMigrating ==
    /\ server = "down"
    /\ Contiguous(files) /\ ~IsNewer
    /\ cursor' = 1
    /\ server' = "migrating"
    /\ UNCHANGED <<files, database, inTransaction, startup, readiness, stops>>

\* A MigrationError, if need be after a ROLLBACK: the lifespan handler logs it
\* and goes on to serve.
FailStartup ==
    /\ server' = "serving"
    /\ startup' = "failed"
    /\ inTransaction' = FALSE
    /\ UNCHANGED <<files, database, cursor, readiness, stops>>

RefuseDirectory ==
    /\ server = "down"
    /\ ~Contiguous(files) \/ IsNewer
    /\ FailStartup

AtVersion == server = "migrating" /\ ~inTransaction /\ cursor \in DOMAIN files

\* Mutant: the checksum of an applied migration is not compared.
SkipAppliedUnchecked ==
    /\ AtVersion /\ cursor \in DOMAIN ledger
    /\ cursor' = cursor + 1
    /\ UNCHANGED <<files, database, inTransaction, server, startup, readiness,
                   stops>>

\* Mutant: the ledger adopts the checksum of an edited migration.
SkipAppliedAdopts ==
    /\ AtVersion /\ cursor \in DOMAIN ledger
    /\ ledger' = [ledger EXCEPT ![cursor] = files[cursor]]
    /\ cursor' = cursor + 1
    /\ UNCHANGED <<files, schema, inTransaction, server, startup, readiness,
                   stops>>

SkipApplied ==
    /\ AtVersion /\ cursor \in DOMAIN ledger
    /\ ledger[cursor] = files[cursor]
    /\ cursor' = cursor + 1
    /\ UNCHANGED <<files, database, inTransaction, server, startup, readiness,
                   stops>>

\* The checksum of an applied migration differs.
RefuseEdited ==
    /\ AtVersion /\ cursor \in DOMAIN ledger
    /\ ledger[cursor] # files[cursor]
    /\ FailStartup

\* BEGIN TRANSACTION and the statements of the migration.
ExecuteStatements ==
    /\ AtVersion /\ cursor \notin DOMAIN ledger
    /\ inTransaction' = TRUE
    /\ UNCHANGED <<files, database, cursor, server, startup, readiness, stops>>

\* Mutant: the ledger entry is written outside the transaction, which may be
\* never.
CommitWithoutLedger ==
    /\ inTransaction /\ files[cursor] \notin Broken
    /\ schema' = Append(schema, files[cursor])
    /\ inTransaction' = FALSE
    /\ cursor' = cursor + 1
    /\ UNCHANGED <<files, ledger, server, startup, readiness, stops>>

\* The ledger entry is inserted in the same transaction, and COMMIT.
Commit ==
    /\ inTransaction /\ files[cursor] \notin Broken
    /\ schema' = Append(schema, files[cursor])
    /\ ledger' = [v \in DOMAIN ledger \cup {cursor} |->
                     IF v = cursor THEN files[v] ELSE ledger[v]]
    /\ inTransaction' = FALSE
    /\ cursor' = cursor + 1
    /\ UNCHANGED <<files, server, startup, readiness, stops>>

RollBack ==
    /\ inTransaction /\ files[cursor] \in Broken
    /\ FailStartup

\* Mutant: the server gives up the loop after a migration.
ServeEarly ==
    /\ server = "migrating" /\ ~inTransaction
    /\ cursor > 1
    /\ server' = "serving"
    /\ startup' = "migrated"
    /\ UNCHANGED <<files, database, cursor, inTransaction, readiness, stops>>

\* The loop is over.
Serve ==
    /\ server = "migrating" /\ ~inTransaction
    /\ cursor \notin DOMAIN files
    /\ server' = "serving"
    /\ startup' = "migrated"
    /\ UNCHANGED <<files, database, cursor, inTransaction, readiness, stops>>

\* is_database_ready counts; without migration 1 there is no ledger to count.
IsDatabaseReady ==
    /\ Contiguous(files)
    /\ ledger # EmptyLedger
    /\ Cardinality(DOMAIN ledger) = Cardinality(DOMAIN files)

GetReadiness ==
    /\ server = "serving"
    /\ readiness' = IF IsDatabaseReady THEN "ready" ELSE "unavailable"
    /\ UNCHANGED <<files, database, process, stops>>

\* The server is stopped or its process ends; an open transaction is lost.
StopServer ==
    /\ server # "down" /\ stops < MaxStops
    /\ server' = "down"
    /\ startup' = "none"
    /\ inTransaction' = FALSE
    /\ readiness' = "none"
    /\ stops' = stops + 1
    /\ UNCHANGED <<files, database, cursor>>

Init ==
    /\ files \in Directories
    /\ ledger = EmptyLedger
    /\ schema = <<>>
    /\ cursor = 1
    /\ inTransaction = FALSE
    /\ server = "down"
    /\ startup = "none"
    /\ readiness = "none"
    /\ stops = 0

Start == StartMigrating \/ RefuseDirectory

Migrating ==
    \/ SkipApplied
    \/ RefuseEdited
    \/ ExecuteStatements
    \/ Commit
    \/ RollBack
    \/ Serve

Next ==
    \/ Deploy
    \/ Start
    \/ Migrating
    \/ GetReadiness
    \/ StopServer

Spec == Init /\ [][Next]_vars

\* A server that was started keeps running until it is stopped, and one that is
\* down is started again; releases need not come, and stops are finitely many.
FairSpec == Spec /\ WF_vars(Start) /\ WF_vars(Migrating)

--------------------------------------------------------------------------------
(* Properties *)

\* However often the process ends inside a migration, the ledger tells what is
\* in the database: versions 1 to n without a gap, whose statements were each
\* committed once and in order.
LedgerIsTheSchema ==
    /\ DOMAIN ledger = 1 .. Len(schema)
    /\ \A v \in DOMAIN ledger : schema[v] = ledger[v]

\* Migrations are append-only: no start of whatever release changes or removes
\* an entry of the ledger.
LedgerOnlyGrows ==
    [][\A v \in DOMAIN ledger :
           v \in DOMAIN ledger' /\ ledger'[v] = ledger[v]]_vars

\* A release whose start did not fail serves exactly the schema it was written
\* for: the migrations of its directory, unedited, all of them and no others.
ServedAsWritten ==
    server = "serving" /\ startup = "migrated" => ledger = files

\* Whether a release can be started on the database.
Applicable(directory) ==
    /\ Contiguous(directory)
    /\ DOMAIN ledger \subseteq DOMAIN directory
    /\ \A v \in DOMAIN directory :
          IF v \in DOMAIN ledger THEN ledger[v] = directory[v]
          ELSE directory[v] \notin Broken

\* A release that can be applied is applied in the end, also when the process
\* ends in the middle of its migrations: nothing has to be repaired by hand.
ApplicableIsApplied ==
    \A d \in Directories :
        (server = "down" /\ files = d /\ Applicable(d))
            ~> (files # d \/ (ledger = d /\ server = "serving"))

\* ADR-002: "fail before application startup/use if the database is newer than
\* the application knows how to handle."
NewerIsNotServed == server = "serving" => ~IsNewer
================================================================================
