------------------------------ MODULE Migrator ------------------------------
(***************************************************************************)
(* The two migrators, PostgresMigrator (app/runtime/postgres.py) and       *)
(* PostgresCatalogMigrator (app/catalog/postgres.py), as they are started  *)
(* by app/runtime/migrate.py and app/catalog/migrate.py under one .env.    *)
(*                                                                         *)
(* A migration is one transaction.  Its statements are actions of their    *)
(* own: several migrators run at once, and any of them may be lost between *)
(* two statements.  DDL is transactional, so what a migration has created  *)
(* is `pending' until it commits; another transaction that would create    *)
(* the same object waits for it.                                           *)
(***************************************************************************)
EXTENDS Naturals

CONSTANTS
    Process,     \* migrator processes; each may be started again
    Name,        \* names of PostgreSQL schemas
    Public,      \* the name "public"
    NoProcess    \* the owner of an advisory lock that is free

ASSUME MigratorAssumption == Public \in Name /\ NoProcess \notin Process

VARIABLES
    settings,   \* the schemas that .env names: V2's two and V1's two
    db,         \* everything that is committed in the database
    pending,    \* what each open transaction has created
    lock,       \* the owner of each migrator's advisory lock, per schema
    pc,         \* where each process is
    kind,       \* which migrator it is
    todo,       \* the versions it found missing and has not applied
    outcome     \* how its last migration ended

processes == <<pending, pc, kind, todo, outcome>>
vars == <<settings, db, lock, processes>>

-----------------------------------------------------------------------------
Kind == {"runtime", "catalog"}

\* LATEST_SCHEMA_VERSION and LATEST_CATALOG_SCHEMA_VERSION.
Latest == [runtime |-> 2, catalog |-> 1]

\* Zero stands for what has no version; three is a newer program's.
Version == 0..3

\* `apart': V2 has a port, a service name, a directory of its own, and its DSNs
\* name PostgreSQL.
Settings == [state : Name, catalog : Name, v1State : Name, v1Catalog : Name,
             apart : BOOLEAN]

\* A schema, its ledger, a row of the ledger, the tables and columns one
\* version of one migrator creates, and V1's tables.
Object == [schema  : Name,
           what    : {"namespace", "ledger", "row", "v1"} \cup Kind,
           version : Version]

At(s, what, version) == [schema |-> s, what |-> what, version |-> version]

Target(k) == IF k = "runtime" THEN settings.state ELSE settings.catalog
V1Schemas == {settings.v1State, settings.v1Catalog}

\* Only schemas that nobody else uses have been prepared or migrated before.
KeptApart ==
    /\ settings.state # settings.catalog
    /\ {settings.state, settings.catalog} \cap V1Schemas = {}

\* What the versions 1..n of a migrator have left in its schema.
Migrated(k, n) ==
    {At(Target(k), "row", v) : v \in 1..n} \cup {At(Target(k), k, v) : v \in 1..n}

\* What an earlier, this or a newer program may have left, or an operator who
\* created the schema by hand.
Found(k, n) ==
    LET namespace == At(Target(k), "namespace", 0)
        ledger    == At(Target(k), "ledger", 0)
    IN  IF n = 0 THEN {{}, {namespace}, {namespace, ledger}}
        ELSE {{namespace, ledger} \cup Migrated(k, n)}

V1Objects == {At(s, "namespace", 0) : s \in V1Schemas} \cup {At(s, "v1", 0) : s \in V1Schemas}

Stage == {"idle", "lock", "schema", "ledger", "read", "apply", "record", "commit"}

-----------------------------------------------------------------------------
(* The programs that look at the settings before anything is migrated.     *)

\* Settings.validate_isolation: both migrate commands call it.
ValidateIsolation(s) ==
    /\ s.apart
    /\ s.state # s.v1State
    /\ s.catalog \notin {s.v1State, s.v1Catalog}
    /\ s.catalog # s.state

\* Mutation: the preflight trusts validate_isolation with V1's catalog schema.
PreflightWithoutV1Catalog(s) ==
    /\ s.apart
    /\ Public \notin {s.state, s.catalog}
    /\ s.state \notin {s.catalog, s.v1State}

\* effective_settings of the installer's preflight.
Preflight(s) ==
    /\ s.apart
    /\ Public \notin {s.state, s.catalog}
    /\ s.state \notin {s.catalog, s.v1State, s.v1Catalog}
    /\ s.catalog \notin {s.v1State, s.v1Catalog}

-----------------------------------------------------------------------------
Init ==
    /\ settings \in Settings
    /\ \/ db = V1Objects
       \/ /\ KeptApart
          /\ \E n \in 0..3, m \in 0..2 :
                \E r \in Found("runtime", n), c \in Found("catalog", m) :
                    db = V1Objects \cup r \cup c
    /\ pending = [p \in Process |-> {}]
    /\ lock = [key \in Name \X Kind |-> NoProcess]
    /\ pc = [p \in Process |-> "idle"]
    /\ kind = [p \in Process |-> "runtime"]
    /\ todo = [p \in Process |-> {}]
    /\ outcome = [p \in Process |-> "none"]

-----------------------------------------------------------------------------
Schema(p) == Target(kind[p])
Key(p)    == <<Schema(p), kind[p]>>

Goto(p, stage) == pc' = [pc EXCEPT ![p] = stage]

\* What a statement of p sees: READ COMMITTED, and its own changes.
Visible(p) == db \cup pending[p]

\* Another open transaction has created the same object.
MustWait(p, object) == \E q \in Process \ {p} : object \in pending[q]

\* The transaction ends, by COMMIT or ROLLBACK: its advisory lock is free.
End(p, result) ==
    /\ Goto(p, "idle")
    /\ outcome' = [outcome EXCEPT ![p] = result]
    /\ pending' = [pending EXCEPT ![p] = {}]
    /\ todo' = [todo EXCEPT ![p] = {}]
    /\ lock' = [key \in DOMAIN lock |-> IF lock[key] = p THEN NoProcess ELSE lock[key]]
    /\ UNCHANGED <<settings, kind>>

\* A statement has worked and the transaction goes on.
Continue(p, stage) ==
    /\ Goto(p, stage)
    /\ UNCHANGED <<settings, db, kind, outcome>>

-----------------------------------------------------------------------------
(* main() of a migrate module and the first lines of migrate(): without    *)
(* isolated settings, no transaction is opened.                            *)
Start(p, k) ==
    /\ pc[p] = "idle"
    /\ kind' = [kind EXCEPT ![p] = k]
    /\ IF ValidateIsolation(settings) /\ Target(k) # settings.v1State
       THEN /\ Goto(p, "lock")
            /\ outcome' = [outcome EXCEPT ![p] = "none"]
       ELSE /\ outcome' = [outcome EXCEPT ![p] = "refused"]
            /\ UNCHANGED pc
    /\ UNCHANGED <<settings, db, lock, pending, todo>>

\* Mutation: the lock belongs to the statement, not to the transaction.
LockForAStatement(p) ==
    /\ pc[p] = "lock"
    /\ lock[Key(p)] = NoProcess
    /\ Continue(p, "schema")
    /\ UNCHANGED <<lock, pending, todo>>

\* SELECT pg_advisory_xact_lock(hashtext(...)).
TakeLock(p) ==
    /\ pc[p] = "lock"
    /\ lock[Key(p)] = NoProcess
    /\ lock' = [lock EXCEPT ![Key(p)] = p]
    /\ Continue(p, "schema")
    /\ UNCHANGED <<pending, todo>>

\* CREATE ... IF NOT EXISTS.
CreateIfMissing(p, stage, object, next) ==
    /\ pc[p] = stage
    /\ ~ MustWait(p, object)
    /\ pending' = [pending EXCEPT ![p] = @ \cup ({object} \ db)]
    /\ Continue(p, next)
    /\ UNCHANGED <<lock, todo>>

CreateSchema(p) == CreateIfMissing(p, "schema", At(Schema(p), "namespace", 0), "ledger")
CreateLedger(p) == CreateIfMissing(p, "ledger", At(Schema(p), "ledger", 0), "read")

\* SELECT version FROM schema_migration.
Existing(p) ==
    {v \in Version : At(Schema(p), "row", v) \in Visible(p)}

ReadLedger(p) ==
    /\ pc[p] = "read"
    /\ LET missing == 1..Latest[kind[p]] \ Existing(p) IN
         IF \E v \in Existing(p) : v > Latest[kind[p]]
         THEN /\ End(p, "refused")
              /\ UNCHANGED db
         ELSE /\ todo' = [todo EXCEPT ![p] = missing]
              /\ Continue(p, IF missing = {} THEN "commit" ELSE "apply")
              /\ UNCHANGED <<lock, pending>>

NextVersion(p) == CHOOSE v \in todo[p] : \A w \in todo[p] : v <= w

\* CREATE TABLE without IF NOT EXISTS; ALTER TABLE needs what version 1 made.
Fits(p, v) ==
    /\ At(Schema(p), kind[p], v) \notin Visible(p)
    /\ v > 1 => At(Schema(p), kind[p], v - 1) \in Visible(p)

ApplyVersion(p) ==
    /\ pc[p] = "apply"
    /\ LET object == At(Schema(p), kind[p], NextVersion(p)) IN
         /\ ~ MustWait(p, object)
         /\ IF Fits(p, NextVersion(p))
            THEN /\ pending' = [pending EXCEPT ![p] = @ \cup {object}]
                 /\ Continue(p, "record")
                 /\ UNCHANGED <<lock, todo>>
            ELSE /\ End(p, "broken")
                 /\ UNCHANGED db

\* INSERT INTO schema_migration, whose primary key is the version.
RecordVersion(p) ==
    /\ pc[p] = "record"
    /\ LET row  == At(Schema(p), "row", NextVersion(p))
           rest == todo[p] \ {NextVersion(p)}
       IN  /\ ~ MustWait(p, row)
           /\ IF row \notin Visible(p)
              THEN /\ pending' = [pending EXCEPT ![p] = @ \cup {row}]
                   /\ todo' = [todo EXCEPT ![p] = rest]
                   /\ Continue(p, IF rest = {} THEN "commit" ELSE "apply")
                   /\ UNCHANGED lock
              ELSE /\ End(p, "broken")
                   /\ UNCHANGED db

\* Mutation: what is created is visible, and stays, before the COMMIT.
FailWithoutRollback(p) ==
    /\ pc[p] # "idle"
    /\ End(p, "lost")
    /\ db' = db \cup pending[p]

\* GRANTs, and the connection block ends.
Commit(p) ==
    /\ pc[p] = "commit"
    /\ db' = db \cup pending[p]
    /\ End(p, "migrated")

\* The connection or the process is lost before the COMMIT.
Fail(p) ==
    /\ pc[p] # "idle"
    /\ End(p, "lost")
    /\ UNCHANGED db

-----------------------------------------------------------------------------
Next ==
    \E p \in Process :
        \/ \E k \in Kind : Start(p, k)
        \/ TakeLock(p)
        \/ CreateSchema(p)
        \/ CreateLedger(p)
        \/ ReadLedger(p)
        \/ ApplyVersion(p)
        \/ RecordVersion(p)
        \/ Commit(p)
        \/ Fail(p)

Spec == Init /\ [][Next]_vars

-----------------------------------------------------------------------------
TypeOK ==
    /\ settings \in Settings
    /\ db \subseteq Object
    /\ pending \in [Process -> SUBSET Object]
    /\ lock \in [Name \X Kind -> Process \cup {NoProcess}]
    /\ pc \in [Process -> Stage]
    /\ kind \in [Process -> Kind]
    /\ todo \in [Process -> SUBSET (1..2)]
    /\ \A p \in Process : pc[p] \in {"apply", "record"} => todo[p] # {}
    /\ outcome \in [Process -> {"none", "refused", "migrated", "lost", "broken"}]

Recorded(k) == {v \in Version : At(Target(k), "row", v) \in db}

(***************************************************************************)
(* A version is recorded exactly when its tables and columns are there:    *)
(* whichever migrators overlap and wherever they are lost, the ledger that *)
(* the services and later migrators trust never promises more or less.     *)
(***************************************************************************)
RowsStandForTables ==
    \A k \in Kind : Recorded(k) = {v \in Version : At(Target(k), k, v) \in db}

(***************************************************************************)
(* No statement of a migration meets what another one has made: CREATE     *)
(* TABLE and ALTER TABLE are not repeatable, so a version must be applied  *)
(* once whoever starts migrators, and a second one finds nothing to do.    *)
(***************************************************************************)
MigrationsDoNotCollide == \A p \in Process : outcome[p] # "broken"

(***************************************************************************)
(* Nothing is created in V1's schemas under settings the installer's       *)
(* preflight accepts.  The migrate commands themselves ask only            *)
(* validate_isolation, which never compares the runtime schema with V1's   *)
(* catalog schema: what it lets through, the preflight has to refuse.      *)
(***************************************************************************)
MigrationsSpareV1 ==
    Preflight(settings) => {o \in db : o.schema \in V1Schemas} = V1Objects

(***************************************************************************)
(* Statement by statement, with any number of processes, a migration is    *)
(* one step from what was recorded to all versions of this program, or no  *)
(* step: what Activation takes it for.                                     *)
(***************************************************************************)
Ledger == INSTANCE SchemaLedger WITH rows <- [k \in Kind |-> Recorded(k)]

IsSchemaLedger == Ledger!Spec
=============================================================================
