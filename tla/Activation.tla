----------------------------- MODULE Activation -----------------------------
(***************************************************************************)
(* Installing V2 next to V1: the deployment script stops a V2 that is up,  *)
(* then scripts/activate_rolemodel_v2_server.py migrates, shows what it    *)
(* would publish, asks, publishes, restarts V2 and looks at both services. *)
(*                                                                         *)
(* Every step is a process of its own, so V1 may activate another          *)
(* snapshot, go down, or the connection to the script may be lost between  *)
(* any two of them, and the operator may start over.  The catalog is       *)
(* CatalogHistory, a release is named after the snapshot it comes from;    *)
(* the migrators are the steps of SchemaLedger.                            *)
(* `systemctl stop' is taken to work: where the activation gives V2 up,    *)
(* nobody looks at its result.                                             *)
(***************************************************************************)
EXTENDS Naturals, Sequences, FiniteSetsExt

CONSTANTS
    Snapshot,     \* active snapshots V1 may have
    NoSnapshot,   \* nothing shown, nothing published
    MaxAttempts,  \* health_attempts
    MaxFaults     \* bound on the failures of commands and services

ASSUME ActivationAssumption ==
    /\ NoSnapshot \notin Snapshot
    /\ MaxAttempts \in Nat \ {0}
    /\ MaxFaults \in Nat

VARIABLES
    v1Healthy,   \* V1 answers on its health endpoint
    v1Snapshot,  \* the active snapshot of V1
    rows,        \* schema_migration of each V2 schema
    history,     \* the releases published to V2 (CatalogHistory)
    runtimeEnv,  \* .env.runtime has been written
    v2,          \* the V2 service
    pc,          \* the next step of the activation script
    shown,       \* the snapshot the dry run has shown
    approved,    \* the snapshots an operator has approved with PUBLISH
    attempts,    \* health checks of V2 so far
    outcome,     \* how the last activation ended
    disturbed,   \* a fault, a refusal or a change of V1 since it began
    faults       \* failures so far

vars == <<v1Healthy, v1Snapshot, rows, history, runtimeEnv, v2, pc, shown,
          approved, attempts, outcome, disturbed, faults>>

world == <<v1Healthy, v1Snapshot>>
target == <<rows, history, runtimeEnv, v2>>

Schema == {"runtime", "catalog"}

\* LATEST_SCHEMA_VERSION and LATEST_CATALOG_SCHEMA_VERSION.
Latest == [runtime |-> 2, catalog |-> 1]

\* What is there before the first activation: nothing, the tables of an
\* earlier program, or those of a newer one.
Found == [runtime |-> {{}, 1..1, 1..3}, catalog |-> {{}, 1..2}]

Catalog == INSTANCE CatalogHistory WITH
              Version <- Snapshot, Document <- Snapshot, NoVersion <- NoSnapshot

Ledger == INSTANCE SchemaLedger

Step == {"idle", "configure", "check_v1", "migrate_runtime", "migrate_catalog", "dry_run",
         "confirm", "publish", "write_env", "restart", "wait_v2", "recheck_v1"}

Init ==
    /\ v1Healthy = TRUE
    /\ v1Snapshot \in Snapshot
    /\ \E r \in Found.runtime, c \in Found.catalog : rows = [runtime |-> r, catalog |-> c]
    /\ history = <<>>
    /\ runtimeEnv = FALSE
    /\ v2 = "stopped"
    /\ pc = "idle"
    /\ shown = NoSnapshot
    /\ approved = {}
    /\ attempts = 0
    /\ outcome = "none"
    /\ disturbed = FALSE
    /\ faults = 0

-----------------------------------------------------------------------------
(* The world around the script.                                            *)
Fault == faults < MaxFaults /\ faults' = faults + 1

V1Changes ==
    /\ \/ Fault /\ v1Healthy' = ~ v1Healthy /\ UNCHANGED v1Snapshot
       \/ /\ \E s \in Snapshot \ {v1Snapshot} : v1Snapshot' = s
          /\ UNCHANGED <<v1Healthy, faults>>
    /\ disturbed' = TRUE
    /\ UNCHANGED <<target, pc, shown, approved, attempts, outcome>>

Highest(schema) == Max({0} \cup rows[schema])

\* verify_ready: the highest version is the one this program was written for.
CatalogReady == Highest("catalog") = Latest.catalog
RuntimeReady == Highest("runtime") = Latest.runtime

\* build_runtime and the lifespan: both schemas verified, an active release.
MayServe == CatalogReady /\ RuntimeReady /\ history # <<>> /\ runtimeEnv

ServiceComesUp ==
    /\ v2 = "starting"
    /\ MayServe
    /\ v2' = "running"
    /\ UNCHANGED <<world, rows, history, runtimeEnv, pc, shown, approved,
                   attempts, outcome, disturbed, faults>>

\* The process ends; systemd starts it again (Restart=on-failure).
ServiceCrashes ==
    /\ v2 = "running"
    /\ Fault
    /\ v2' = "starting"
    /\ disturbed' = TRUE
    /\ UNCHANGED <<world, rows, history, runtimeEnv, pc, shown, approved,
                   attempts, outcome>>

-----------------------------------------------------------------------------
(* The script.                                                             *)
End(result) == pc' = "idle" /\ outcome' = result

\* The next step, or a command that fails: ActivationError.
Run(step, next) ==
    /\ pc = step
    /\ pc' = next
    /\ UNCHANGED <<outcome, faults, disturbed>>

CommandFails ==
    /\ pc \in {"configure", "migrate_runtime", "migrate_catalog", "dry_run",
              "publish", "write_env", "restart"}
    /\ Fault
    /\ disturbed' = TRUE
    /\ End("failed")
    /\ UNCHANGED <<world, target, shown, approved, attempts>>

\* deploy_rolemodel_v2_remote.sh stops V2 if `is-active' says that it is up; one
\* that systemd is about to start again is not, and stays as it is.
Deploy ==
    /\ pc = "idle"
    /\ \/ v2' = "stopped"
       \/ v2 = "starting" /\ UNCHANGED v2
    /\ pc' = "configure"
    /\ outcome' = "none"
    /\ disturbed' = FALSE
    /\ UNCHANGED <<world, rows, history, runtimeEnv, shown, approved, attempts, faults>>

\* The operator runs the activation alone.
Activate ==
    /\ pc = "idle"
    /\ pc' = "configure"
    /\ outcome' = "none"
    /\ disturbed' = FALSE
    /\ UNCHANGED <<world, target, shown, approved, attempts, faults>>

\* .env and the files it names are read and checked; what is wrong with them is
\* a CommandFails.
LoadConfiguration ==
    /\ Run("configure", "check_v1")
    /\ UNCHANGED <<world, target, shown, approved, attempts>>

CheckV1 ==
    /\ pc = "check_v1"
    /\ \/ v1Healthy /\ pc' = "migrate_runtime" /\ UNCHANGED <<outcome, disturbed>>
       \/ ~ v1Healthy /\ End("failed") /\ disturbed' = TRUE
    /\ UNCHANGED <<world, target, shown, approved, attempts, faults>>

\* A migrator, as SchemaLedger promises and Migrator shows: all versions, or
\* SchemaNotReady or a failure (CommandFails) and none.
Migrate(schema, step, next) ==
    /\ pc = step
    /\ \/ /\ Ledger!Upgrade(schema)
          /\ pc' = next
          /\ UNCHANGED <<outcome, disturbed>>
       \/ /\ Ledger!Unsupported(schema) # {}
          /\ End("failed")
          /\ disturbed' = TRUE
          /\ UNCHANGED rows
    /\ UNCHANGED <<world, history, runtimeEnv, v2, shown, approved, attempts, faults>>

MigrateRuntime == Migrate("runtime", "migrate_runtime", "migrate_catalog")
MigrateCatalog == Migrate("catalog", "migrate_catalog", "dry_run")

\* Mutation: a report that has been shown before is shown again.
DryRunOnce ==
    /\ Run("dry_run", "confirm")
    /\ shown' = IF shown = NoSnapshot THEN v1Snapshot ELSE shown
    /\ UNCHANGED <<world, target, approved, attempts>>

\* publish --dry-run in a process of its own: extract and report.
DryRun ==
    /\ Run("dry_run", "confirm")
    /\ shown' = v1Snapshot
    /\ UNCHANGED <<world, target, approved, attempts>>

Confirm ==
    /\ Run("confirm", "publish")
    /\ approved' = approved \cup {shown}
    /\ UNCHANGED <<world, target, shown, attempts>>

Decline ==
    /\ pc = "confirm"
    /\ End("declined")
    /\ disturbed' = TRUE
    /\ UNCHANGED <<world, target, shown, approved, attempts, faults>>

\* publish in another process extracts again; a version is published once.
PublishSnapshot ==
    /\ pc = "publish"
    /\ \/ /\ Catalog!Publish(v1Snapshot, v1Snapshot)
          /\ pc' = "write_env"
          /\ UNCHANGED outcome
       \/ /\ v1Snapshot \in Catalog!Published
          /\ End("failed")
          /\ UNCHANGED history
    /\ UNCHANGED <<world, rows, runtimeEnv, v2, shown, approved, attempts,
                   disturbed, faults>>

WriteRuntimeEnv ==
    /\ Run("write_env", "restart")
    /\ runtimeEnv' = TRUE
    /\ UNCHANGED <<world, rows, history, v2, shown, approved, attempts>>

RestartV2 ==
    /\ Run("restart", "wait_v2")
    /\ v2' = "starting"
    /\ attempts' = 0
    /\ UNCHANGED <<world, rows, history, runtimeEnv, shown, approved>>

\* Mutation: the loop does not count its attempts.
KeepWaiting == UNCHANGED attempts

CountAttempt == attempts' = attempts + 1

\* Mutation: a V2 that does not come up is left to systemd.
LeaveV2 == UNCHANGED v2

StopV2 == v2' = "stopped"

\* A slow service is a disturbance too.
WaitForV2 ==
    /\ pc = "wait_v2"
    /\ attempts < MaxAttempts
    /\ \/ v2 = "running" /\ pc' = "recheck_v1" /\ UNCHANGED <<v2, outcome, attempts, disturbed>>
       \/ /\ v2 # "running" /\ CountAttempt
          /\ disturbed' = TRUE
          /\ \/ attempts + 1 < MaxAttempts /\ UNCHANGED <<v2, pc, outcome>>
             \/ attempts + 1 = MaxAttempts /\ StopV2 /\ End("not_started")
    /\ UNCHANGED <<world, rows, history, runtimeEnv, shown, approved, faults>>

RecheckV1 ==
    /\ pc = "recheck_v1"
    /\ \/ v1Healthy /\ End("activated") /\ UNCHANGED v2
       \/ ~ v1Healthy /\ StopV2 /\ End("not_started")
    /\ UNCHANGED <<world, rows, history, runtimeEnv, shown, approved, attempts,
                   disturbed, faults>>

\* A command that has taken effect fails: the answer to its COMMIT is lost.
CommandFailsLate ==
    /\ Fault
    /\ disturbed' = TRUE
    /\ End("failed")
    /\ \/ /\ \/ pc = "migrate_runtime" /\ Ledger!Upgrade("runtime")
             \/ pc = "migrate_catalog" /\ Ledger!Upgrade("catalog")
          /\ UNCHANGED <<history, v2>>
       \/ pc = "publish" /\ Catalog!Publish(v1Snapshot, v1Snapshot) /\ UNCHANGED <<rows, v2>>
       \/ pc = "restart" /\ v2' = "starting" /\ UNCHANGED <<rows, history>>
    /\ UNCHANGED <<world, runtimeEnv, shown, approved, attempts>>

\* Ctrl-C, or the SSH connection is lost.
Interrupt ==
    /\ pc # "idle"
    /\ Fault
    /\ disturbed' = TRUE
    /\ End("interrupted")
    /\ UNCHANGED <<world, target, shown, approved, attempts>>

-----------------------------------------------------------------------------
ScriptStep ==
    \/ LoadConfiguration
    \/ CheckV1
    \/ MigrateRuntime
    \/ MigrateCatalog
    \/ DryRun
    \/ Confirm
    \/ Decline
    \/ PublishSnapshot
    \/ WriteRuntimeEnv
    \/ RestartV2
    \/ WaitForV2
    \/ RecheckV1

Next ==
    \/ Deploy
    \/ Activate
    \/ ScriptStep
    \/ CommandFails
    \/ CommandFailsLate
    \/ Interrupt
    \/ V1Changes
    \/ ServiceComesUp
    \/ ServiceCrashes

Spec == Init /\ [][Next]_vars

\* The script runs on, and the operator answers its question.
FairSpec == Spec /\ WF_vars(ScriptStep)

-----------------------------------------------------------------------------
Publication == [version  : Snapshot, document : Snapshot,
                previous : Snapshot \cup {NoSnapshot}]

TypeOK ==
    /\ v1Healthy \in BOOLEAN
    /\ v1Snapshot \in Snapshot
    /\ rows \in [Schema -> SUBSET (1..3)]
    /\ history \in Seq(Publication)
    /\ runtimeEnv \in BOOLEAN
    /\ v2 \in {"stopped", "starting", "running"}
    /\ pc \in Step
    /\ shown \in Snapshot \cup {NoSnapshot}
    /\ approved \subseteq Snapshot
    /\ attempts \in 0..MaxAttempts
    /\ outcome \in {"none", "failed", "declined", "not_started", "interrupted", "activated"}
    /\ disturbed \in BOOLEAN
    /\ faults \in 0..MaxFaults

(***************************************************************************)
(* An activation that gave V2 up after starting it leaves it stopped; it   *)
(* does not come back by itself, although systemd restarts what crashes.   *)
(***************************************************************************)
NothingUnprovenRuns == (pc = "idle" /\ outcome = "not_started") => v2 = "stopped"

(***************************************************************************)
(* As long as V1 keeps its snapshot, the release an activation publishes   *)
(* is the one its operator has just seen and approved, also after earlier  *)
(* activations that were declined, interrupted or for other snapshots.     *)
(***************************************************************************)
QuietPublicationIsApproved ==
    (pc = "write_env" /\ ~ disturbed) =>
        Catalog!Pointer = shown /\ shown \in approved

(***************************************************************************)
(* A schema newer than this program is left alone: the publisher checks no *)
(* version, what protects a newer catalog is that both migrators refuse    *)
(* before it and nothing skips them, in any later activation either.       *)
(***************************************************************************)
NewerSchemaIsLeftAlone ==
    [][(\E schema \in Schema : Highest(schema) > Latest[schema]) =>
           history' = history]_vars

-----------------------------------------------------------------------------
(* What the script may rely on at its steps.                               *)

\* Past its migrator, a schema has no version this program does not know.
SchemasAreMigrated ==
    /\ pc \in {"migrate_catalog", "dry_run", "confirm", "publish"} =>
          Ledger!Unsupported("runtime") = {}
    /\ pc \in {"dry_run", "confirm", "publish"} => Ledger!Unsupported("catalog") = {}

\* The report of this run stands on the screen, and is up to date if nothing happened.
ReportIsShown ==
    /\ pc = "confirm" => shown \in Snapshot
    /\ (pc \in {"confirm", "publish"} /\ ~ disturbed) => shown = v1Snapshot
    /\ pc \in {"publish", "write_env"} => shown \in approved

ActivationInv ==
    /\ TypeOK
    /\ SchemasAreMigrated
    /\ ReportIsShown
    /\ NothingUnprovenRuns
    /\ QuietPublicationIsApproved

-----------------------------------------------------------------------------
\* A script whose operator answers ends; its wait for V2 is bounded.
ActivationEnds == pc # "idle" ~> pc = "idle"

-----------------------------------------------------------------------------
\* docs/deployment-postgresql.md:63: the active V2 catalog version corresponds
\* to the approved source.
PublishedWasApproved == Catalog!Published \subseteq approved

=============================================================================
