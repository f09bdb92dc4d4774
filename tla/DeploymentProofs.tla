--------------------------- MODULE DeploymentProofs ---------------------------
(***************************************************************************)
(* The two scripts of a deployment: the certificate step keeps what is in  *)
(* service and undoes one failure, for any number of runs and of failures; *)
(* the activation publishes what it has shown and leaves running what it   *)
(* has seen run, for any set of snapshots and any number of faults.        *)
(***************************************************************************)
EXTENDS Activation, PrepareCerts, TLAPS

-----------------------------------------------------------------------------
(* The certificates.                                                       *)

\* The certificates of a run are no empty place.
LEMMA NewIsSomething == \A w \in Source : Dir(run, w) # None
  BY DEF Source, Dir, None

LEMMA CertsStart == CertsInit => CertsInv
  BY DEF CertsInit, CertsInv, OneInstallSurvives, ForwardIsReady, UndoIsReady, UndoIsEnding,
         Forward, Undo, Finally

\* A new run begins: what the former one has set aside becomes litter.
LEMMA StartKeeps == CertsInv /\ Start => CertsInv'
  <1> SUFFICES ASSUME CertsInv, Start PROVE CertsInv'
    OBVIOUS
  <1>1. OneInstallSurvives'
    BY DEF Start, CertsInv, OneInstallSurvives
  <1>2. ForwardIsReady'
    BY DEF Start, ForwardIsReady, Forward, None
  <1>3. (wanted \in Source /\ before = <<before[1], before[2]>>)' /\ UndoIsReady' /\ UndoIsEnding'
    BY DEF Start, UndoIsReady, UndoIsEnding, Undo, Finally
  <1> QED
    BY <1>1, <1>2, <1>3 DEF CertsInv

\* The operations in their order.
LEMMA ForwardKeeps ==
    CertsInv /\ (Stage \/ WriteEnv \/ MoveAway \/ MoveIn \/ ReplaceEnv \/ DropBackup)
        => CertsInv'
  <1> SUFFICES ASSUME CertsInv, Stage \/ WriteEnv \/ MoveAway \/ MoveIn \/ ReplaceEnv \/ DropBackup
               PROVE  CertsInv'
    OBVIOUS
  <1> USE DEF CertsInv, ForwardIsReady, OneInstallSurvives, UndoIsReady, UndoIsEnding,
              Forward, Undo, Finally, At
  <1>1. CASE Stage
    BY <1>1 DEF Stage, New, Dir, None
  <1>2. CASE WriteEnv
    BY <1>2 DEF WriteEnv, New
  <1>3. CASE MoveAway
    BY <1>3 DEF MoveAway, New, SetAside
  <1>4. CASE MoveIn
    BY <1>4 DEF MoveIn, New, SetAside
  <1>5. CASE ReplaceEnv
    BY <1>5 DEF ReplaceEnv, New, Installed
  <1>6. CASE DropBackup
    BY <1>6 DEF DropBackup, Remove, New, Installed
  <1> QED
    BY <1>1, <1>2, <1>3, <1>4, <1>5, <1>6

\* The undo of a replacement that has failed, and "finally".
LEMMA UndoKeeps ==
    CertsInv /\ (UndoInstall \/ UndoBackup \/ CleanStaging \/ CleanEnv \/ RestoreBackup)
        => CertsInv'
  <1> SUFFICES ASSUME CertsInv, UndoInstall \/ UndoBackup \/ CleanStaging \/ CleanEnv \/ RestoreBackup
               PROVE  CertsInv'
    OBVIOUS
  <1> USE DEF CertsInv, ForwardIsReady, OneInstallSurvives, UndoIsReady, UndoIsEnding,
              Forward, Undo, Finally, At
  <1>1. CASE UndoInstall
    BY <1>1 DEF UndoInstall, Remove, SetAside
  <1>2. CASE UndoBackup
    BY <1>2 DEF UndoBackup, SetAside
  <1>3. CASE CleanStaging
    <2>1. op = "cleanStaging" /\ op' \in {"cleanStaging", "cleanEnv"}
      BY <1>3 DEF CleanStaging, Remove
    <2>2. op' = "cleanEnv" => staging' = None
      BY <1>3 DEF CleanStaging, Remove
    <2>3. staging = None => staging' = None
      BY <1>3 DEF CleanStaging, Remove, None
    <2> QED
      BY <1>3, <2>1, <2>2, <2>3 DEF CleanStaging, Installed, New
  <1>4. CASE CleanEnv
    BY <1>4 DEF CleanEnv, Installed, New
  <1>5. CASE RestoreBackup
    BY <1>5, NewIsSomething DEF RestoreBackup, Ending, Installed, New
  <1> QED
    BY <1>1, <1>2, <1>3, <1>4, <1>5

\* An operation fails or the process is killed; the disk is as it was.
LEMMA FailureKeeps == CertsInv /\ (OperationFails \/ Kill) => CertsInv'
  <1> SUFFICES ASSUME CertsInv, OperationFails \/ Kill PROVE CertsInv'
    OBVIOUS
  <1> USE DEF CertsInv, ForwardIsReady, OneInstallSurvives, UndoIsReady, UndoIsEnding,
              Forward, Undo, Finally, disk
  <1>1. CASE OperationFails
    BY <1>1 DEF OperationFails, Handler, Running, Installed, New, SetAside
  <1>2. CASE Kill
    BY <1>2 DEF Kill
  <1> QED
    BY <1>1, <1>2

(***************************************************************************)
(* What the two properties rest on holds at every operation of every run   *)
(* (prepare_gigachat_certs.py:236-285).                                    *)
(***************************************************************************)
THEOREM CertsInvariant == CertsSpec => []CertsInv
  <1>1. CertsInv /\ [CertsNext]_certsVars => CertsInv'
    <2> SUFFICES ASSUME CertsInv, [CertsNext]_certsVars PROVE CertsInv'
      OBVIOUS
    <2>1. CASE CertsNext
      BY <2>1, StartKeeps, ForwardKeeps, UndoKeeps, FailureKeeps DEF CertsNext
    <2>2. CASE UNCHANGED certsVars
      BY <2>2 DEF certsVars, disk, CertsInv, ForwardIsReady, OneInstallSurvives, UndoIsReady,
                  UndoIsEnding, SetAside, Installed, New
    <2> QED
      BY <2>1, <2>2
  <1> QED
    BY CertsStart, <1>1, PTL DEF CertsSpec

(***************************************************************************)
(* The certificates that .env was last written for survive every failure   *)
(* and every kill (prepare_gigachat_certs.py:236-285).                     *)
(***************************************************************************)
THEOREM InstallSurvives == CertsSpec => []OneInstallSurvives
  BY CertsInvariant, PTL DEF CertsInv

(***************************************************************************)
(* One operation that fails leaves the disk as the run has found it        *)
(* (prepare_gigachat_certs.py:239-285).                                    *)
(***************************************************************************)
THEOREM OneFailureIsUndone == CertsSpec => []FailureIsUndone
  <1>1. CertsInv => FailureIsUndone
    BY DEF CertsInv, UndoIsEnding, FailureIsUndone, Finally, None
  <1> QED
    BY CertsInvariant, <1>1, PTL

-----------------------------------------------------------------------------
(* The activation.                                                         *)

\* A publication makes the history longer by what V1 has, and the pointer names it.
LEMMA PublishedIsNewest ==
    ASSUME TypeOK, Catalog!Publish(v1Snapshot, v1Snapshot)
    PROVE  /\ history' \in Seq(Publication)
           /\ Catalog!Pointer' = v1Snapshot
  <1> DEFINE new == [version |-> v1Snapshot, document |-> v1Snapshot,
                     previous |-> Catalog!Pointer]
  <1>1. history \in Seq(Publication) /\ v1Snapshot \in Snapshot
    BY DEF TypeOK
  <1>2. Catalog!Pointer \in Snapshot \cup {NoSnapshot}
    <2>1. CASE history = <<>>
      BY <2>1 DEF Catalog!Pointer
    <2>2. CASE history # <<>>
      <3>1. history[Len(history)] \in Publication
        BY <1>1, <2>2
      <3> QED
        BY <2>2, <3>1 DEF Catalog!Pointer, Publication
    <2> QED
      BY <2>1, <2>2
  <1>3. new \in Publication /\ new.version = v1Snapshot
    BY <1>1, <1>2 DEF Publication
  <1>4. history' = Append(history, new)
    BY DEF Catalog!Publish
  <1> HIDE DEF new
  <1>5. /\ history' \in Seq(Publication)
        /\ history' # <<>>
        /\ history'[Len(history')] = new
    BY <1>1, <1>3, <1>4
  <1> QED
    BY <1>3, <1>5 DEF Catalog!Pointer

\* An upgrade adds versions this program knows, to one schema.
LEMMA UpgradeKeeps ==
    ASSUME rows \in [Schema -> SUBSET (1..3)], NEW schema \in Schema, Ledger!Upgrade(schema)
    PROVE  /\ rows' \in [Schema -> SUBSET (1..3)]
           /\ Ledger!Unsupported(schema)' = {}
           /\ \A other \in Schema : Ledger!Unsupported(other) = {} => Ledger!Unsupported(other)' = {}
  <1>1. Latest[schema] \in 1..2
    BY DEF Latest, Schema
  <1>2. rows' = [rows EXCEPT ![schema] = rows[schema] \cup 1..Latest[schema]]
    BY DEF Ledger!Upgrade, Ledger!ApplyMissing
  <1>3. rows' \in [Schema -> SUBSET (1..3)]
    BY <1>1, <1>2
  <1>4. \A v \in rows[schema] \cup 1..Latest[schema] : ~ (v > Latest[schema])
    BY <1>1 DEF Ledger!Upgrade, Ledger!Unsupported
  <1>5. rows'[schema] = rows[schema] \cup 1..Latest[schema]
    BY <1>2
  <1>6. Ledger!Unsupported(schema)' = {}
    BY <1>4, <1>5 DEF Ledger!Unsupported
  <1>7. \A other \in Schema \ {schema} : rows'[other] = rows[other]
    BY <1>2
  <1> QED
    BY <1>3, <1>6, <1>7 DEF Ledger!Unsupported

\* Where no version is newer than this program, the highest one is not.
LEMMA NothingNewer ==
    ASSUME rows \in [Schema -> SUBSET (1..3)], NEW schema \in Schema,
           Ledger!Unsupported(schema) = {}
    PROVE  ~ (Highest(schema) > Latest[schema])
  <1> DEFINE V == {0} \cup rows[schema]
  <1>1. V \subseteq 0..3 /\ 0 \in V /\ Latest[schema] \in 1..2
    BY DEF Latest, Schema
  <1>2. \A v \in V : v <= Latest[schema]
    BY <1>1 DEF Ledger!Unsupported
  <1>3. \E x \in V : \A y \in V : x >= y
    <2> HIDE DEF V
    <2> QED
      BY <1>1
  <1>4. Highest(schema) \in V
    BY <1>3 DEF Highest, Max
  <1> QED
    BY <1>1, <1>2, <1>4

-----------------------------------------------------------------------------
LEMMA ActivationStarts == Init => ActivationInv
  <1> SUFFICES ASSUME Init PROVE ActivationInv
    OBVIOUS
  <1>1. rows \in [Schema -> SUBSET (1..3)]
    BY DEF Init, Found, Schema
  <1>2. history \in Seq(Publication)
    BY DEF Init
  <1>3. attempts \in 0..MaxAttempts /\ faults \in 0..MaxFaults
    BY ActivationAssumption DEF Init
  <1>4. v1Healthy \in BOOLEAN /\ runtimeEnv \in BOOLEAN /\ disturbed \in BOOLEAN
    BY DEF Init
  <1>5. TypeOK
    BY <1>1, <1>2, <1>3, <1>4 DEF Init, TypeOK, Step
  <1> QED
    BY <1>5 DEF Init, ActivationInv, SchemasAreMigrated, ReportIsShown, NothingUnprovenRuns,
                QuietPublicationIsApproved

-----------------------------------------------------------------------------
(* Every step keeps the invariant.                                         *)

\* The world goes on, and V2 with it, or a new activation begins.
LEMMA AroundKeeps ==
    ActivationInv /\ (Deploy \/ Activate \/ V1Changes \/ ServiceComesUp \/ ServiceCrashes)
        => ActivationInv'
  <1> SUFFICES ASSUME ActivationInv,
                      Deploy \/ Activate \/ V1Changes \/ ServiceComesUp \/ ServiceCrashes
               PROVE  ActivationInv'
    OBVIOUS
  <1> USE ActivationAssumption
      DEF ActivationInv, TypeOK, Step, SchemasAreMigrated, ReportIsShown,
          NothingUnprovenRuns, QuietPublicationIsApproved, Fault, world, target,
          Ledger!Unsupported, Catalog!Pointer
  <1>1. CASE Deploy
    BY <1>1 DEF Deploy
  <1>2. CASE Activate
    BY <1>2 DEF Activate
  <1>3. CASE V1Changes
    <2>1. v1Healthy' \in BOOLEAN /\ disturbed' = TRUE /\ v1Snapshot' \in Snapshot
      BY <1>3 DEF V1Changes
    <2>2. faults' \in 0..MaxFaults
      BY <1>3 DEF V1Changes
    <2>3. UNCHANGED <<target, pc, shown, approved, attempts, outcome>>
      BY <1>3 DEF V1Changes
    <2> QED
      BY <2>1, <2>2, <2>3
  <1>4. CASE ServiceComesUp
    BY <1>4 DEF ServiceComesUp
  <1>5. CASE ServiceCrashes
    BY <1>5 DEF ServiceCrashes
  <1> QED
    BY <1>1, <1>2, <1>3, <1>4, <1>5

\* The steps that leave the schemas and the history alone.
LEMMA QuietStepKeeps ==
    ActivationInv /\ (\/ LoadConfiguration \/ CheckV1 \/ DryRun \/ Confirm \/ Decline
                      \/ WriteRuntimeEnv \/ RestartV2 \/ WaitForV2 \/ RecheckV1)
        => ActivationInv'
  <1> SUFFICES ASSUME ActivationInv,
                      \/ LoadConfiguration \/ CheckV1 \/ DryRun \/ Confirm \/ Decline
                      \/ WriteRuntimeEnv \/ RestartV2 \/ WaitForV2 \/ RecheckV1
               PROVE  ActivationInv'
    OBVIOUS
  <1> USE ActivationAssumption
      DEF ActivationInv, TypeOK, Step, SchemasAreMigrated, ReportIsShown,
          NothingUnprovenRuns, QuietPublicationIsApproved, Run, End, world, target,
          Ledger!Unsupported, Catalog!Pointer
  <1>1. CASE LoadConfiguration
    BY <1>1 DEF LoadConfiguration
  <1>2. CASE CheckV1
    BY <1>2 DEF CheckV1
  <1>3. CASE DryRun
    BY <1>3 DEF DryRun
  <1>4. CASE Confirm
    BY <1>4 DEF Confirm
  <1>5. CASE Decline
    BY <1>5 DEF Decline
  <1>6. CASE WriteRuntimeEnv
    BY <1>6 DEF WriteRuntimeEnv
  <1>7. CASE RestartV2
    BY <1>7 DEF RestartV2
  <1>8. CASE WaitForV2
    <2>1. UNCHANGED <<world, rows, history, runtimeEnv, shown, approved, faults>> /\ pc = "wait_v2"
      BY <1>8 DEF WaitForV2
    <2>2. CASE v2 = "running" /\ pc' = "recheck_v1" /\ UNCHANGED <<v2, outcome, attempts, disturbed>>
      BY <2>1, <2>2
    <2>3. CASE v2 # "running"
      <3>1. attempts' \in 0..MaxAttempts /\ disturbed' = TRUE
        BY <1>8, <2>3 DEF WaitForV2, CountAttempt
      <3>2. \/ UNCHANGED <<v2, pc, outcome>>
            \/ v2' = "stopped" /\ pc' = "idle" /\ outcome' = "not_started"
        BY <1>8, <2>3 DEF WaitForV2, StopV2
      <3> QED
        BY <2>1, <3>1, <3>2
    <2> QED
      BY <1>8, <2>2, <2>3 DEF WaitForV2
  <1>9. CASE RecheckV1
    BY <1>9 DEF RecheckV1, StopV2
  <1> QED
    BY <1>1, <1>2, <1>3, <1>4, <1>5, <1>6, <1>7, <1>8, <1>9

\* A migrator lets the script on when its schema has nothing unknown, and
\* what it adds to one schema leaves the other as it was.
LEMMA MigrationKeeps ==
    ActivationInv /\ (MigrateRuntime \/ MigrateCatalog) => ActivationInv'
  <1> SUFFICES ASSUME ActivationInv, MigrateRuntime \/ MigrateCatalog PROVE ActivationInv'
    OBVIOUS
  <1>1. rows \in [Schema -> SUBSET (1..3)] /\ {"runtime", "catalog"} = Schema
    BY DEF ActivationInv, TypeOK, Schema
  <1> USE DEF ActivationInv, TypeOK, Step, SchemasAreMigrated, ReportIsShown,
              NothingUnprovenRuns, QuietPublicationIsApproved, Migrate, End, world,
              Catalog!Pointer
  <1>2. CASE MigrateRuntime /\ Ledger!Upgrade("runtime")
    BY <1>1, <1>2, UpgradeKeeps DEF MigrateRuntime
  <1>3. CASE MigrateCatalog /\ Ledger!Upgrade("catalog")
    BY <1>1, <1>3, UpgradeKeeps DEF MigrateCatalog
  <1>4. CASE MigrateRuntime /\ Ledger!Unsupported("runtime") # {} /\ UNCHANGED rows /\ End("failed")
    BY <1>4 DEF MigrateRuntime
  <1>5. CASE MigrateCatalog /\ Ledger!Unsupported("catalog") # {} /\ UNCHANGED rows /\ End("failed")
    BY <1>5 DEF MigrateCatalog
  <1> QED
    BY <1>2, <1>3, <1>4, <1>5 DEF MigrateRuntime, MigrateCatalog

\* What is published is what V1 has now; if nothing happened since the report,
\* that is what the report has shown.
LEMMA PublicationKeeps == ActivationInv /\ PublishSnapshot => ActivationInv'
  <1> SUFFICES ASSUME ActivationInv, PublishSnapshot PROVE ActivationInv'
    OBVIOUS
  <1> USE DEF ActivationInv, SchemasAreMigrated, ReportIsShown, NothingUnprovenRuns,
              QuietPublicationIsApproved, PublishSnapshot, world
  <1>1. CASE Catalog!Publish(v1Snapshot, v1Snapshot) /\ pc' = "write_env" /\ UNCHANGED outcome
    <2>1. history' \in Seq(Publication) /\ Catalog!Pointer' = v1Snapshot
      BY <1>1, PublishedIsNewest
    <2>2. TypeOK'
      BY <1>1, <2>1 DEF TypeOK, Step
    <2> QED
      BY <1>1, <2>1, <2>2
  <1>2. CASE End("failed") /\ UNCHANGED history
    BY <1>2 DEF End, TypeOK, Step
  <1> QED
    BY <1>1, <1>2

\* A command fails, before it has done anything or after all of it; or the
\* operator leaves.
LEMMA CommandFailureKeeps ==
    ActivationInv /\ (CommandFails \/ CommandFailsLate \/ Interrupt) => ActivationInv'
  <1> SUFFICES ASSUME ActivationInv, CommandFails \/ CommandFailsLate \/ Interrupt
               PROVE  ActivationInv'
    OBVIOUS
  <1>1. /\ pc' = "idle" /\ outcome' \in {"failed", "interrupted"} /\ disturbed' = TRUE
        /\ faults < MaxFaults /\ faults' = faults + 1
        /\ UNCHANGED <<world, runtimeEnv, shown, approved, attempts>>
    BY DEF CommandFails, CommandFailsLate, Interrupt, End, Fault, target
  <1>2. rows \in [Schema -> SUBSET (1..3)] /\ {"runtime", "catalog"} = Schema
    BY DEF ActivationInv, TypeOK, Schema
  <1>3. rows' \in [Schema -> SUBSET (1..3)]
    <2>1. \/ UNCHANGED rows
          \/ Ledger!Upgrade("runtime") \/ Ledger!Upgrade("catalog")
      BY DEF CommandFails, CommandFailsLate, Interrupt, target
    <2> QED
      BY <1>2, <2>1, UpgradeKeeps
  <1>4. history' \in Seq(Publication)
    <2>1. UNCHANGED history \/ Catalog!Publish(v1Snapshot, v1Snapshot)
      BY DEF CommandFails, CommandFailsLate, Interrupt, target
    <2> QED
      BY <2>1, PublishedIsNewest DEF ActivationInv, TypeOK
  <1>5. v2' \in {v2, "starting"}
    BY DEF CommandFails, CommandFailsLate, Interrupt, target
  <1>6. TypeOK'
    BY <1>1, <1>3, <1>4, <1>5, ActivationAssumption DEF ActivationInv, TypeOK, Step, world
  <1> QED
    BY <1>1, <1>6 DEF ActivationInv, SchemasAreMigrated, ReportIsShown, NothingUnprovenRuns,
                      QuietPublicationIsApproved

(***************************************************************************)
(* What the script relies on at its steps holds whenever it is run and     *)
(* whatever disturbs it (activate_rolemodel_v2_server.py:297-379).         *)
(***************************************************************************)
THEOREM ActivationInvariant == Spec => []ActivationInv
  <1>1. ActivationInv /\ [Next]_vars => ActivationInv'
    <2> SUFFICES ASSUME ActivationInv, [Next]_vars PROVE ActivationInv'
      OBVIOUS
    <2>1. CASE Next
      BY <2>1, AroundKeeps, QuietStepKeeps, MigrationKeeps, PublicationKeeps,
         CommandFailureKeeps DEF Next, ScriptStep
    <2>2. CASE UNCHANGED vars
      BY <2>2 DEF vars, ActivationInv, TypeOK, SchemasAreMigrated, ReportIsShown,
                  NothingUnprovenRuns, QuietPublicationIsApproved, Ledger!Unsupported,
                  Catalog!Pointer
    <2> QED
      BY <2>1, <2>2
  <1> QED
    BY ActivationStarts, <1>1, PTL DEF Spec

(***************************************************************************)
(* A V2 that was started and given up stays stopped until an operator acts *)
(* (activate_rolemodel_v2_server.py:351-379).                              *)
(***************************************************************************)
THEOREM NothingUnprovenIsLeft == Spec => []NothingUnprovenRuns
  BY ActivationInvariant, PTL DEF ActivationInv

(***************************************************************************)
(* What an undisturbed activation publishes, its operator has just seen    *)
(* and approved (activate_rolemodel_v2_server.py:314-341).                 *)
(***************************************************************************)
THEOREM QuietPublicationsAreApproved == Spec => []QuietPublicationIsApproved
  BY ActivationInvariant, PTL DEF ActivationInv

(***************************************************************************)
(* Nothing is published into a catalog, or beside a runtime schema, that a *)
(* newer program has migrated (runtime/postgres.py:55-60,                  *)
(* catalog/postgres.py:70-75, publish.py:12-45).                           *)
(***************************************************************************)
THEOREM NewerSchemasAreSpared == Spec => NewerSchemaIsLeftAlone
  <1> DEFINE Newer == \E schema \in Schema : Highest(schema) > Latest[schema]
  <1>1. ActivationInv /\ [Next]_vars => (Newer => history' = history)
    <2> SUFFICES ASSUME ActivationInv, [Next]_vars, history' # history PROVE ~ Newer
      OBVIOUS
    <2>1. pc = "publish"
      <3>1. Next
        BY DEF vars
      <3>2. ~ ScriptStep \/ PublishSnapshot
        BY DEF ScriptStep, LoadConfiguration, CheckV1, MigrateRuntime, MigrateCatalog, Migrate,
               DryRun, Confirm, Decline, WriteRuntimeEnv, RestartV2, WaitForV2, RecheckV1, target
      <3> QED
        BY <3>1, <3>2 DEF Next, Deploy, Activate, PublishSnapshot, CommandFails,
                          CommandFailsLate, Interrupt, V1Changes, ServiceComesUp,
                          ServiceCrashes, target
    <2>2. \A schema \in Schema : Ledger!Unsupported(schema) = {}
      BY <2>1 DEF ActivationInv, SchemasAreMigrated, Schema
    <2>3. rows \in [Schema -> SUBSET (1..3)]
      BY DEF ActivationInv, TypeOK
    <2> QED
      BY <2>2, <2>3, NothingNewer
  <1> QED
    BY ActivationInvariant, <1>1, PTL DEF Spec, NewerSchemaIsLeftAlone
=============================================================================
