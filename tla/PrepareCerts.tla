----------------------------- MODULE PrepareCerts -----------------------------
(***************************************************************************)
(* prepare() of scripts/prepare_gigachat_certs.py: the certificates of V1  *)
(* are staged beside those of V2 and put in their place by renaming, with  *)
(* an undo for every failure.  Any file operation may fail, those of the   *)
(* undo included, and the process may be killed anywhere; the installer is *)
(* then run again, for what V1 has by then.                                *)
(*                                                                         *)
(* A directory is the number of the run that filled it and the files it    *)
(* has; the new .env names the files of a run by their places in certs.    *)
(***************************************************************************)
EXTENDS Naturals, FiniteSets

CONSTANTS
    MaxRuns,     \* bound: runs of the installer
    MaxFailures  \* bound: operations that fail in one run

ASSUME PrepareCertsAssumption == {MaxRuns, MaxFailures} \subseteq Nat

VARIABLES
    op,       \* the next operation, or how the run has ended
    run,      \* number of the run
    wanted,   \* the files V1 has
    certs,    \* the directory V2 reads
    env,      \* the .env V2 reads: the files it was written for
    staging, backup, envTemp, \* what the run has made besides
    litter,   \* directories that former runs have left
    faulted,  \* the operations of the run that have failed
    before    \* certs and env as the run has found them

disk == <<certs, env, staging, backup, envTemp>>
certsVars == <<op, run, wanted, disk, litter, faulted, before>>

-----------------------------------------------------------------------------
\* A certificate and its key come together, the CA bundle is optional.
Source == {{"cert", "key"}, {"cert", "key", "ca"}}

None == [made |-> 0, files |-> {}]

Dir(n, files) == [made |-> n, files |-> files]

Forward == {"stage", "writeEnv", "moveAway", "moveIn", "replaceEnv", "dropBackup"}
Undo    == {"undoInstall", "undoBackup"}
Finally == {"cleanStaging", "cleanEnv", "restoreBackup"}
Running == Forward \cup Undo \cup Finally

CertsInit ==
    /\ op = "done"
    /\ run = 1
    /\ wanted \in Source
    /\ certs \in {None, Dir(1, wanted)}
    /\ env = certs
    /\ staging = None /\ backup = None /\ envTemp = None
    /\ litter = {}
    /\ faulted = {}
    /\ before = <<certs, env>>

-----------------------------------------------------------------------------
(* A run.  The sources are read before anything is written.                *)
Start ==
    /\ op \notin Running
    /\ run < MaxRuns
    /\ op' = "stage"
    /\ run' = run + 1
    /\ wanted' \in Source
    /\ staging' = None /\ backup' = None /\ envTemp' = None
    /\ litter' = litter \cup ({staging, backup} \ {None})
    /\ faulted' = {}
    /\ before' = <<certs, env>>
    /\ UNCHANGED <<certs, env>>

At(operation) == op = operation /\ UNCHANGED <<run, wanted, litter, faulted, before>>

New == Dir(run, wanted)

Stage ==
    /\ At("stage")
    /\ IF staging = None
       THEN staging' = Dir(run, {}) /\ UNCHANGED op
       ELSE IF staging.files = wanted
       THEN op' = "writeEnv" /\ UNCHANGED staging
       ELSE \E f \in wanted \ staging.files :
               staging' = Dir(run, staging.files \cup {f}) /\ UNCHANGED op
    /\ UNCHANGED <<certs, env, backup, envTemp>>

WriteEnv ==
    /\ At("writeEnv")
    /\ envTemp' = New
    /\ op' = "moveAway"
    /\ UNCHANGED <<certs, env, staging, backup>>

\* Mutation: the old directory is deleted to make room.
MoveAwayByDeleting ==
    /\ At("moveAway")
    /\ certs' = None
    /\ op' = "moveIn"
    /\ UNCHANGED <<env, staging, backup, envTemp>>

MoveAway ==
    /\ At("moveAway")
    /\ backup' = certs
    /\ certs' = None
    /\ op' = "moveIn"
    /\ UNCHANGED <<env, staging, envTemp>>

MoveIn ==
    /\ At("moveIn")
    /\ certs' = staging
    /\ staging' = None
    /\ op' = "replaceEnv"
    /\ UNCHANGED <<env, backup, envTemp>>

ReplaceEnv ==
    /\ At("replaceEnv")
    /\ env' = envTemp
    /\ envTemp' = None
    /\ op' = "dropBackup"
    /\ UNCHANGED <<certs, staging, backup>>

\* rmtree() takes file after file and the directory last.
Remove(dir, next) ==
    IF dir.files = {} THEN dir' = None /\ op' = next
    ELSE \E f \in dir.files :
            dir' = Dir(dir.made, dir.files \ {f}) /\ UNCHANGED op

DropBackup ==
    /\ At("dropBackup")
    /\ Remove(backup, "cleanStaging")
    /\ UNCHANGED <<certs, env, staging, envTemp>>

-----------------------------------------------------------------------------
(* The undo of a replacement that has failed, and "finally".               *)
UndoInstall ==
    /\ At("undoInstall")
    /\ Remove(certs, "undoBackup")
    /\ UNCHANGED <<env, staging, backup, envTemp>>

UndoBackup ==
    /\ At("undoBackup")
    /\ certs' = backup
    /\ backup' = None
    /\ op' = "cleanStaging"
    /\ UNCHANGED <<env, staging, envTemp>>

CleanStaging ==
    /\ At("cleanStaging")
    /\ Remove(staging, "cleanEnv")
    /\ UNCHANGED <<certs, env, backup, envTemp>>

CleanEnv ==
    /\ At("cleanEnv")
    /\ envTemp' = None
    /\ op' = "restoreBackup"
    /\ UNCHANGED <<certs, env, staging, backup>>

Ending == IF faulted = {} THEN "done" ELSE "failed"

\* Mutation: only the replacement of .env is undone.
RestoreNothing ==
    /\ At("restoreBackup")
    /\ op' = Ending
    /\ UNCHANGED disk

RestoreBackup ==
    /\ At("restoreBackup")
    /\ IF backup # None /\ certs = None
       THEN certs' = backup /\ backup' = None
       ELSE UNCHANGED <<certs, backup>>
    /\ op' = Ending
    /\ UNCHANGED <<env, staging, envTemp>>

-----------------------------------------------------------------------------
Handler ==
    CASE op = "replaceEnv" -> "undoInstall"
      [] op \in (Forward \ {"replaceEnv"}) \cup Undo -> "cleanStaging"
      [] op \in Finally -> "failed"

OperationFails ==
    /\ op \in Running
    /\ Cardinality(faulted) < MaxFailures
    /\ faulted' = faulted \cup {op}
    /\ op' = Handler
    /\ UNCHANGED <<run, wanted, disk, litter, before>>

Kill ==
    /\ op \in Running
    /\ op' = "killed"
    /\ UNCHANGED <<run, wanted, disk, litter, faulted, before>>

CertsNext ==
    \/ Start
    \/ Stage \/ WriteEnv \/ MoveAway \/ MoveIn \/ ReplaceEnv \/ DropBackup
    \/ UndoInstall \/ UndoBackup
    \/ CleanStaging \/ CleanEnv \/ RestoreBackup
    \/ OperationFails \/ Kill

CertsSpec == CertsInit /\ [][CertsNext]_certsVars

-----------------------------------------------------------------------------
(* Properties.                                                             *)

Installed == certs = New /\ env = New

(* Whatever fails and wherever the process is killed, in this run or in    *)
(* any before it, the certificates that .env was last written for are      *)
(* still somewhere, whole: in place, or in what a run has set aside        *)
(* (lines 259-285).                                                        *)
OneInstallSurvives == env # None => env \in {certs, backup} \cup litter

(* One operation that fails leaves the disk as the run has found it, with  *)
(* no copy of a key besides; if it is the last, the removal of the old     *)
(* certificates, the new ones stay in service (lines 239-285).             *)
FailureIsUndone ==
    op = "failed" =>
       /\ \A operation \in Forward \ {"dropBackup"} :
             faulted = {operation} =>
                <<certs, env>> = before /\ {staging, backup, envTemp} = {None}
       /\ faulted = {"dropBackup"} => Installed /\ {staging, envTemp} = {None}

-----------------------------------------------------------------------------
(* What both properties rest on.                                           *)

\* What .env was written for, when it is not what is in place.
SetAside == env # None => env \in {backup} \cup litter

ForwardIsReady ==
    /\ op = "stage" => staging = None \/ staging = Dir(run, staging.files)
    /\ op \in {"writeEnv", "moveAway", "moveIn"} => staging = New
    /\ op \in {"stage", "writeEnv"} => envTemp = None
    /\ op \in {"moveAway", "moveIn", "replaceEnv"} => envTemp = New
    /\ op \in {"stage", "writeEnv", "moveAway"} => backup = None /\ certs = before[1]
    /\ op = "moveIn" => certs = None
    /\ op = "replaceEnv" => certs = New /\ staging = None
    /\ op \in {"moveIn", "replaceEnv"} => backup = before[1] /\ SetAside
    /\ op \in Forward \ {"dropBackup"} => env = before[2]
    /\ op = "dropBackup" => Installed /\ staging = None /\ envTemp = None
    /\ op \in Forward => faulted = {}

UndoIsReady ==
    op \in Undo =>
       /\ SetAside
       /\ "replaceEnv" \in faulted
       /\ env = before[2]
       /\ backup = before[1]
       /\ staging = None
       /\ op = "undoBackup" => certs = None

\* What "finally" finds after one failure of the installation, and leaves.
UndoIsEnding ==
    op \in Finally \cup {"failed"} =>
       /\ \A operation \in Forward \ {"dropBackup"} :
             faulted = {operation} =>
                /\ env = before[2]
                /\ \/ certs = before[1] /\ backup = None
                   \/ op # "failed" /\ certs = None /\ backup = before[1]
                /\ op # "cleanStaging" => staging = None
                /\ op \in {"restoreBackup", "failed"} => envTemp = None
       /\ faulted = {"dropBackup"} => Installed /\ staging = None /\ envTemp = None
       /\ op = "failed" => faulted # {}

CertsInv ==
    /\ wanted \in Source
    /\ before = <<before[1], before[2]>>
    /\ OneInstallSurvives
    /\ ForwardIsReady
    /\ UndoIsReady
    /\ UndoIsEnding
===============================================================================
