--------------------------- MODULE CatalogRelease ---------------------------
(***************************************************************************)
(* The versioned catalog in PostgreSQL: PostgresCatalogPublisher.publish   *)
(* and PostgresCatalogSource (app/catalog/postgres.py).                    *)
(*                                                                         *)
(* A publisher runs one transaction of seven statements.  What it writes   *)
(* is kept in `writes' and seen by itself only until COMMIT moves it into  *)
(* the tables; an exception or a lost connection drops it.  Publishers     *)
(* take an advisory lock first.  A reader asks for the active version and  *)
(* loads it in a second transaction, and publishers may run in between.    *)
(***************************************************************************)
EXTENDS Naturals, Sequences

CONSTANTS
    Version,     \* version names a document may carry
    Document,    \* what a validated document contains
    Repeating,   \* documents that name one reference or alias twice
    Publisher,   \* processes that publish
    Reader,      \* threads that read the active version and load it
    NoVersion,   \* no row in catalog_pointer
    NoPublisher  \* the owner of an advisory lock that is free

ASSUME ReleaseAssumption ==
    /\ Repeating \subseteq Document
    /\ NoVersion \notin Version
    /\ NoPublisher \notin Publisher

VARIABLES
    release,   \* catalog_release: the committed row of each version
    pointer,   \* catalog_pointer: active_version
    lock,      \* who owns the advisory lock "catalog-publication"
    pc,        \* the statement each publisher runs next
    job,       \* the document it publishes, under which version
    previous,  \* the active version it read
    writes,    \* the rows of catalog_release its transaction has written
    outcome,   \* how its last publication ended
    reader,    \* what each reader read
    history    \* every committed publication, in order

publishers == <<lock, pc, job, previous, writes, outcome>>
vars == <<release, pointer, publishers, reader, history>>

-----------------------------------------------------------------------------

Status   == {"STAGING", "ACTIVE", "RETIRED"}
Row      == [status : Status, document : Document]
NoRow    == <<>>
NoJob    == <<>>
NoWrites == <<>>
Stage == {"idle", "lock", "read_pointer", "insert", "contents", "retire",
            "activate", "upsert", "commit"}

Init ==
    /\ release = [v \in Version |-> NoRow]
    /\ pointer = NoVersion
    /\ lock = NoPublisher
    /\ pc = [p \in Publisher |-> "idle"]
    /\ job = [p \in Publisher |-> NoJob]
    /\ previous = [p \in Publisher |-> NoVersion]
    /\ writes = [p \in Publisher |-> NoWrites]
    /\ outcome = [p \in Publisher |-> NoJob]
    /\ reader = [r \in Reader |-> NoJob]
    /\ history = <<>>

-----------------------------------------------------------------------------
(* What a publisher's transaction sees: its own writes over the tables.    *)
Visible(p) ==
    [v \in Version |-> IF v \in DOMAIN writes[p] THEN writes[p][v] ELSE release[v]]

HasStatus(row, status) == row # NoRow /\ row.status = status

Goto(p, stage) == pc' = [pc EXCEPT ![p] = stage]

\* Mutation: every statement commits by itself (autocommit).
WriteRowThrough(p, v, row) ==
    /\ release' = [release EXCEPT ![v] = row]
    /\ UNCHANGED writes

WriteRow(p, v, row) ==
    /\ writes' = [writes EXCEPT
                    ![p] = [u \in DOMAIN writes[p] \cup {v} |->
                              IF u = v THEN row ELSE writes[p][u]]]
    /\ UNCHANGED release

\* Mutation: the lock outlives the transaction.
KeepLock(p) == lock' = lock

\* COMMIT, ROLLBACK and a lost connection end the advisory lock.
ReleaseLock(p) == lock' = IF lock = p THEN NoPublisher ELSE lock

EndTransaction(p) ==
    /\ Goto(p, "idle")
    /\ job' = [job EXCEPT ![p] = NoJob]
    /\ previous' = [previous EXCEPT ![p] = NoVersion]
    /\ writes' = [writes EXCEPT ![p] = NoWrites]
    /\ ReleaseLock(p)

\* UniqueViolation: CatalogValidationError "Catalog version ... already exists".
RefuseAsExisting(p) ==
    /\ outcome' = [outcome EXCEPT ![p] = [result |-> "exists", job |-> job[p]]]
    /\ EndTransaction(p)
    /\ UNCHANGED <<release, pointer>>

-----------------------------------------------------------------------------
(* publish() is called with a document that passed _validate_catalog.      *)
Publish(p, v, d) ==
    /\ pc[p] = "idle"
    /\ Goto(p, "lock")
    /\ job' = [job EXCEPT ![p] = [version |-> v, document |-> d]]
    /\ outcome' = [outcome EXCEPT ![p] = NoJob]
    /\ UNCHANGED <<release, pointer, lock, previous, writes, reader, history>>

\* Mutation: publishers do not wait for each other.
SkipPublicationLock(p) ==
    /\ pc[p] = "lock"
    /\ Goto(p, "read_pointer")
    /\ UNCHANGED <<release, pointer, lock, job, previous, writes, outcome, reader, history>>

\* SELECT pg_advisory_xact_lock(...).
LockPublication(p) ==
    /\ pc[p] = "lock"
    /\ lock = NoPublisher
    /\ lock' = p
    /\ Goto(p, "read_pointer")
    /\ UNCHANGED <<release, pointer, job, previous, writes, outcome, reader, history>>

\* A transaction that has read the pointer's row FOR UPDATE keeps it locked.
HoldsPointerRow(q) ==
    pc[q] \notin {"idle", "lock", "read_pointer"} /\ previous[q] # NoVersion

\* SELECT active_version ... FOR UPDATE.
ReadPointer(p) ==
    /\ pc[p] = "read_pointer"
    /\ \A q \in Publisher \ {p} : ~ HoldsPointerRow(q)
    /\ previous' = [previous EXCEPT ![p] = pointer]
    /\ Goto(p, "insert")
    /\ UNCHANGED <<release, pointer, lock, job, writes, outcome, reader, history>>

\* Mutation: INSERT ... ON CONFLICT DO UPDATE.
InsertOrReplace(p) ==
    /\ pc[p] = "insert"
    /\ WriteRow(p, job[p].version,
                [status |-> "STAGING", document |-> job[p].document])
    /\ Goto(p, "contents")
    /\ UNCHANGED <<pointer, lock, job, previous, outcome, reader, history>>

\* INSERT INTO catalog_release, STAGING.  A version that another transaction
\* has inserted and not committed makes the statement wait for it.
InsertStaging(p) ==
    /\ pc[p] = "insert"
    /\ \A q \in Publisher \ {p} : job[p].version \notin DOMAIN writes[q]
    /\ \/ /\ release[job[p].version] = NoRow
          /\ WriteRow(p, job[p].version,
                      [status |-> "STAGING", document |-> job[p].document])
          /\ Goto(p, "contents")
          /\ UNCHANGED <<pointer, lock, job, previous, outcome>>
       \/ /\ release[job[p].version] # NoRow
          /\ RefuseAsExisting(p)
    /\ UNCHANGED <<reader, history>>

\* _validate_catalog lets a document through that names a reference or an
\* alias twice; the primary key of the alias or relation table does not.
BreaksContentKey(document) == document \in Repeating

\* The rows of the entities, aliases and relations.
InsertContents(p) ==
    /\ pc[p] = "contents"
    /\ \/ /\ ~ BreaksContentKey(job[p].document)
          /\ Goto(p, "retire")
          /\ UNCHANGED <<release, pointer, lock, job, previous, writes, outcome>>
       \/ /\ BreaksContentKey(job[p].document)
          /\ RefuseAsExisting(p)
    /\ UNCHANGED <<reader, history>>

\* UPDATE ... SET status = 'RETIRED' WHERE version = previous AND status = 'ACTIVE'.
RowsToRetire(p) ==
    {v \in Version : v = previous[p] /\ HasStatus(Visible(p)[v], "ACTIVE")}

RetirePrevious(p) ==
    /\ pc[p] = "retire"
    /\ \/ \E v \in RowsToRetire(p) :
             WriteRow(p, v, [Visible(p)[v] EXCEPT !.status = "RETIRED"])
       \/ /\ RowsToRetire(p) = {}
          /\ UNCHANGED <<release, writes>>
    /\ Goto(p, "activate")
    /\ UNCHANGED <<pointer, lock, job, previous, outcome, reader, history>>

\* catalog_release_one_active_idx: a second ACTIVE row is refused; one that is
\* not committed yet is waited for.
ActiveRowsBesides(p, v) ==
    {u \in Version \ {v} : HasStatus(Visible(p)[u], "ACTIVE")}

\* UPDATE ... SET status = 'ACTIVE' WHERE version = ... AND status = 'STAGING'.
Activate(p) ==
    /\ pc[p] = "activate"
    /\ \A q \in Publisher \ {p} : \A u \in DOMAIN writes[q] :
          ~ HasStatus(writes[q][u], "ACTIVE")
    /\ LET v == job[p].version IN
         IF ActiveRowsBesides(p, v) = {}
         THEN /\ WriteRow(p, v, [Visible(p)[v] EXCEPT !.status = "ACTIVE"])
              /\ Goto(p, "upsert")
              /\ UNCHANGED <<pointer, lock, job, previous, outcome>>
         ELSE RefuseAsExisting(p)
    /\ UNCHANGED <<reader, history>>

\* INSERT INTO catalog_pointer ... ON CONFLICT DO UPDATE; seen at COMMIT.
UpsertPointer(p) ==
    /\ pc[p] = "upsert"
    /\ \A q \in Publisher \ {p} : pc[q] # "commit" /\ ~ HoldsPointerRow(q)
    /\ Goto(p, "commit")
    /\ UNCHANGED <<release, pointer, lock, job, previous, writes, outcome, reader, history>>

\* The rows and the pointer become visible together.
Commit(p) ==
    /\ pc[p] = "commit"
    /\ release' = Visible(p)
    /\ pointer' = job[p].version
    /\ history' = Append(history, [version  |-> job[p].version,
                                   document |-> job[p].document,
                                   previous |-> previous[p]])
    /\ outcome' = [outcome EXCEPT ![p] = [result |-> "published", job |-> job[p]]]
    /\ EndTransaction(p)
    /\ UNCHANGED reader

\* The process or its connection is lost before COMMIT.
Abort(p) ==
    /\ pc[p] # "idle"
    /\ EndTransaction(p)
    /\ UNCHANGED <<release, pointer, outcome, reader, history>>

-----------------------------------------------------------------------------
(* PostgresCatalogSource: active_version and load are two transactions.    *)
ReadActiveVersion(r) ==
    /\ pointer # NoVersion
    /\ reader' = [reader EXCEPT ![r] = [stage |-> "load", version |-> pointer]]
    /\ UNCHANGED <<release, pointer, publishers, history>>

\* Mutation: only the active release can be loaded.
LoadableNow == {"ACTIVE"}

Loadable == {"ACTIVE", "RETIRED"}

\* KeyError when no row of that version is loadable.
Load(r) ==
    /\ reader[r] # NoJob
    /\ reader[r].stage = "load"
    /\ LET row == release[reader[r].version] IN
         reader' = [reader EXCEPT
                      ![r] = IF row # NoRow /\ row.status \in Loadable
                             THEN [stage    |-> "loaded",
                                   version  |-> reader[r].version,
                                   document |-> row.document]
                             ELSE [stage   |-> "key_error",
                                   version |-> reader[r].version]]
    /\ UNCHANGED <<release, pointer, publishers, history>>

-----------------------------------------------------------------------------
PublisherStep(p) ==
    \/ LockPublication(p)
    \/ ReadPointer(p)
    \/ InsertStaging(p)
    \/ InsertContents(p)
    \/ RetirePrevious(p)
    \/ Activate(p)
    \/ UpsertPointer(p)
    \/ Commit(p)

Next ==
    \/ \E p \in Publisher, v \in Version, d \in Document : Publish(p, v, d)
    \/ \E p \in Publisher : PublisherStep(p)
    \/ \E p \in Publisher : Abort(p)
    \/ \E r \in Reader : ReadActiveVersion(r) \/ Load(r)

Spec == Init /\ [][Next]_vars

\* A publisher runs to its end; PostgreSQL queues the waiters of a lock.
FairSpec ==
    /\ Spec
    /\ \A p \in Publisher : WF_vars(PublisherStep(p)) /\ SF_vars(LockPublication(p))

-----------------------------------------------------------------------------
Job == [version : Version, document : Document]

TypeOK ==
    /\ release \in [Version -> Row \cup {NoRow}]
    /\ pointer \in Version \cup {NoVersion}
    /\ lock \in Publisher \cup {NoPublisher}
    /\ pc \in [Publisher -> Stage]
    /\ job \in [Publisher -> Job \cup {NoJob}]
    /\ \A p \in Publisher : pc[p] # "idle" => job[p] # NoJob
    /\ previous \in [Publisher -> Version \cup {NoVersion}]
    /\ DOMAIN writes = Publisher
    /\ \A p \in Publisher :
          /\ DOMAIN writes[p] \subseteq Version
          /\ \A v \in DOMAIN writes[p] : writes[p][v] \in Row
    /\ outcome \in [Publisher -> {NoJob} \cup [result : {"exists", "published"}, job : Job]]
    /\ reader \in [Reader -> {NoJob}
                       \cup [stage : {"load", "key_error"}, version : Version]
                       \cup [stage : {"loaded"}, version : Version, document : Document]]
    /\ history \in Seq([version  : Version, document : Document,
                        previous : Version \cup {NoVersion}])

(***************************************************************************)
(* Pointer and status never disagree: at every moment the version a reader *)
(* is told is the one and only ACTIVE release, and no half-written release *)
(* (STAGING) is visible, whatever publishers do and wherever they stop.    *)
(***************************************************************************)
PointerNamesTheActiveRelease ==
    /\ \A v \in Version : HasStatus(release[v], "ACTIVE") <=> v = pointer
    /\ \A v \in Version : ~ HasStatus(release[v], "STAGING")

(***************************************************************************)
(* A version that active_version returned can be loaded later, with the    *)
(* document that was published under it, although other releases may have  *)
(* replaced it in between.                                                 *)
(***************************************************************************)
ReportedVersionLoads ==
    \A r \in Reader :
        reader[r] # NoJob =>
            /\ reader[r].stage # "key_error"
            /\ reader[r].stage = "loaded" =>
                  \E i \in DOMAIN history :
                      /\ history[i].version = reader[r].version
                      /\ history[i].document = reader[r].document

(***************************************************************************)
(* A publication of a document without repeated references is refused as   *)
(* "already exists" only when its version has been published, although the *)
(* message is derived from any UniqueViolation of the transaction, that of *)
(* the one-active index included.                                          *)
(***************************************************************************)
Refused(p) == outcome[p] # NoJob /\ outcome[p].result = "exists"

SoundRefusalIsTruthful ==
    \A p \in Publisher :
        (Refused(p) /\ ~ BreaksContentKey(outcome[p].job.document)) =>
            release[outcome[p].job.version] # NoRow

(***************************************************************************)
(* A release is immutable: its document never changes, and the only change *)
(* of its visible status is from ACTIVE to RETIRED.                        *)
(***************************************************************************)
ReleasesAreImmutable ==
    [][\A v \in Version :
          \/ release'[v] = release[v]
          \/ release[v] = NoRow /\ HasStatus(release'[v], "ACTIVE")
          \/ /\ HasStatus(release[v], "ACTIVE")
             /\ release'[v] = [release[v] EXCEPT !.status = "RETIRED"]]_vars

(***************************************************************************)
(* Publications form one chain: each names as its predecessor the version  *)
(* it really replaced, also when publishers overlap.                       *)
(***************************************************************************)
History == INSTANCE CatalogHistory

IsCatalogHistory == History!Spec

\* Every publication ends: published, refused or aborted.
PublicationEnds == \A p \in Publisher : pc[p] # "idle" ~> pc[p] = "idle"
=============================================================================
