# RoleModel helper V2: verification project

The program under `src/` is a conversational assistant ("which roles exist in a
system, how do I request access"). A FastAPI service keeps each dialogue in
PostgreSQL, answers from a versioned catalog that is also in PostgreSQL, and
asks an external language model (GigaChat) only when no deterministic rule
applies. This directory holds TLA+ models of it, the TLC runs that check them
and the TLAPS proofs about them.

## 1. Inventory

| Component | Source | State | Operations | What must hold |
|---|---|---|---|---|
| Turn runtime | `app/runtime/service.py`, `app/runtime/postgres.py` 249-450, `app/api.py` | tables `session_state`, `turn_message`, row locks, worker threads | create session, POST message, GET session | no lost update, one answer per request id, durable answers, every POST ends |
| Migrators | `app/runtime/postgres.py` 27-246, `app/catalog/postgres.py` 40-235, the `migrate` modules | the ledgers `schema_migration`, the tables of both schemas | migrate, verify_ready | a version is recorded exactly when its tables are there, whoever runs at once or is lost; V1's schemas stay as they are |
| Catalog release | `app/catalog/postgres.py` 238-624, `app/catalog/publish.py` | tables `catalog_release`, `catalog_pointer`, `catalog_entity`, `catalog_alias` and those of the relations | publish, active_version, load | at most one active version, pointer and status agree, a version once seen stays loadable, history is immutable |
| Catalog cache | `app/catalog/cache.py` | bundles, active version, status, loads in flight, refresher thread | get, refresh, refresh_active, start / stop auto refresh | single flight, last good version, waiters wake, the cache follows the pointer |
| Catalog validation and bundle | `app/catalog/postgres.py` 366-568, 664-822, `app/catalog/normalization.py`, `app/catalog/cache.py` 56-129 | none (pure) | validate, build aliases, build bundle | collisions become ambiguous, references resolve |
| V1 snapshot | `app/catalog/v1_snapshot.py` | none, one read-only transaction | extract, build the document | exactly one state of one snapshot becomes the catalog |
| Agent engine | `app/agent/service.py`, `app/agent/models.py` | the dialogue state it is given | handle | one model call at most, rejections change nothing, facts from the pinned version, dialogues can always be left |
| Search tools | `app/tools/catalog.py` | none (pure) | search, resolve, context helpers | what is offered leads to a profile, what is shown is that profile's access |
| GigaChat provider | `app/providers/gigachat.py` | OAuth token, its expiry, a lock | bearer_token, plan | no expired token where its end is known in time, one refresh at a time, the deadline |
| HTTP service | `app/api.py`, `app/bootstrap.py`, `app/__main__.py` | lifespan, refresher | startup, health, error mapping | starts only on a migrated schema |
| Configuration | `app/config.py`, `scripts/installer_preflight.py` | environment | validate isolation | V1 and V2 never share a schema or a user |
| Activation and deployment | `scripts/activate_rolemodel_v2_server.py`, `scripts/*.sh` | V1 and V2 services, env file, catalog | activate, install, redeploy | V1 untouched, V2 healthy or stopped, only the approved snapshot is published |
| Browser client | `app/static/index.html` | session id, known revision | send, load | answers shown follow on; a message is refused only after an answer was missed (what then holds until the page is loaded again) |
| Telemetry | `app/telemetry.py`, `app/runtime/telemetry.py` | spans, percentiles | finish, summary | - |
| Certificates | `scripts/prepare_gigachat_certs.py` | the directory V2 reads, its `.env`, temporary copies | prepare | the old certificates survive until the new ones are in service; a failure is undone |
| Tooling | `scripts/build_release.py`, `scripts/benchmark*` | files | - | - |

How they interact: the HTTP service runs each POST in a thread
(`asyncio.to_thread`); the thread calls `RuntimeService.post_message`, which reads
the store, calls `AgentEngine.handle` with no database lock held, and commits.
The engine pins one `CatalogBundle` with `CatalogCache.get` for the whole turn,
and may call the provider, which may fetch a token. A refresher thread calls
`CatalogCache.refresh_active` on a timer, so the bundle may change between turns
and while the language model is thinking. The publisher, in another
process, switches the active version while turns are running. Activation runs
migrators and publisher before it restarts the service.

What is hard to test here: the interleaving of copies of one request; the gap
between reading a state and committing a turn; torn reads across statements;
the gap between `active_version` and `load`; concurrent refreshes of different
versions; a publisher or an activation that stops half way; dialogue states that
outlive the catalog version they were made from. `PROJECT.json` lists these as
hazards with the line where each one bites and the properties that cover it.

## 2. Plan

Done, in this order (most important behaviour first):

1. `TurnRuntime` and its abstract `TurnLedger`, with proofs: the protocol that
   must never lose an update or answer a request twice.
2. `CatalogRelease` and its abstract `CatalogHistory`: publication.
3. `CatalogCache`, on top of `CatalogHistory`: the bundle a process answers from.
4. `Dialogue`: the engine's rules, over catalogs that change.
5. `Activation`, on top of `CatalogHistory`: installing V2 next to V1.
6. `TokenManager`: the provider's token and deadline.
7. `Migrator` and its abstract `SchemaLedger`, whose steps `Activation` takes.
8. `BrowserClient`, composed with the whole of `TurnRuntime`.
9. `CatalogDocument`, `SearchTools` and `V1Snapshot`: from V1's rows to the
   accesses a dialogue shows.
10. `PrepareCerts`: the one script that replaces files it must not lose.

Left:

1. Publisher, cache and turns together, with `RMV2_CATALOG_VERSION`.
2. Composed with it: that a turn answers from a release the pointer named, as a
   theorem over the modules that exist.

The modules are written for both tools: parameters are CONSTANTS with named
assumptions, there is one action per statement, locked block or script step,
and no module declares a RECURSIVE operator. Definitions that begin with
`\* Mutation:` are not part of any specification; each is a plausible mistake
in the definition after it, and `PROJECT.json` says which property it breaks.

## 3. The modules

### TurnRuntime, TurnLedger

`TurnRuntime` is `RuntimeService.post_message` over `PostgresStateStore`. Its
tables are `created` and `state` (`session_state`) and `turns` (`turn_message`);
`rowLock` is the `FOR UPDATE` lock of a session's row. A worker is a thread; its
`pc` is the statement it runs next:

| Action | Code |
|---|---|
| `Post`, `GetReplay`, `GetState` | `post_message`: the stored answer, the state, 404 and 409 |
| `HandleTurn`, `EngineRaises` | `AgentEngine.handle`, a choice over the results it may return |
| `LockSession`, `Recheck`, `InsertTurn`, `UpdateState`, `CommitTurn` | the transaction of `commit_turn` |
| `SendReply`, `Fail` | the answer reaches the client; the connection or process is lost anywhere |
| `BeginView`, `ReadTable`, `ReturnView` | the two SELECTs of `get_session` |

What a transaction has written and not committed is in the worker's `pc`, so
READ COMMITTED is modelled by what the tables hold. `Turn.base` is a history
variable: the state a response was computed from. The engine returns either a
state with the next revision or the state it got (a rejected plan); `Dialogue`
checks that this is what the engine does (`ContextChangesOnlyWithRevision`).

`TurnLedger` has no workers, locks or transactions: a session is an append-only
sequence of turns, each taken on the state the last one left, one per request,
and answers are stored responses. `IsTurnLedger` says that `TurnRuntime`
implements it with `ledger <- turns`.

### CatalogRelease, CatalogHistory

`PostgresCatalogPublisher.publish` is one transaction; each statement is an
action. `writes` holds a transaction's rows until `Commit` moves them to
`release` and `pointer`; `Abort` is an exception or a lost process. The
advisory lock, the row lock of the pointer, the wait for another transaction's
uncommitted key and the one-ACTIVE index are guards. A reader runs
`active_version` and `load` as two transactions. A document is a model value;
`Repeating` are the documents that `_validate_catalog` accepts although a
reference occurs twice, which the tables' primary keys refuse.

`CatalogHistory` is the abstract promise: a sequence of publications, each
under a new version and naming the version it replaced. `CatalogCache` and
`Activation` use it as their catalog.

### CatalogCache

Each block under the cache's lock is an action; between them are the source's
calls. `loading` maps a version to its loader, and a waiter waits for that
loader's event. `StartAutoRefresh`, `StopAutoRefresh`, `JoinReturns` and
`LeaveLoop` are the refresher's life: `join(timeout=2.0)` returns while the
thread is in a slow refresh, and a later start clears the flag it should see.

### Dialogue

One dialogue, turn after turn; `pinned` is the bundle `handle` took, `catalog`
the one in the cache. A text is the set of markers the rules look for and the
systems it names or resembles; a search returns any small set its filters
admit. The rules are actions whose guards exclude the rules before them, in the
order of `_deterministic`. The model's plan is any record, well-formed or not.
Revisions are left to `TurnRuntime`: `answer.revised` says whether the engine
raised it. The city slot only narrows a search and is not kept. An access answer
gives up to `AccessLimit` systems (the code's ten); their roles are left to
`SearchTools`.

### Activation

Each command of the script is a process, so V1 may change, a command may fail
or the operator may go away between any two. `v2` is the service as systemd
sees it. `disturbed` records whether something other than the script happened
since it began; two properties are about undisturbed runs. A command fails before
or after it has taken effect (`CommandFails`, `CommandFailsLate`). A deployment
stops V2 only if `is-active` says that it is up, so one that is starting may
stay. An interrupted or failed restart that leaves V2 starting is outside
`NothingUnprovenRuns`, which is about what the script has given up.

`rows` is `schema_migration` of the two V2 schemas. An activation may find them
empty, as an earlier program left them, or newer than this one. A migrator's
transaction is a step of `SchemaLedger`: it refuses a newer schema or applies
every missing version. `RuntimeReady` and `CatalogReady` are the two
`verify_ready`, which the service asks when it starts.

### TokenManager

Threads share a token. Time advances in units, only when no thread can go on at
once, and no further than the timeouts of requests in flight. (A timeout of the
`requests` library bounds the wait for each read, not for the whole answer; the
model takes it for the whole, which favours the code.) A `token` is when it was
received, how long it lives and whether the server has told so; where it has
not, `Announced` is the code's guess of 1700 seconds (`Guess`). Lifetimes may be
shorter than the margin, the grace and the guess. The cache cannot know that a
token ends within the 30 seconds it gives every one, or more than a margin before
the end it has guessed; `TokenIsValid` is about the others (`EndsTooSoon`).

### Migrator, SchemaLedger

`Migrator` has both migrators, as processes of either kind that the two
`migrate` commands start under one `.env`. A statement is an action; DDL is
transactional, so what a migration has created is `pending` until `Commit`, and
another transaction that would create the same object waits for it
(`MustWait`). The version's DDL is one statement (`ApplyVersion`). `Fail` is
an error or a lost process anywhere. The database begins empty, half prepared
by hand, or as an earlier or a newer program left it; the schema names of V2
and V1 are any four, equal ones included. `ValidateIsolation` is what the
commands ask, `Preflight` what the installer asks before.

`SchemaLedger` is the abstract promise: a ledger goes to this program's
versions in one step and is left alone when it is newer. `IsSchemaLedger` maps
its `rows` to what is committed in the database.

### BrowserClient

EXTENDS `TurnRuntime`: every step of a worker is one of the runtime's, together
with what the page hears of it. `Disconnect` is a `fetch` that rejects while
the worker goes on, so turns may be committed that the page knows nothing of.
`Submit`, `OpenSession`, `SendMessage`, `ShowAnswer` and `ShowError` are the
parts of `submit()` between its awaits, `Reload` is "new chat". `shown`,
`sent`, `heard` and `lost` only record what happened.

### CatalogDocument, SearchTools, V1Snapshot

`CatalogDocument` has no state: it is `_build_document`, `_validate_catalog` and
`CatalogBundle.from_mapping` as operators from the rows of a V1 snapshot to a
bundle. A text is the sequence of its words and marks, and its normal form that
of the words alone. Ids are made of normal forms: in `code|city` and `name|city`
the bar is lost, so the two halves just follow one another, and departments of
different cities may get one id. A code that is only a dash is no code for an id
and still a key for merging, and the key of a row with a code may be that of a
row without one, as in the source. Rows have the rank their statement's ORDER BY gives them where
the first or last one wins.

`SearchTools` is what each tool offers of a bundle: all candidates its filters
admit, of which `Returned` keeps up to a limit: `Limit` for what the user chooses
from, `AccessLimit` for the systems and roles of an access. Scores are not kept:
a query resembles a set of names.

`V1Snapshot` is the import beside V1's ETL, one action per statement, under
REPEATABLE READ (`view` is what the first statement saw, `Select` reads from
it), then `Publish` or `Refuse`, then a dialogue that takes a department, a
position and the access of the one profile they have. `Lose` is a connection
that breaks between two statements; the command may be run again. Publication as a
transaction is left to `CatalogRelease`, the engine's other rules to `Dialogue`.

### PrepareCerts

Each file operation of `prepare()` is an action; `shutil.rmtree` and the copying
go file by file. `OperationFails` is an operation that raises: the handler and `finally`
follow as in the source, and they may raise too. `Kill` ends the process
anywhere, and the installer is run again, for certificates that V1 may have
renewed. A directory is the number of the run that filled it and its files.

## 4. The runs

| Run | Instance | States | Shows |
|---|---|---|---|
| `turn_safety` | 1 session, 2 workers, 2 requests, 1 reader, revisions 0-1, 2 contexts, 2 answers, symmetry | 444 000 | chain, idempotence, no collisions, explained views, refinement of the ledger |
| `browser` | 2 sessions, 2 workers, 3 texts, revisions 0-3, no reader | 122 000 | answers on the page follow on, refusals mean a lost answer, every POST ends |
| `release` | 2 publishers, 3 versions, a sound and a refused document, 1 reader | 55 000 | pointer and status agree, immutable releases, one history, publications end |
| `cache` | 2 refreshers, 1 direct call, 2 versions, 2 failures | 83 000 | single flight, last good, truthful status, waiters wake, catches up |
| `dialogue_safety` | 2 releases, 2 systems, departments, positions, 3 profiles, 24 texts, access limit 1 | 260 000 | phase and question agree, facts are pinned, access follows a profile |
| `activation` | 2 snapshots, 2 health attempts, 2 faults, 6 combinations of schemas found | 28 000 | nothing unproven runs, quiet publications are approved, newer schemas are left alone, activations end |
| `token_safety` | 3 threads, deadline, margin and grace 2, guess 5, lifetimes 1, 2 and 4, told or not, 5 units of time, symmetry | 1 537 000 | valid tokens, one refresh |
| `migrator` | 2 processes, 4 schema names, versions 0-3, symmetry | 185 000 | the ledger stands for the tables, no collisions, V1 is spared, refinement of the ledger |
| `snapshot` | 2 V1 snapshots, 11 contents, 3 profiles, limits 2, 13 queries | 469 000 | the import is exact, the access shown is V1's, offers lead on |
| `certs` | 3 runs, 2 failing operations in each, kills | 41 000 | old certificates survive, a failure is undone |

Why these bounds are enough to be interesting. Two workers and two requests
give every overlap of a request with its copy and with a competing one; with
revisions 0 and 1 sent, a session reaches revision 2, so a stale revision, a
current one and a guessed one all occur. Sessions share nothing, and the proofs
cover any number. Three versions let two publishers overlap while a third
release is the active one, which the pointer's row lock needs. One refresher is
on and one is left over; a third would repeat the second. Two releases let an
id vanish from the catalog and one survive. Two faults let an activation fail,
be repeated and fail again. Threads, publishers, versions and snapshots are
used only as identities. Three texts let the page lose an answer, be refused
and go on after a reload, in a second session. Four schema names let any two of
the four settings be equal or all differ, and two migrators are what a lock and
a wait need. The eleven contents of `MCV1Snapshot` are one sound snapshot and
ten ways in which rows collide, lack a name, a digest or a system; one edit
of a row per snapshot and one purge put a change between any two statements.
The limits of two are what three profiles and accesses can exceed, and the access
limit of `dialogue_safety` is what a profile with both systems exceeds. The
lifetimes of `token_safety` lie below the grace, at it, and between the renewal
and the end of a guessed one. In a view of
that run V1 is left out once the import is over, when nothing reads it any more
and it stands still. Three runs of the certificate step let a run find what a
killed one left, and leave something to a third. `MaxFailures`, `MaxFaults`,
`MaxRuns`, `MaxAttempts`, `MaxTime`, `Limit`, `AccessLimit`, `Guess` (the last
three are constants of the code, made small) and the numbers of texts, contents
and versions are the only bounds.

All runs check for deadlock, except `certs`: after its last run nothing is left
to do. `TurnRuntime`'s type invariant is checked and proved; those of
`CatalogRelease`, `CatalogCache`, `Dialogue`, `Activation`, `Migrator`,
`TokenManager` and of the page (`PageTypeOK`) are proved as parts of their
inductive invariants, and the runs check what could really go wrong.

Fairness. `TurnRuntime` and `CatalogRelease`: a thread or process that can run
does (each statement and the engine end within timeouts), and PostgreSQL queues
lock waiters, hence strong fairness for taking the row or advisory lock. Lost
connections, new POSTs, publications and reads have none. `CatalogCache`:
threads run, timer intervals end, `join` times out; publishing, starting and
stopping have none, and `CacheCatchesUp` assumes the refresher is on for good.
`Activation`: the script goes on and the operator answers, either way.

### Where the code and the documents disagree

Two runs are expected to fail; each quotes the document in `PROJECT.json`.

- `dialogue_stale`: a numbered option that a newer release has dropped is
  accepted (`app/agent/service.py:309`).
- `activation_approval`: the dry run and the publication each extract the
  snapshot, and nothing ties the second to what the operator approved.

The other differences are modelled as the code has them and have no run:

- A deployment repeated under an unchanged V1 snapshot fails at step 5/7 with V2
  stopped, because its version exists
  (`scripts/activate_rolemodel_v2_server.py:337`;
  `docs/specs/2026-08-03-macos-remote-deployment.md:38` speaks of repeat
  deployments).
- A profile that repeats a reference is refused as "Catalog version already
  exists" although it does not (`app/catalog/postgres.py:355`).
- Waiting for the lock under another turn's OAuth request is not counted into a
  turn's own request, so planning may take longer than its deadline
  (`app/providers/gigachat.py:119`; `docs/specs/2026-07-30-fast-hybrid-agent.md:54`).
- A number beyond the options of a pending selection reaches the language model
  (`app/agent/service.py:299`; line 87 of the same document excludes it), and
  while "roles or instruction" is pending a request to change the system repeats
  the question (`app/agent/service.py:273`; line 38 wants it handled).
- `validate_isolation` never compares the runtime schema with V1's catalog schema
  (`app/config.py:134`); the preflight does, so `MigrationsSpareV1` holds for
  what the installer accepts. `docs/deployment-postgresql.md:21` promises it of
  the migrate commands too.
- A token that lives less than 30 seconds, or ends more than a minute before the
  guess where the server does not tell its end, may be sent after it has expired
  (`app/providers/gigachat.py:151-153`).
- After a lost answer every message of the page is refused until it is loaded
  again (`app/static/index.html:902`): `RefusedOnlyAfterLoss` says when that
  happens, and no property that it ends, because it does not.
- An access answer leaves out what is beyond ten systems, or ten roles of a
  system, and does not say so (`app/agent/service.py:710`).
- `code|city` and `name|city` lose their bar when they become an id
  (`app/catalog/v1_snapshot.py:279`). A department without a city named
  "dept samara" and the "dept" of Samara are then one entry, with the name and the
  city of the row that comes first: a department without a city may get one,
  although `docs/specs/2026-07-30-v1-snapshot-catalog-adapter.md:36` says that a
  missing city remains empty. `ImportIsExact` therefore compares the cities of
  profile and department only for ids of one city (`OfOneCity`); everything else
  it says holds for such departments too.
- A dry run reports "validated" without `_validate_catalog`
  (`app/catalog/publish.py:26`), so the publication that follows may refuse.
- Departments (of one city) and positions whose codes are only a dash are merged
  into one, with the name of the first (`app/catalog/v1_snapshot.py:276`, 309).
- A profile chosen by its number ends the dialogue without its accesses
  (`app/agent/service.py:309`).
- A killed certificate step leaves its copies of the key beside the directory
  for good (`scripts/prepare_gigachat_certs.py:265`), and V1 may renew its
  certificate between the reads of line 209.

## 5. The proofs

Eight modules of proofs. Every theorem holds for any values of the constants
that the module's named assumption admits. Each property that a run checks is
here, but for the liveness properties.

| Module | Theorem | Property |
|---|---|---|
| `TurnRuntimeProofs` | `TypeCorrect` | `TypeOK` |
| | `ChainHolds` | `TurnsFormChain` |
| | `RetriesAreIdempotent` | `RepliesAreTheStoredTurn` |
| | `CommitsDoNotCollide` | `CommitCannotCollide` |
| | `ViewsAreExplained` | `ViewIsExplained` |
| | `HistoryOnlyGrows` | `HistoryGrowsByTurns` |
| | `RuntimeIsALedger` | `IsTurnLedger` |
| | `AnswersFollowOn` (of the page) | `ShownAnswersFollowOn` |
| | `RefusalsNeedALoss` (of the page) | `RefusedOnlyAfterLoss` |
| `CatalogReleaseProofs` | `PointerAgrees` | `PointerNamesTheActiveRelease` |
| | `ReportedVersionsLoad` | `ReportedVersionLoads` |
| | `SoundRefusalsAreTruthful` | `SoundRefusalIsTruthful` |
| | `ReleasesNeverChange` | `ReleasesAreImmutable` |
| | `PublicationIsAHistory` | `IsCatalogHistory` |
| `CatalogCacheProofs` | `StatusTellsTheTruth` | `StatusIsTruthful` |
| | `FlightsAreSingle` | `SingleFlight` |
| | `TheLastGoodIsKept` | `LastGoodIsKept` |
| `DialogueProofs` | `PhasesMatchQuestions` | `PhaseMatchesQuestion` |
| | `FactsExist` | `FactsComeFromThePinnedCatalog` |
| | `AccessIsAProfile` | `AccessFollowsAProfile` |
| | `ChangesRaiseTheRevision` | `ContextChangesOnlyWithRevision` |
| `MigratorProofs` | `LedgerStandsForTables` | `RowsStandForTables` |
| | `MigratorsNeverCollide` | `MigrationsDoNotCollide` |
| | `MigratorsSpareV1` | `MigrationsSpareV1` |
| | `MigratorsImplementTheLedger` | `IsSchemaLedger` |
| `V1SnapshotProofs` | `EveryImportIsExact` | `ImportIsExact` |
| | `EveryOfferLeadsOn` | `OffersLeadOn` |
| | `EveryAnswerFollowsV1` | `AnswerFollowsV1` |
| `TokenManagerProofs` | `TokensAreValid` | `TokenIsValid` |
| | `RefreshServesAll` | `OneRefreshServesAll` |
| `DeploymentProofs` | `NothingUnprovenIsLeft` | `NothingUnprovenRuns` |
| | `QuietPublicationsAreApproved` | `QuietPublicationIsApproved` |
| | `NewerSchemasAreSpared` | `NewerSchemaIsLeftAlone` |
| | `InstallSurvives` | `OneInstallSurvives` |
| | `OneFailureIsUndone` | `FailureIsUndone` |

None of the properties is inductive by itself. Each module of proofs names the
parts of its inductive invariant, proves that Init implies it and that every
step keeps it (a lemma or a step per action), and the theorems cite that.

**Turns** (any number of sessions, requests, workers and readers; revisions
sent are naturals, the empty context is a context). The invariant is
`RuntimeInv`. Its core is `LoadedIsAPastState`: the state a worker computed from
carries the revision the client sent, which is at most the stored one, and
*equal revisions mean equal states* - true because accepted turns raise the
revision and rejected ones keep the whole state. When `Recheck` finds the stored
revision equal to the client's while it owns the row (`TransactionOwnsRow`), the
loaded state is therefore the stored state, and it stays so until COMMIT because
only the row's owner writes it (`CommitCannotCollide`). So the committed turn
extends the chain (`CommitExtendsChain`). `OneTurnPerRequest` and
`AnswersAreStored` give idempotence; `ViewStateWasStored` carries a reader from
its first statement to its second, and needs that turns are only appended.
`RuntimeIsALedger` maps `CommitTurn` to `TakeTurn`, `SendReply` to `GiveAnswer`
and all other steps to stuttering.

**Page** (the same, and `Revision = Nat`: the page sends whatever revision it
was told, so its requests must not end where a bound would). `PageInv` adds to
`RuntimeInv` what ties the page to the server. `StatesArePast`: what a
session has been in has an earlier revision than what is stored, or is that, so
the revision the page sends names one state only. `PageRemembersTold`: what the
page remembers is what the last answer told it. `RequestsAreFresh`: a text goes out under a request id no turn has yet,
so a stored answer is never that of another text. `ServerContinues` carries an
accepted request from the worker to the answer, and `NothingIsMissed` says that
as long as no answer was lost, the server's state is the one the page was told;
then `Recheck` finds the revision it expects.

**Publication** (any number of publishers, readers, versions and documents).
`ReleaseInv`: past its lock statement only one publisher exists, the one that
holds the advisory lock (`LockIsHeld`, `OnlyOnePublishes`), so the pointer it has
read stays what it was (`PreviousIsPointer`), and what it has written follows
from the statement it is at (`WritesFollowProgram`). `RowsAreTheHistory` is the
link to the abstract specification: the committed rows and the pointer are those
of the publications so far. What a commit does to the tables (`CommitPublishes`)
then gives all five theorems; the one-ACTIVE index never refuses
(`NothingElseIsActive`), because the release the pointer names, the only active
one, was retired by the same transaction. A reader may load what it was told,
since a retired release keeps its rows.

**Cache** (any number of refreshers, callers, versions and documents). `CacheInv`:
the table of loads names exactly the threads that are loading
(`TableNamesLoaders`), who waits does so for a thread of the table
(`WaitersAreInTheTable`), and every refresh has a version. Entering and
finishing a load happen under the cache's lock, so each changes table and thread
together.

**Dialogue** (any catalogs with finitely many releases, in which systems,
profiles, departments and positions are different things, any texts and plans;
`DialogueAssumption`). `DialogueInv` is the three invariants and the types. A turn
has few ways to end: it asks for a slot or for a selection, repeats its
question, answers, finishes or rejects. A lemma for each (`AskSlotIsSound`,
`FinishIsSound`, ...) says that what it returns is consistent
(`Consistent`: phase, slots and question agree) and supported (`Supported`:
every fact is in the pinned release); the lemmas about the rules show that each
calls them with what the release offers. An access gives all systems of its
profile if they fit (`FirstIsAll`), whatever `AccessLimit` is.

**Migrators** (any number of processes, any names). `MigratorInv` says of each
process that it migrates only under isolated settings, holds its schema's lock
from the lock statement to the end (`LockIsHeld`), has created things in its own
schema only (`PendingIsOwn`), and sees exactly the versions it has not left to
do, the tables one ahead of the rows between two statements (`OneStepAhead`).
The database may change under a process only by another one's commit, and that
one works on another schema: one kind of migrator on one schema is excluded by
the lock, both kinds on one schema by `validate_isolation`
(`OneTransactionPerSchema`). At a commit nothing is left to do, so the
ledger is complete (`CommitCompletes`); `MigratorsImplementTheLedger` maps it to
`Upgrade` and every other step to stuttering.

**Import** (any contents of V1, any number of snapshots, any moves of its ETL).
`ImportInv` says that what the import has read is what its transaction's view
holds, that a view is one state V1 was in, and that a published bundle is the
document of its view. Lemmas follow a row through `Document` and the bundle:
what is kept, under which id, which row wins. Nothing is assumed of `Normal` but
that the empty text stays empty, so ids may collide in any way, and the city of a
department is shown to be its profiles' only for an id of one city. V1's DDL is not in this
repository; its keys, the foreign key of a department's profile and finite
tables are assumed, in `V1SnapshotAssumption`. `WalkInv` carries the
choices of the dialogue that follows.

**Token** (any number of threads, any lifetimes, zero included, any margins,
guesses and deadlines). `TokenInv`: a cached token is handed out until its renewal
time (`CacheIsCautious`), which is before its end unless the token ends within
the grace or before its guessed end, and only the owner of the lock asks. Both
exceptions of `TokenIsValid` are needed: TLC refutes it without either. It
includes `TypeOK`.

**Activation** (any snapshots, faults and health attempts). `ActivationInv`:
past a migrator its schema has no version this program does not know
(`SchemasAreMigrated`), and the report an operator is asked about is on the
screen, up to date if nothing has happened since (`ReportIsShown`). Publication
comes after both migrators, so `NothingNewer` turns the first into
`NewerSchemaIsLeftAlone`. `PublishedWasApproved` is what cannot be proved, and
`activation_approval` shows why.

**Certificates** (any number of runs, faults and kills). `CertsInv`: whatever
`.env` was last written for is in the directory, in the backup or in an
abandoned copy of it, and is never what is being removed; `ForwardIsReady`,
`UndoIsReady` and `UndoIsEnding` say what each stage of the script may rely on.

Only model-checked: the liveness properties `PostEnds`, `PublicationEnds`,
`WaitersWake`, `CacheCatchesUp` and `ActivationEnds` (the proof system has no
ENABLED, so nothing follows from fairness). `RECURSIVE` operators and induction
over data are out of the prover's reach, and no module uses them.

## 6. What is not modelled

Wording and formatting of answers; the arithmetic of text similarity (a search
is a choice of what its filters admit) and instruction texts; the shape of
prompts; what a regular expression finds in a segment's name; the DDL inside one
schema version; rendering in the browser; the health and telemetry endpoints;
the release archive and the benchmark. The first ones are data that no property
here depends on, the last ones sequential code whose state nothing else reads.
`PROJECT.json`
names each component with its status.
