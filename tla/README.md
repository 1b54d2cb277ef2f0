# Tollkeeper in TLA+

Tollkeeper is a write-audit-publish library with an Airflow provider: data is
written to a staged version, checks run on the staged version, and only then
does it become production; a *signal* in a shared store tells downstream jobs
that a table has been audited. This directory models the parts of it in which
the order of steps, failures and other processes matter, checks them with TLC,
and proves their safety properties with TLAPS for instances of any size.

Paths below are relative to `src/` of the repository root unless they name a
file of this directory. `core.py` is `src/tollkeeper/core.py`, and so on.

## 1. The system

| Component | State it keeps | Operations | Talks to |
|---|---|---|---|
| Session (`core.py`) | `_report`, `_published`, `_rolled_back`, `_audited` of one version | `Tollkeeper.table`, `write`, `audit`, `publish`, `rollback`, `__exit__`, `__del__` | backend, checks, `on_notify`, signal store |
| Backend contract (`backends/base.py`) | staged versions, production | `create_version`, `publish_version`, `rollback_version` | called by the session |
| CSV backend (`backends/csv.py`) | files in two directories | the three, and `cleanup_staging` | file system shared by processes |
| Iceberg backend (`backends/iceberg.py`) | branches and snapshots in the catalog | the three | the catalog, shared by processes |
| SQL passthrough backend (`backends/sql_passthrough.py`) | nothing: the SQL has already written production | the three, as no-ops | |
| Signal store interface (`signals/base.py`) | | `wait`, otherwise abstract | |
| SQLite store (`signals/sqlite.py`) | signals, dependencies, DQ results | `write`, `delete` with cascade and notification, `check`, `register_dep`, `get_downstream`, DQ results | the database, shared by processes; the delete callback |
| DB-API store (`signals/dbapi.py`) | the same | the same | the same |
| SQL task group (Airflow: `task_group.py`, `dq_operator.py`, `signal_operator.py`, `sensor.py`) | Airflow task states, DQ results, signals | sensors, SQL, one task per check, signal emitter | Airflow's scheduler, the signal store |
| Wrapping task group (Airflow: `tollkeeper_task_group` in `task_group.py`) | Airflow task states | sensors for what the SQL reads, above one `TollkeeperOperator` | the lineage parser, Airflow's scheduler, the signal store |
| TollkeeperOperator and strategies (Airflow: `operator.py`, `strategy.py`, `engine.py`) | tries of the task, XCom | `execute`: redirect, wrapped operator, audit, publish, push | session, backend, checks, store, XCom |
| Lineage parser (`parser.py`) | none | `extract_lineage` | sqlglot |
| Checks (`checks/base.py`, `checks/polars.py`) | none | `run` | Polars, DB connections |

The components call each other synchronously. What makes them hard is that
every call out of the session may raise in the middle of a method, that several
processes work on one table, one catalog and one store at a time, that the
store's delete commits row by row, that a call that raised leaves its
transaction open, that Airflow runs tasks again which have already had their
effect, and that processes die.

What each component has to get right:

* **Session**: production only shows content that a completed audit judged;
  what an audit refused is never published; a signal is of the latest audit;
  staged data does not leak.
* **Backends**: production changes only to a staged version that is there, at
  once; a session's staged data is not lost to anybody else.
* **Signal store**: `delete` invalidates every dependent it should, no other,
  and ends; `wait` answers, and misses a signal only where its polling must.
* **SQL task group**: production is written in place, so the signal alone
  protects readers: it must only be given for data that passes.
* **DB-API store**: a row is replaced by DELETE and INSERT, and nobody may see
  the gap; reads do not end their transaction, and must not be stale where the
  code relies on them.
* **Operator**: a task that shows as successful has published what it says, in
  whatever try; the signal is of what the table holds.
* **Lineage**: a source that is missed is a sensor that does not wait, one that is
  no table is a sensor that waits for ever.
* **Checks**: what passes is what the check promises.

`PROJECT.json` lists the hazards behind these, each at its line.

## 2. Modules

| Module | Models | Used by |
|---|---|---|
| `Backend` | the contract of a table's storage as the session uses it | `TollkeeperSession` extends it; the two backends implement it |
| `TollkeeperSession` | `core.py`: any number of sessions on one table with the store's signal rows | |
| `Promotion` | abstract: what sessions promise to readers of production | `TollkeeperSession` implements it |
| `IcebergBackend` | `backends/iceberg.py`, load by load and commit by commit | implements `Backend` |
| `CsvBackend` | `backends/csv.py`, with `_move` step by step and `cleanup_staging` | keeps `Backend` where the rename works |
| `SignalStore` | abstract: what a store of `signals/base.py` promises to those that share it | the two stores implement it |
| `SqliteSignalStore` | signal and dependency rows, and the recursion of `delete` | implements `SignalStore` |
| `DbApiSignalStore` | `signals/dbapi.py`, statement by statement, over three kinds of database | `DbApiDeletes` extends it |
| `DbApiDeletes` | the same, with a history of what each `delete` has done | implements `SignalStore`, but for what calls that raised have left |
| `SignalWait` | `SignalStore.wait` against a clock | |
| `SqlTaskGroup` | the groups of `tollkeeper_sql_task_group` chained through a store | |
| `DqChecks` | what each check computes, and what it promises | `TollkeeperOperator` extends it |
| `TollkeeperOperator` | `execute` over retries, deaths and clears, with strategies, engines and both kinds of backend, `sql_passthrough.py` among them | `TollkeeperTaskGroup` extends it |
| `Lineage` | `extract_lineage`, one step per statement of the script | `TollkeeperTaskGroup` extends it |
| `TollkeeperTaskGroup` | `tollkeeper_task_group`: parser, guards, sensors and operator together | |
| `*Proofs` | the theorems about a module and their proofs (section 5) | |
| `MC*` | instances for TLC | |

How state and actions correspond to the code:

* **`TollkeeperSession`**. A session is its version reference. `published`,
  `rolledBack`, `audited` are the sets of sessions with the flag set, `report`
  the set of outcomes in `_report.results` (only "is there a failure" is ever
  asked of it), `phase` where the thread of control is. A method that calls
  nothing is one action; `audit` and the rollback of `write` are split at the
  calls they make, since other sessions and failures come in between:
  `AuditBegin` (guard, `signal_store.delete`), `RunChecks` or `CheckRaises`,
  then one of `NotifyRaises`, `Refuse`, `Waive`, `PassUnsignalled`,
  `EmitSignal`, `EmitRaises`. `write` has three ends: `Write`, `WriteFails` (an
  `Exception`: the rollback of `RollbackAfterWrite` follows) and `WriteInterrupted`
  (any other `BaseException`, such as `KeyboardInterrupt`, which `write` does not
  catch). `on_notify` that returns changes nothing and is
  part of `Refuse` and `Waive`. Every exception becomes `Raise`: the client's
  code is unwound to its `with` block, or, if `CatchesErrors`, goes on. The
  content of a version is what the checks have said of it (`absent`, `fresh`,
  `clean`, `dirty`, `waived`): what the properties can tell apart.
* **`Backend`**. `PublishRaises` has both outcomes that the two staged backends
  show: nothing done, or production replaced and the staged version left.
* **`IcebergBackend`**. A snapshot is the set of sessions among its ancestors.
  `held` is the metadata a call has loaded; a commit to `main` fails if `main`
  has moved since (pyiceberg's requirement on the ref, external), a commit that
  creates or removes a branch does not depend on `main`.
* **`CsvBackend`**. The published file is the set of sessions whose bytes are
  in it, so that a mixture of two copies can be seen. `renames` says that a rename
  of a file that is there never fails; without it `_move` may rename or copy, as it
  falls back to the copy on any `OSError`, and a publication may raise before either
  (`MoveRaises`). `into` are the copies that have the published file open: a rename
  replaces the file under them. A file is old or not; `Stat` and `UnlinkOld` are two
  steps, with anything in between. Of the histories, `unsaved` are the sessions whose
  last write has not been published to the end, `lapsed` those whose file has been
  old since that write, or was written between a cleanup's `stat` and `unlink`, and
  `spoiled` says that a copy into the published file was cut short or that two
  overlapped.
* **`SignalStore`**. A write or a registration is one step; a `delete` is many, one
  per key that it invalidates and per dependent that it tells of, in any order in
  which cascades lead to them, with writes and registrations of others in between.
  It may stop anywhere with an exception, and returns only when nothing is left to
  do along the dependencies that stood during the whole call (`Done`).
  `SqliteSignalStore` maps to it variable by variable; `RecursionError` is one way
  to give up.
* **`SqliteSignalStore`**. A key is a pair (table, context). `delete` is a stack
  of activations, one step per statement, callback and return; a cascade pushes
  one, the interpreter's recursion limit is `MaxDepth`.
* **`DbApiSignalStore`**. A row is a primary key of one of the three tables and
  what it says. `db` is what is committed, `own` what the open transaction of a
  connection has changed; such a row is locked for the others. `write`,
  `write_dq_result` and `register_dep` are `Replace`: a DELETE, an INSERT, a
  commit; `delete` and `delete_dq_results` are `Remove`; a DELETE that meets a
  lock waits, and when it goes on it may miss a row that was replaced meanwhile
  (`overtaken`): with READ COMMITTED the old row is gone and its successor is not
  seen. Nothing in the code calls `rollback`, so that `Raise` leaves the
  transaction open; `spoiled` remembers what such a call has left in it. What
  databases do differently and the code meets is in two flags: whether all reads
  of a transaction see one snapshot (MySQL), whether an error aborts the
  transaction (PostgreSQL).
* **`DbApiDeletes`** adds history variables only. A key counts as deleted when the
  commit of its DELETE succeeds, and also when another connection writes it between
  that DELETE and its commit: the DELETE then took effect just before the write,
  which is what the parameter of `SignalStore`'s `Write` says. The callback of
  `delete` is left out of it (`HasCallback` is `FALSE`); in `DbApiSignalStore` it is
  one way for `Walk` to fail.
* **`SignalWait`**. `check` reads the row (`Check`) and returns later (pc `missed`),
  so that the signal may come between the two. `look` remembers when it last read.
* **`SqlTaskGroup`**. Airflow is modelled from how the code uses it: a task
  runs when those above it succeeded, is tried again when it raises, up to
  `MaxTries`. What a table holds is the set of checks it violates. `Sources` and
  `Built` are `_resolve_sources` and the guards of the group.
* **`TollkeeperOperator`**. Each try has a session of its own; `at` is the step of
  `execute` that comes next. A version is the try that wrote it and its rows. With
  `SqlPassthroughBackend` the version is the table (`Subject`), publishing and
  rolling back change nothing. A setup is what the operator was constructed with;
  `redirect` is any strategy that has the wrapped operator write to the version.
  `atomic` is false of a backend that may copy into production (`CsvBackend` across
  devices): a publication that raises or dies can then leave a `torn` table, with
  any rows (`HalfPublished`).
  The session inside is `TollkeeperSession` reduced to what one client that goes
  straight on can do of it.
* **`DqChecks`**. `Passed` is what the check computes (a filter, a `group_by`, a
  count). `Meets` is what its docstring promises of the rows, each row at a time,
  `Violates` that a row contradicts it. A condition may be unknown, of a row with
  NULL: such a row neither satisfies the condition nor contradicts it.
* **`Lineage`**. A statement is what sqlglot says of it: whether it writes, its
  target, the tables and the CTEs it refers to. `needed` and `stray` keep what these
  references mean, which the code does not know: what a statement reads before the
  script has written it, unless the statement has a CTE of that name, and names of
  what it does not read. A table without its
  schema is `LastPart`, which is what the code compares with CTE names.
* **`TollkeeperTaskGroup`**. `Parse` and `Build` run while the DAG file is parsed;
  then sensors poke over signals that come and go (`Upstream`), and the operator
  runs when all have succeeded. With no SQL, or one with Jinja in it, nothing is
  inferred; SQL on which the parser raises anything but `ValueError` (sqlglot's
  `TokenError`, a list of statements) makes the group raise, unless its sources are
  declared.

Operators marked *Slip* belong to no specification: each is a mistake that could
be made in the code next to it, in place of which TLC finds a property violated.
They show that the properties depend on the code.

## 3. What TLC checks

All runs end within a minute or two. `CHECK_DEADLOCK FALSE` is set throughout,
because each of these systems really stops: sessions are over, runs end, calls
return, the clock reaches the horizon.

| Run | Instance | Properties |
|---|---|---|
| `session_careful` | two sessions, one context, everything may fail, clients as documented | `TypeOK`, `LiveWasChecked`, `ImplementsPromotion` |
| `session_contexts` | one session, two contexts, a client that swallows exceptions and reuses the session | `SignalReflectsLastAudit`, `RefusedUnsignalled`, `RefusedStaysOut` |
| `session_reclaim` | two sessions, a backend that does what it is asked, fairness | `NoOrphan`, `StagingReclaimed` |
| `iceberg_sessions` | three sessions, failures and deaths | `OnlyPublishedLive`, `OnlyConcurrentLost`, `ImplementsBackend` |
| `csv_cleanup` | two sessions, renames that never fail or copies, cleanup, deaths, fairness | `StagedDataKept`, `PublishedWhole`, `OrphansReclaimed`, `RenamesKeepContract` |
| `store_delete` | three keys, every set of dependencies over four pairs, writes and registrations meanwhile, failures, fairness | `TypeOK`, `DeleteIsComplete`, `DeleteEnds`, `ImplementsStore` |
| `dbapi_store` | two connections, two signals, one pair, three kinds of database, every statement may raise, fairness | `TypeOK`, `HoldersGoOn`, `DeleteWalksAll`, `OnlyCalledOrSpoiled`, `WaitsEnd`, `ImplementsStoreUnspoiled` |
| `wait_poll` | timeouts 0, 1, 3, 5, polls 1 to 3, a check of up to 1 | `TypeOK`, `OnlyLateSignalsMissed`, `GivesUpInTime`, `Answers` |
| `sqlgroup_chain` | two groups in a chain, one and two DAG runs, retries, stale results | `TypeOK`, `NothingTainted`, `EmissionEarned`, `PassingRunsSignal` |
| `group_tries` | scripts of up to two of 42 statements; ten setups of the operator, three tries, three contents of a table; fairness | `TypeOK`, `SourcesAreReads`, `GatedBySignals`, `SuccessTellsTruth`, `SignalMatchesTable`, `TableWasChecked`, `GroupStarts` |
| `session_signal_unpublished` | one session | violates `FinishedSignalIsPublished` |
| `sqlgroup_stale_signal` | one group run twice | violates `FailedChecksNoSignal` |

What they show:

* Whatever raises and wherever a process dies, production only ever becomes
  content that was judged, for clients that let exceptions go and stop writing
  once they audit. What an audit refused never becomes production and never has
  a signal, for any client: the `finally` of `audit`, the order "delete the
  signal, check, write the signal" and the accumulating report carry that.
* The two staged backends keep the contract that the session is checked
  against: `IcebergBackend` always, `CsvBackend` where the rename works.
  `cleanup_staging` never takes a file that has not been old since its last write,
  in any interleaving, except one written again between its `stat` and its
  `unlink`, and does remove orphans although a vanished file ends a whole cleanup.
  Where copies are needed, the published file is the whole of one session's data
  once no copy is under way, unless one was cut short or two overlapped and nobody
  has published since.
* On Iceberg production never holds a commit of a session that has not published,
  and a branch goes by its own session's calls only.
* A `delete` that returns has been complete and exact, while others write signals
  and register dependencies. Every `delete` ends: over a cycle of cascades in
  `RecursionError`, with part of the dependents done.
* Over a DB-API connection nobody sees the gap between the DELETE and the INSERT
  of a replacement, except the one that a call that raised has left behind. The
  walk of `delete` sees the dependencies that stand, also on a connection whose
  earlier reads have pinned a snapshot, since `delete` commits first. Who waits
  for a lock gets it, unless a call that raised holds it; nobody waits for somebody
  who waits, so that calls never stand in a circle (of the row locks that are
  modelled: an engine that also locks gaps between keys may raise for other reasons,
  which is `StatementFails`).
* Both stores are the abstract one, though neither does in one step what it
  promises: SQLite's commits its `delete` row by row, and the DB-API store runs
  single statements that interleave with those of others. What is not covered is the
  commit that takes along what a call that raised has left (`spoiled`).
* `wait` raises over a signal that stands only if it came after the last look, and
  that look was at most one sleep and one check before the deadline (with
  `timeout_s = 0` it does not look).
* A chain of SQL task groups does not carry bad data on, and a signal that is
  written is earned, with retries at every point, as long as the DAG runs of a
  table follow each other. A run whose tasks all succeed over a table that passes
  leaves the signal, unless a failed result of a check that was removed is left in
  the store.
* The sensors of a wrapping task group are the tables that its SQL reads before it
  writes them, from the text of the SQL to the start of the operator, but for the
  exceptions in section 4 (both properties exempt these, and would not catch
  them getting worse). A task that succeeds tells the truth about table, signal and
  XCom after any retries, of rows of which no condition is unknown; between, the
  signal is of what the table holds but for windows: signalled and not yet
  published, a copy into the table cut short, or, in place, overwritten and the old
  signal not deleted, because no audit has begun or the store raises.

### Bounds

* *Sessions.* A session touches its own version and flags, production and one
  signal per context. Two sessions show every interference of a pair;
  `session_contexts` has one, as its properties are about the contexts of one
  session. Iceberg has three, since losing a publication to a conflict and a
  retry takes a third. The CSV staging names are unique: two sessions and the
  cleanup meet in the published file and in the list of the cleanup.
* *Keys and dependencies.* `SomePairs` = a→b, b→a, a→d, b→d, each absent, notify
  or cascade: chains, a shared dependent, a cycle. `MaxDepth` = 4 is deeper than
  any path without a repeated key, so only cycles reach it. `MaxChanges` = 1:
  one registration, of any pair and policy, at any point of a walk. One caller:
  what other connections do to the walk is `Write` and `RegisterDep`; the only
  other thing a second delete does is remove rows, which no step reads.
* *DB-API.* `MaxCalls` = 2: two calls that change rows, which is what it takes for
  one to wait for the other, or to commit what the other has left; reads do not
  count, the walk of a `delete` neither. One key of each table and a second signal
  that depends on the first, so that a walk has two keys; longer walks, with several
  dependents left to do, are in `store_delete` and in the proofs. The initial rows are any.
* *Wrapping task group.* `MCInit` takes every script with an operator that raises
  at once, and every setup with a declared source, as parser and operator share
  no state. The statements write or change the table `t`, an intermediate table
  or a source, read one or two of five names, and define a CTE named like none,
  like a source, or like the intermediate table; two in a row meet every order of
  reading and writing one. The contents are one that passes, one with an unknown
  condition, one that fails. Three tries: one that leaves something behind, one that meets it,
  one that repairs it or does not.
* *Time.* `Start`, `Horizon` and `CheckTime` bound the clock; the horizon of 20
  is beyond the latest possible answer (4 + 5 + 3 + 1).
* *Airflow.* `MaxTries` = 2: one retry. `RunsOf` gives the upstream group one DAG
  run, the downstream one two, so that the second one meets the results, the
  signal and the data of the first. (`NothingTainted` is of sources that get one
  run: a second one replaces the data under the old signal, see section 4.)
  `CheckNames` has a check that is attached and
  one that was removed and left a failed result.
* The version `Initial` is whatever production held before.

### Fairness

* `session_reclaim`: a running method gets to its end (weak), and a client's
  scope ends at last, after which CPython collects the session (strong, since the
  session may be inside a method time and again).
* `store_delete`, `wait_poll`: the thread inside the call is scheduled, the clock
  goes on.
* `csv_cleanup`: somebody calls `cleanup_staging` again and again, which the code
  leaves to the user, and files grow old.
* `dbapi_store`: a call that is running goes on; nobody has to fail, to call again
  or to close.
* `group_tries`: Airflow parses the file, builds the group, pokes each sensor and
  starts what is ready. A sensor may time out at any moment.

## 4. Where the code and its documents disagree

Two runs show a disagreement and are expected to find it:

1. **The signal precedes the publication** (`session_signal_unpublished`). `audit`
   writes it; if `publish` raises, is not called or the process dies, it stands.
   `docs/airflow.md:226` and `docs/getting-started.md:62` say it follows a
   successful publish.
2. **A re-run leaves the old signal** (`sqlgroup_stale_signal`). Nothing in the SQL
   group deletes the signal before the SQL replaces the data. In the trace the
   second run's check finds bad data and stores a failed result, no signal is
   emitted, and the first run's signal stands. `docs/sql-strategy-flow.md:168` says
   that tasks that depend on the signal then never run.

More were met and have no run of their own.

The session:

* `on_notify` is called before, and outside, the `try/finally` that marks the
  session (`core.py:129`). If it raises, a client that handles the exception can
  publish what the checks refused; `README.md:90` of the repository says production
  is never touched.
* `write` after `audit` is accepted and what it wrote is published: with
  `ReusesSession = TRUE`, `LiveWasChecked` fails. It is why the theorems assume
  careful clients.

The backends:

* Publishing on Iceberg is not a fast-forward (`docs/backends.md:73`,
  `iceberg.py:49`): `set_current_snapshot` replaces `main`, so that of two
  concurrent sessions the second one's publication drops the first one's data,
  silently. `OnlyConcurrentLost` says that no more than this happens.

The stores:

* `wait` does not look once more after its last sleep, and with `timeout_s = 0` not
  at all. A cycle of cascades ends in `RecursionError` with part of the dependents
  done.
* `DbApiSignalStore` is to work over any DB-API connection (the repository's `README.md:189`,
  `docs/getting-started.md:67`). A call that raises leaves its DELETE in the open
  transaction: the next commit of the connection makes it true, the locks are held
  till then, and on PostgreSQL every later statement raises, since nothing rolls
  back. On MySQL a connection that only reads keeps the snapshot of its first read,
  so that `wait` and a sensor's poke on it never see a later signal.

The Airflow provider:

* With `dq_checks=[]` the emitter has nothing above it and signals before the SQL.
  With overlapping DAG runs of one group and context (`Overlap = TRUE`),
  `EmissionEarned` fails: the emitter of one reads results of the other.
* `register_defaults` gives SQL operators `PassThroughStrategy` whatever the backend
  (`strategy.py:64`). Over one that stages, the SQL replaces the table while the
  session audits and publishes a version nobody wrote. The properties of the
  operator are therefore stated of matching setups (`Matched`).
* `tollkeeper_task_group` has `engine=None` for a default, with which `execute`
  always raises `ValueError`, after the sensors have waited.
* `on_failure` is looked at by `audit` first, when SQL in place has already written.

Parser and checks:

* A CTE hides a stored table whose last part is its name (`parser.py:64`), although
  `docs/sql-lineage.md:42` says that only CTEs are excluded; a reference to a CTE in
  another case becomes a source, whose sensor waits for ever.
* A script that deletes from its table before it inserts makes it source and sink,
  and the group raises `Circular dependency`.
* A row for which the condition is NULL passes `ExpressionCheck` and `SqlCheck`,
  which "fail if any row does not satisfy" it (`polars.py:51`, `polars.py:81`,
  `docs/dq-checks.md:50`, `:62`). The properties of the operator are stated of rows
  that meet all checks and of rows that contradict one, and say nothing of what lies
  between; `ChecksDecide` says that it passes.
* `_resolve_sources` catches `ValueError` only: sqlglot's `TokenError` and the
  `AttributeError` over an operator whose `sql` is a list leave it
  (`task_group.py:44`), and the DAG file fails to load, where other SQL that cannot be
  parsed gives a group without sensors.

## 5. What is proved

Every safety property that a passing run checks is a theorem
(`PassingRunsSignal`, `EmissionEarned` and `NothingTainted` of runs that do not
overlap). Each holds for all values of the constants that the `ASSUME` of
its module allows: any number of sessions, keys, callers, tables, checks, scripts,
setups and tries, finite or not. `DeleteIsExact`, `NotifyIsComplete` and
`WalkIsCurrent` are proved only: `ImplementsStore` and `DeleteWalksAll`, which the
runs check, say more.

| Module | Theorem | Says |
|---|---|---|
| `TollkeeperSessionProofs` | `TypeCorrect` | `Spec => []TypeOK` |
| | `AuditedBeforeLive` | `Careful => (Spec => []LiveWasChecked)` |
| | `SignalsReflectAudits` | `Spec => []SignalReflectsLastAudit` |
| | `RefusalsLeaveNoSignal` | `Spec => []RefusedUnsignalled` |
| | `RefusedIsFinal` | `Spec => RefusedStaysOut` |
| | `NothingOrphaned` | `Reliable /\ ~ReusesSession => (Spec => []NoOrphan)` |
| | `SessionsImplementPromotion` | `Careful => (Spec => ImplementsPromotion)` |
| `IcebergBackendProofs` | `IcebergTypeCorrect` | `Spec => []TypeOK` |
| | `LosesOnlyConcurrent` | `Spec => OnlyConcurrentLost` |
| | `OnlyPublishedIsLive` | `Spec => []OnlyPublishedLive` |
| | `IcebergIsBackend` | `Spec => ImplementsBackend` |
| `CsvBackendProofs` | `CsvTypeCorrect` | `Spec => []TypeOK` |
| | `StagedDataIsKept` | `Spec => []StagedDataKept` |
| | `PublishedIsWhole` | `Spec => []PublishedWhole` |
| | `RenameKeepsContract` | `Spec => RenamesKeepContract` |
| `SqliteSignalStoreProofs` | `StoreTypeCorrect` | `Spec => []TypeOK` |
| | `DeletesAreComplete` | `Spec => []DeleteIsComplete` |
| | `DeletesAreExact` | `Spec => []DeleteIsExact` |
| | `NotificationsAreComplete` | `Spec => []NotifyIsComplete` |
| | `SqliteIsSignalStore` | `Spec => ImplementsStore` |
| `SignalWaitProofs` | `WaitTypeCorrect` | `Spec => []TypeOK` |
| | `MissesOnlyLateSignals` | `Spec => []OnlyLateSignalsMissed` |
| | `TimesOutInTime` | `Spec => []GivesUpInTime` |
| `SqlTaskGroupProofs` | `SqlTypeCorrect` | `Spec => []TypeOK` |
| | `SignalsAreEarned` | `~Overlap => (Spec => EmissionEarned)` |
| | `PassingRunsDoSignal` | `~Overlap => (Spec => PassingRunsSignal)` |
| | `NothingIsTainted` | `NothingTainted`, if moreover every source gets one DAG run |
| | `OneRunKeepsThePromise` | `[]NoSignalOverBadData`, if moreover every group gets one DAG run and has checks |
| `DbApiSignalStoreProofs` | `DbTypeCorrect` | `Spec => []TypeOK` |
| | `WalksAreCurrent` | `Spec => []WalkIsCurrent` |
| | `OnlyCallsChangeRows` | `Spec => OnlyCalledOrSpoiled` |
| | `NobodyWaitsForAWaiter` | `Spec => []HoldersGoOn` |
| | `DeletesWalkAll` | `HSpec => []DeleteWalksAll` |
| | `DbApiIsSignalStoreUnspoiled` | `HSpec => ImplementsStoreUnspoiled` |
| `TollkeeperTaskGroupProofs` | `ChecksDecide` | `Passed(check, rows) <=> ~Violates(check, rows)`; `Meets` implies it, and is implied where no condition is unknown |
| | `LineageIsRight` | `LineageSpec => []SourcesAreReads` |
| | `SuccessIsTrue` | `OperatorSpec => []SuccessTellsTruth` |
| | `SignalsMatchTable` | `OperatorSpec => []SignalMatchesTable` |
| | `TableStaysChecked` | `OperatorSpec => []TableWasChecked` |
| | `GroupTypeCorrect` | `Spec => []TypeOK` |
| | `OperatorWaits` | `Spec => []GatedBySignals` |
| | `GroupOperatorIsTrue` | the operator's three properties and `SourcesAreReads`, of the whole group |

Hardly any of the properties is inductive. What makes them so:

* **Session**. `SafetyInv` has, beside `TypeOK`, three parts. `FlagInv`: what was
  refused is marked rolled back and its report has a failure, what is published was
  live, what is unborn has touched nothing; `RefusedIsFinal` needs it, since
  `publish` only looks at the flag. `AuditInv`: dirty content has a failure in the
  report; an audit that judges has no fresh content before it and, if it passed, is
  vouched for in its context; while an audit runs its context has no signal of its
  own session. The signal properties need it, since the signal is written two steps
  after it was deleted. `ClientInv`, for careful clients: who gets control back
  after an audit does so over judged content; `AuditedBeforeLive` needs it, as
  `publish` looks at the flag `_audited`, not at the content. `OrphanInv`: what a
  session has let go of is not staged.
  There is one lemma per part, each with one step per action, and a step of one
  session leaves the others alone (`OthersUntouched`). The refinement maps a session
  to its fate (`Fate`): a step that publishes is `Promote`, one that judges is
  `Judge`, one that marks the session is `Withdraw`, all others are stutters.
* **Iceberg**. `LineInv`: what is in `main` is in the session's branch, or has come
  to `main` since the session began. A publication replaces `main` with the branch,
  so this is what bounds the loss. `BranchInv` says that the metadata a publication
  has loaded show its branch as it is, which the refinement needs too.
  `PublishedInv`: the line of a branch is what has been published and its own
  session's commits; so what becomes `main` holds nothing of anybody else that was
  not published (`OnlyPublishedIsLive`).
* **CSV**. `FileInv`: a file that is old, or that a cleanup has found old, has been
  old since it was written, unless it was written between the stat and the unlink;
  and a copy is complete before its source is unlinked. `StagedDataKept` is
  inductive together with it. `WholeInv`: unless it is spoiled, the published file is
  whole with no copy under way, or is being written by the one copy that began it.
  `RenameInv`: where renames never fail nothing is ever half copied, so a publication
  is one step, which the contract needs.
* **SQLite store**. A `delete` is a stack of activations, and its invariant speaks
  of all of them. `DoneInv`: a dependent that is not deleted yet will be met by some
  activation; completeness is what is left when the stack is empty. `ReachInv`: the
  walk stays within every set of keys that is closed under cascades; exactness
  follows with the smallest. `CallbackInv` is `DoneInv` for notifications. Nothing
  is assumed of the dependencies, which may have cycles. For the refinement `Fronts`
  adds that the key an activation is about to delete is the root or was reached by a
  cascade that stood at some time during the call, so that each deletion is one that
  `SignalStore` allows.
* **DB-API store**. `MineInv`: what the open transaction has changed is the running
  call's own, as it says, or was left by a call that raised; so this is all that a
  commit can make true. `WalkInv`: `delete` looks for dependents with nothing open,
  since it has just committed, so that no snapshot is pinned. `Exclusive`: a row is
  in one open transaction at a time; since each call locks all that it will lock
  with its first statement, who holds a row for a running call cannot be waiting.
  `TakesInv` and `LeavesInv`, of a running `delete`: all that it has still to do is
  reached by cascades from what it has deleted, and a stable cascade from a deleted
  key leads to one that is deleted or still to do, unless it leads from the key that
  the walk is at. `TakesInv` also says why a DELETE that found nothing, or missed
  the row that it waited for, is a deletion nevertheless: the row was not there, or
  has been written since. `HistoriesOfTheStore` (`HSpec => Spec`) carries the
  theorems of the store over to the module with the history.
* **Waiting**. `WaitInv` says for each place of the loop how far the clock can be
  past the deadline, and (`LookedWithin`) that the last look was at most one sleep
  and one check ago and that a signal which still stands came after it.
* **SQL task group**. `VerdictInv`: in the active run, what the checks have read,
  written and handed to the emitter is about what the table holds now, as no check
  runs before the SQL has succeeded. It fails with two active runs, hence `~Overlap`
  (types hold with overlap too). `EmitInv`: what an emitter that has read nothing
  missing and nothing failed does next is to signal, and one that has succeeded over
  passing data has; `PassingRunsDoSignal` needs it, as the run ends later.
  `StandInv`: a group that gets one run has ended its SQL for good when it signals;
  so what `sqlgroup_stale_signal` finds violated takes a second run.
* **Wrapping task group**. `LineageInv`: the sinks are what the script has written.
  `Progress`: where production and this try's version are at each step of `execute`;
  `AuditOrder`: a try deletes the old signal before it checks, and signals after.
  `ChecksDecide` turns what the checks computed into what the rows contradict.
  `HalfPublishedIs`: what a publication leaves that does not return is the table as
  it was, the judged version, or torn.
  `TableWasChecked` is inductive together with these: a table that is not written in
  place changes by publishing only, and `Progress` says that what is about to be
  published was judged. Each step of the group is a step of the operator or leaves
  it alone, so it holds of the group as well. `GateInv`:
  what was resolved is waited for or has been seen.

Only model-checked: liveness (`StagingReclaimed`, `OrphansReclaimed`, `DeleteEnds`,
`Answers`, `WaitsEnd`, `GroupStarts`), which TLAPS does not do under
fairness.

## 6. What is left out

* **Inside the modelled parts**: the encoding of contexts and rows (JSON keys,
  timestamps), names and messages; a table of Iceberg without any snapshot, where
  `create_version` raises; in SQLite an error of `commit` itself, which leaves the
  DELETE in an open transaction that a later commit of the connection completes (of
  the DB-API store it is modelled), and `delete_dq_results`, which nothing calls;
  duplicate check names in one group; `details` of a result; a try that Airflow
  believes dead and that goes on beside its successor.
* **External**: sqlglot (a statement is what it says of one, and its scoping of CTEs
  in nested queries is flattened to the statement as the code does), Polars, the
  databases and their drivers, Airflow. They are modelled as far as the code in
  `src/` meets them.
* `__init__.py` files and `compat.py` only import.

## 7. Plan

Done: all components of section 1, in the order session, stores and waiting, SQL
task group, backends, checks, operator, lineage, wrapping task group, DB-API store;
then the proofs of section 5, and the abstract store that both stores implement.

Left:

1. `cleanup_staging` inside the session: a version that a cleanup discards between
   two calls of its session.
2. Two tables over one store: a dependent that signals after its upstream's cascade
   has passed it, which no property covers yet.
3. An abstract operator (a task that succeeds has published what was judged), as
   `Promotion` is of the session, that `TollkeeperOperator` implements.
