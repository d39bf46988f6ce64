# Verification of database_sync_tool

TLA+ models of the change data capture tool in this repository, the TLC runs
that check them on small instances, and TLAPS proofs of the most important
results for every instance.

## 1. The system

The tool copies tables from a MySQL (5.7, 8.0, 8.4) or PostgreSQL (15, 16, 17)
source into a MySQL or PostgreSQL sink and keeps them up to date. An
administrator registers instances, defines tasks and starts them in a web
interface; each running task is one thread of that process.

| Component (source) | State | Operations | Interacts with | What makes it correct |
|---|---|---|---|---|
| Task worker (`web_ui/src/task_worker.rs`) | the writer, the stream, a cancel flag, the retry count | `run`, `apply_with_recovery_using`, `capture`, `open_snapshot`, `open_sink` | source stream, checkpoint writer, SQLite | every scoped source transaction is applied once, whatever is lost or repeated |
| Checkpoint writer (`mysql_*/src/checkpoint.rs`, `postgresql_15/src/checkpoint.rs`) | the row of `CDC.log_info`, its cached copy, observed GTIDs, an advisory lock | `open`, `initialize`, `prepare_snapshot`, `copy_snapshot`, `observe`, `apply`, `advance`, `resolve_commit_unknown` | the sink server; sessions outlive clients | data and cursor move in one transaction; an unknown COMMIT is resolved correctly |
| MySQL snapshot reader (`mysql_*/src/snapshot.rs`) | a lock connection, a reading connection, table and key of the scan | `snapshot`, `next_batch` | a source that goes on writing | the copy is the source at the boundary, whole; the global lock is released |
| MySQL binlog source (`mysql_*/src/binlog.rs`, `decoder.rs`) | current file, table maps, the pending transaction | `binlog`, `next`, `decode` | the binlog dump | whole committed transactions with their own cursor |
| PostgreSQL source (`postgresql_15/src/replication.rs`, `decoder.rs`) | a replication slot, the stream | `replication_for_version`, `next_transaction`, `feedback` | slot on the server | no gap and no repetition from the slot's first position |
| Task runtime (`web_ui/src/runtime.rs`, `runtime_store.rs`, `auto_start.rs`, `store.rs`) | registry of threads, `task_runtime` in SQLite | `start_task`, `stop_task`, `delete_task`, `shutdown_tasks`, `start_auto_tasks`, `mark_running`, `finish_task` | worker threads, requests, restarts | one writer per sink table; a stop is kept; what is shown as active has a thread |
| Task configuration (`web_ui/src/tasks.rs`) | configuration revisions, plans | `create_task`, `requalify_task`, `ensure_saved_plan_current` | remote preflight | a worker runs the configuration that was validated |
| Instances (`web_ui/src/instances.rs`) | connection data, a revision | `save_instance`, `probe_instance`, `delete_instance` | tasks bind a revision | a task never runs against an edited instance |
| Authentication (`web_ui/src/auth.rs`) | users, sessions, login attempts | `login`, `session`, `change_password`, user management | every request | no session survives a password change |
| Source logs (`web_ui/src/source_logs.rs`) | none | paging over the binlog | source | bounded |
| Change events (`change_event/src/model.rs`, `validate.rs`, `reader.rs`) | the reader's position in a file | validation, JSON reading and writing | all connectors | what is passed on is well formed and its row images belong together |
| Compatibility planning (`change_event/src/compatibility.rs`, `*_contract`, `type_mapping.rs`, `compatibility.rs` of the connectors) | a plan per column, with digests and confirmations, stored with the task | map a declaration to a logical type, match a sink's manifest, build, confirm and check a plan, convert a value | task configuration, worker, sinks | what is stored fits and means the same; what runs is what was confirmed |
| Sink statement execution (`mysql_*/src/sql.rs`, `postgresql_15/src/sql.rs`) | one open transaction of the sink | check the table, render and execute a statement per change, probe, read back, copy | checkpoint writer, other clients of the sink | a transaction is applied whole to the rows it names, or not at all |
| PostgreSQL types (`postgresql_15/src/catalog.rs`, `types.rs`, `type_mapping.rs`, `source_contract.rs`) | the type directory read at start | read it, close it under dependencies, map a column, decode a nested value or keep its text | users who create and alter types | the mapping and the decoder agree; a row is delivered as written or refused |
| Command line (`src/main.rs`, `src/bin`) | none | capture to JSON, apply JSON | binlog source, sink | as the library |
| HTTP, pages, catalog, registry, secrets | none of their own | routing, queries, encryption | | |

The hard behaviour is in six places: a COMMIT whose answer is lost while the
old session still runs; the order of writes to the sink and to SQLite around a
crash; requests that check, talk to a database and then write; two
connections of which one may silently lose its lock; definitions (of columns,
of types, of the target table) that their owners change between the moment
they are read and the moment they are used; and values at the edge of what the
other database's type can hold. `PROJECT.json` lists each
hazard at its line with the properties that would show it going wrong.

## 2. Modules

| Module | Models |
|---|---|
| `CheckpointWriter` | the `CDC.log_info` row and the decisions taken from it, as operators |
| `TaskWorker` | one MySQL task, its processes, its sink sessions, its faults; extends `CheckpointWriter` |
| `ExactlyOnceApply` | abstract: one copy, then one scoped transaction after the other |
| `TaskWorkerProofs` | theorems about `TaskWorker` |
| `SourceSnapshot`, `SourceSnapshotProofs` | the read-lock protocol and the keyset scan, with theorems |
| `BinlogDecoder`, `BinlogDecoderProofs` | binlog events to transactions, with theorems |
| `PostgresStart` | start and restart of a task with a PostgreSQL source |
| `PostgresStream` | pgoutput messages to transactions, acknowledgement to the slot |
| `PostgresSourceProofs` | theorems about `PostgresStart` and `PostgresStream` |
| `Accounts` | accounts, sessions and login attempts |
| `TaskLifecycle` | start, stop, delete, requalify, restart of the tasks of one process |
| `WebUiProofs` | theorems about `Accounts` and `TaskLifecycle` |
| `LogicalValues` | logical types and values, and the operations on them |
| `ColumnTypes` | the logical type of a declared column, MySQL and PostgreSQL |
| `SinkManifests` | the conversions a sink offers for a logical type and a target column |
| `ValueConversion` | the checks and the conversion a plan applies to a value |
| `FieldPlanner` | selection of an entry, the plan, its confirmation and status |
| `EventValidation` | the validation of values and row images |
| `SinkBinding` | what a sink's renderer accepts of a converted value |
| `FieldRoute`, `FieldRouteProofs` | one column from preview to stored row; composes the seven modules above; with theorems |
| `AtomicMirror` | abstract: one copy, then whole transactions, among other clients |
| `SinkApply`, `SinkApplyProofs` | statements, checks and commit in a sink; implements `AtomicMirror`; with theorems |
| `TypeCatalog`, `TypeCatalogProofs` | PostgreSQL's type directory, mapping and nested decoding, with theorems |
| `MC...` | symmetry sets, constant functions and instances for TLC |

The modules meet at named interfaces. `PrepareSnapshot` of `TaskWorker` takes
boundary and read view from one moment of the source, which is
`SourceSnapshot!BoundaryIsView`; `Read` takes whole transactions in commit
order, which is `BinlogDecoder!WholeTransactions` and, for the stream of
`PostgresStart`, `PostgresStream!WholeTransactions`; `TaskLifecycle` treats the
whole of `TaskWorker` as the label `writing`. An `Apply` of `TaskWorker` that
commits is a `Commit` of `SinkApply`, which writes values that `FieldRoute` has
converted and the position that `CheckpointWriter` has computed. `FieldRoute`
takes a PostgreSQL column's logical type from its declaration; for types made
of other types that is `TypeCatalog`, which also makes the row images that
`PostgresStream` groups into transactions.

### CheckpointWriter and TaskWorker

Source transactions are numbered in commit order; the number stands for the
cursor and, in GTID mode, for the GTID. `Scope` is the set of transactions
whose projection on the task's tables is not empty. `applied[t]` counts how
often the changes of `t` are in the sink tables; the code has no such counter,
it is the sink's business data as far as the properties need it.

`pc[w]` names the place in `run()`: `open` (open_sink), `snapshot`, `prepare`,
`prepared`, `copy`, `copying`, `copied` (lines 1124-1205), `start` (1206-1251),
`stream` (the loop), `apply`, `commit`, `backoff`, `resolve`, `replay`,
`recommit` (`apply_with_recovery_using`), `save` (1317-1348), and the three
ways a task ends. A sink transaction is one step up to COMMIT being sent
(`SendCommit`), the server's step (`ServerCommit` or `ServerAbort`) and the
client's (`CommitAck` or `CommitFails`); between them the client may die, give
up or reconnect. `SELECT ... FOR UPDATE` is the guard `RowFree`. The advisory
lock belongs to a session and is free only when the server has ended it.

Abstracted: row contents, SQL text, task identity, the binding (it is in
`TaskLifecycle`), the counters of
applied rows, the eight-second back-off times.

### SourceSnapshot

A row is its primary key, a table definition a version number, the binlog
position the number of commits. FLUSH TABLES WITH READ LOCK is `lock =
"held"`, which stops commits and DDL; `LockExpires` takes it away at any time,
which only `ReleaseLock` can notice. The statements of `snapshot()` between
lock and unlock are one action each. `Batch` is the keyset query.

### BinlogDecoder

The log is a sequence of events in files; the source writes whole groups and
may rotate between them. A stream is opened after any group by position, or
with any set of groups by GTID, with a new decoder, and may be cut anywhere.
Each branch of `decode` and `handle_query` is an action; the guards of the
errors are `OutOfPlace` (a defect of the stream or of the decoder) and
`Rejected` (statements and the size limit). `MAX_TRANSACTION_BYTES` is counted
in row events. `reject_statements` is `TRUE`, as in every caller.

### PostgresStart

`run()` opens the slot from the SQLite mirror (`saved`) before it opens the
sink, and opens the stream again when the sink's cursor differs. The labels
are the steps of that sequence. Dropping a stream leaves the walsender to the
server (`orphan`) until `SlotRelease`. Applying a transaction and its
checkpoint is one step. `Flushed` is 0: the reader thread never calls
`acknowledge`, so the slot's confirmed position does not move.

### PostgresStream

The walsender is external: it sends committed transactions in commit order
from the first whose commit record is not before the start, and announces a
relation before its first row and after a change. Each branch of
`Decoder::push` is an action with its condition named (`BeginAccepted`,
`RelationAccepted`, ...); `Refused` is every error of `push`, `Fails` every
other error and a cancellation, and both poison the stream. Message sizes are
counted in messages. `Gaps` is the distance between the end of a commit record
and the next one; when it is 0 the BEGIN is refused as out of order and a
new stream, whose `previous_end` is 0, accepts it. The consumer follows the contract of
`acknowledge`: it makes a transaction durable before it asks for the next and
before it acknowledges.

### Accounts

`req[c]` is a request between two of its critical sections: a login that has
verified a password, an authenticated request, a change whose new password is
being hashed. A session carries the hash its login verified; the code has no
such column, it is there for the property. Ids are given as SQLite gives them,
so the id of a deleted account is used again.

### TaskLifecycle

A request that reads, talks to a database and writes is two actions with the
read values in `startReq`, `reqRev`, `reqInst`. What runs under the registry
mutex or in one SQLite transaction is one action. Only the sink instance's
revision is modelled; the source instance's is checked at the same places.
`mirror[t]` is the server identity in `checkpoint_json`, by which
`mark_running` recognises one server under two registrations. `binding[t]` is
the configuration revision in the binding of the task's row in the sink, which
`SameBinding` (`check_binding`) compares with the revision the worker has read
(`ran[t]`); the other parts of the binding do not change in a task's life.
`OpenSink` commits that row, `SaveCheckpoint` copies it to SQLite; a crash may
come between. A thread that cannot write its final state is `lost`, one that
could not be created, with a failed write on top (one `Fault`), is `unborn`: the
registry has no entry for it. `StartOutdated` is the remote preflight of a start
that finds a difference or fails; it marks the plan stale by the task's name,
also when a requalification has come in between.

### FieldRoute and the modules it composes

A column's declaration is the record a parser of its text would return; a
logical type is a record tagged by `t`, a value one tagged by `v`. The data is
reduced to what the rules of `compatibility.rs` tell apart: text is a sequence
of code points, a decimal a coefficient and a scale, a float its class, a
digest the value it is computed from. `ColumnTypes` is the mapping of a
declaration, `SinkManifests` gives the entries of a sink's manifest that match
a source type and a target column (the code lists all entries and searches),
`FieldPlanner` is `explain_field_compatibility_inner`: its early returns are
the statuses of a field. `ValueConversion` has one operator per rule and per
conversion kind; `SinkBinding` what the two renderers still refuse.

`FieldRoute` runs them in the order of the program: preview, confirm, create
(planned again), start (planned again and compared with what was saved), copy
without the plan for a MySQL source, then row after row with it; requalify
makes the next revision. The owners of the two databases redefine a column at
any time, before the task is saved, between save and start, and while it runs.
A value refused by validation, by the plan or by the sink leaves the row out
and the outcome `refused`.

What a value fits and means in a database (`Fits`, `CharsetHolds`, `SameMeaning`)
is written from the databases' own rules and not from the planner's. Three
exceptions are named where they are made: `JsonLengthUnchecked` and
`NarrowerUtf8` in `StoredFits`, `BitsReordered` in `MeaningKept`. The
statements without them, `LengthRejected`, `NeverNarrowerUtf8` and `BitsKept`,
are false (known disagreements). A table without a primary key (`keys = 0`)
blocks each of its fields.

### SinkApply and AtomicMirror

The table has a key, one column and perhaps a generated one. A route fixes the
two databases and whether the column's value is carried in an envelope, which
the sink reads back. A transaction checks the table (`QualifiedTable`: engine or
kind, triggers, in PostgreSQL row-level security, and for a copy emptiness and
foreign keys, which MySQL looks for in both directions and PostgreSQL in one),
then probes for the row of a change, executes its statement and looks at warnings, affected rows,
carried values and, in PostgreSQL, generated columns (`MySqlExecutes`,
`PgExecutes`). Rows on the pages are `rows`; what a rollback would leave
is `Committed`, which for a table without transactions is the pages. Other
clients write rows and redefine the table as far as row and metadata locks let
them. `KeepsMirror` is `AtomicMirror` with `table <- Committed`: its `Others`
may do anything to the table, its `Apply` only what the source did.

### TypeCatalog

`LoadTypes`, `LoadLabels`, `LoadFields` are the statements of `catalog.rs`,
between which types are created and altered; `LoadColumn` maps the published
column and keeps the closure of its definitions as evidence; `Deliver` decodes a
row that was written earlier, perhaps under another definition. A type is its
OID, its kind and the types it is made of; a built-in type is four facts: whether
the decoder knows its OID, whether the mapping knows it by its declaration and by
its catalog name, and whether its name is listed. `RecordParts` and the
operators around it are the text forms of nested values with their ambiguity
(a record of one NULL reads like one without fields).

The code recurses over types and values. Here a function of all types, or of all
values, is made round by round from what it is one level below (`Iterate`), as
many rounds as types can be nested (`Depth`, `MaxNesting`). In `LogicalValues`,
`Throughout` visits a type or value level by level down to `MaxDepth`, which is
the depth the validation allows for values and, as a bound of the model, also the
depth to which types are visited.

## 3. Runs

| Run | Shows |
|---|---|
| `task_gtid` | `TypeOK`, `ExactlyOnce`, `ResumeSafe`, `OwnerKnowsRow`, `MirrorBehindSink`, `NoSpuriousBlock`, `CursorOnlyAdvances`, refinement of `ExactlyOnceApply` |
| `task_binlog` | `ExactlyOnce` when only the cursor decides what is applied, and `EventuallyApplied` |
| `snapshot` | `BoundaryIsView`, `ColumnsMatchView`, `ScanComplete`, `LockReleased` |
| `binlog` | `WholeTransactions`, `NeverOutOfPlace` for a task's capture and for the command line's |
| `postgres_start` | `NoGapSinceSlot`, `RefusalIsTransient` |
| `postgres_stream` | `WholeTransactions`, `RowsMatchDefinition`, `SlotKeepsUnkept` |
| `accounts` | `AccountsTypeOK`, `SessionsCurrent`, `AdminRemains` |
| `lifecycle` | `SingleWriter`, `StopIsKept`, `ActiveHasThread`, `DeletedIsQuiet` |
| `field_route` | `StoredFits`, `MeaningKept`, `RunsWhatWasConfirmed`, `KeysStayDistinct` |
| `sink_apply` | `Mirrored`, `CommitsWhatWasVerified`, `RefusedWithCause`, refinement of `AtomicMirror` |
| `type_catalog` | `DeliveredAsMapped`, `EvidenceExplains`, `UnchangedIsDelivered`, `NothingLost` |
| `field_copy` | violated: `PlanUsedForEveryRow` |

Two runs check types. The other modules state their `TypeOK` as well; it holds in
their instances and can be added to the configuration (that of `SinkApply` is
also proved).

`field_copy` refutes what `CONTEXT.md` says of a plan, that it is used for every
row: the initial copy binds the source's values as they are, so that a DATETIME
with a confirmed zone is stored as another instant by the copy than by the
changes that follow (`findings` in `PROJECT.json`).

### Known disagreements

Seven more statements of the repository are false in the models. They are
properties of their modules; adding one as an INVARIANT to the configuration
named shows the counterexample.

* `SinkDecidesRecovery` (`PostgresStart.cfg`): a PostgreSQL task interrupted
  between `initialize` and `save_checkpoint` is refused for good, because the
  creation of the slot is decided from SQLite.
* `ActiveNotRequalified` (`TaskLifecycle.cfg`): a requalification that began
  before a start can finish after it, under the running worker.
* `RequalifiedResumes` (`TaskLifecycle.cfg`): a task with progress that is
  requalified cannot open its checkpoint again, because the binding contains
  the configuration revision.
* `ControlSchemaTolerated` (`BinlogDecoder.cfg`): `CheckpointWriter::open`
  executes `MODIFY COLUMN` statements that the decoder of another task, reading
  that server, rejects as DDL.
* `LengthRejected` (`FieldRoute.cfg`): every conversion to text has the length
  policy "reject" (`mysql_8_0/src/compatibility.rs` 935-952), and
  `issue-18-logical-type-mapping.md:83` leaves no overflow to run time. The
  length of JSON that becomes text is never checked (`validate_json_plan_value`,
  `compatibility.rs` 3157-3195): a document of three characters is sent to a
  VARCHAR(2), one of 256 to a TINYTEXT.
* `NeverNarrowerUtf8` (`FieldRoute.cfg`): the comment at `compatibility.rs`
  7722-7724 calls the three-byte `utf8` safe only in one direction. The
  comparison of names before it (7718-7721) lets PostgreSQL's `UTF8` through to
  MySQL's `utf8` as exact, and a four-byte character is sent to a column that
  does not have it.
* `BitsKept` (`FieldRoute.cfg`): a value of MySQL's BIT(M) has zeros on the left
  (`issue-18-logical-type-mapping.md:35`). The decoder sends the server's
  big-endian bytes and declares them least significant bit first: BIT(12) 1,
  `<<0, 1>>`, arrives in PostgreSQL as B'000000001000'. The same declaration
  makes the bits of 16, `<<0, 16>>`, padding that is not zero, and the value is
  refused.

Met while reading, and kept out of the properties or excepted in them:

* A VARBINARY key that goes to BINARY(n) under an exact plan is padded, and two
  keys may become one (`docs/research/issue-46-all-type-qualification.md:41`);
  `KeysStayDistinct` excepts it.
* The names `utf-8` and `iso-8859-1` are refused. MySQL TIME to interval, and WKB
  to EWKB, are planned and confirmed and then refuse every row.
* The PostgreSQL manifest's exact entry for `inet` asks for the family "inet"
  (`compatibility.rs` 668), the mapping calls it "ip" (`type_mapping.rs` 1152):
  the entry matches no column, and an `inet` cannot go to an `inet`.
* A target column altered while a worker runs is checked again by the sinks and
  not by the worker. The MySQL sink does not verify generated columns. The
  PostgreSQL copy does not keep other clients out of the empty table, and no
  copy reads carried values back.
* A domain or composite over `char(n)` or a bare `varbit` is mapped over a raw
  type although the decoder decodes it (`type_mapping.rs` 1480-1510);
  `Conforms` allows for it.
* An attribute dropped and another added leave the number of fields as it was:
  the values of older rows arrive under the new names. `NothingLost` is about the
  values and their order.
* Extension names are sorted with case and compared without
  (`type_mapping.rs` 99-118, 170-190); type names with dots or spaces, an
  unlisted `pg_catalog` name that a user's type shares, and composite fields that
  differ only in case are refused.
* The cursor of filtered transactions read before a stop is to be advanced at
  the end of `run` (`task_worker.rs` 1355), but the stop flag ends
  `apply_with_recovery_using` first; only the filtered tail is read again.
* Two PostgreSQL commit records without a gap make the BEGIN of the second out
  of order (`decoder.rs` 86); the next stream accepts it. `Gaps` contains 0.

### Bounds

* `task_gtid`: four transactions, one of them filtered between scoped ones;
  two processes, three sessions (each process's and an abandoned one); one
  retry; three faults, enough for a lost COMMIT, a lost connection during its
  resolution and a crash after it.
* `task_binlog`: four transactions, the first and the last filtered; one
  process and three sessions, two of which may be abandoned; four faults. No
  symmetry, because it checks liveness.
* `snapshot`: two tables, because pinning is per table; three keys and batches
  of two, so that tables of 0, 1, 2 (a full batch) and 3 rows occur; two
  commits, one of which may be DDL.
* `binlog`: two groups of up to two row events and two files: a cut, a
  resume, a rotation between groups and a transaction over the limit.
* `postgres_start`: four transactions, three interruptions.
* `postgres_stream`: two transactions of up to three rows on two relations
  with two definitions each, three streams; limits of two rows and five
  messages, so that both are reached and both are met exactly.
* `accounts`: two names, two ids, two requests at a time, four hashes, three
  sessions and a limit of one, limits of two and three attempts, two clock
  ticks: enough for an id to be reused between the two halves of a request.
* `lifecycle`: two tasks on two instances of one server and one table, two
  revisions, two instance edits and requalifications together
  (`MaxChanges`), one fault; 1.9 million states up to exchange of the tasks.
* `field_route`: 80 pairs of columns of MySQL and PostgreSQL (numbers, text in
  every character set, labels, JSON of 1, 3 and 256 characters, bytes, bits,
  moments, arrays and ranges, carriers; keys and a table without one among
  them), each with the values at the edges of both types; one redefinition and two revisions, so that
  a redefinition falls between any two steps of a task and of its
  requalification. Values of a column do not depend on each other, so one at a
  time is enough. `field_copy`: the pairs of local times and instants.
* `sink_apply`: two keys and two values, so that rows move, meet and come back;
  two changes in one transaction or in two; one act of other clients at any
  point. With two acts (980 000 states, too long for a regular run) the
  properties hold as well.
* `type_catalog`: six types of the server, one for each way the mapping and the
  decoder can know it, and two of users, of every kind, over any of them; three
  definitions or alterations in any order with the statements of the source. The
  constraint `NeededTypes` leaves out user types that neither the column needs nor
  have a name of their own kind to clash with. A second type can be made of the
  first, so every pair of constructors is nested.

Deadlock checking is off where a system may come to rest (all transactions
applied, all tasks stopped); `BinlogDecoder` never rests and is checked.

### Fairness

`TaskWorker!Fairness`: the source goes on committing, the sink server executes
what it was sent and ends abandoned sessions, the worker thread is scheduled,
and an ended task is started again (by the operator or by the automatic
start). Faults are never forced and are bounded, so the property says: once
faults stop, everything arrives. `SourceSnapshot!FairSpec`:
only the reader's own thread.

## 4. Proofs

All for arbitrary constants that satisfy the named assumptions of the modules.

**`TaskWorkerProofs`**: `TypeCorrect`, `ExactlyOnceHolds`, `ResumeSafeHolds`,
`OwnerKnowsRowHolds`, `CursorOnlyAdvancesHolds`, `MirrorBehindSinkHolds`,
`NoSpuriousBlockHolds` and `Refinement`.
`ExactlyOnce` is not inductive: it says nothing of a transaction that is
already on its way. The invariant adds what makes a pending COMMIT safe: at
most the session with the advisory lock may be pending; what it will write is
the row and the effects that keep `ExactlyOnce`; the row it was computed from
is still the committed one; and the cached row of a live session is the
committed row. With it each action either leaves the sink alone or commits
such a pending transaction, which is also the only step the refinement maps
to something other than stuttering. `MirrorBehindSink` needs, beside it, that
no checkpoint a writer has cached is ahead of the row, also when its session is
dead, and that a COMMIT on its way does not set the row back (`ProgressOK`);
`NoSpuriousBlock` that without a fault no session was rolled back or killed and
no worker is recovering, and that `apply_inner` then has no cause to refuse.

**`SourceSnapshotProofs`**: `BoundaryIsViewHolds`, `ColumnsMatchViewHolds`,
`ScanCompleteHolds`. For the first two the invariant says that while the lock
is still `held` the values read under it are the current ones, that pinned
tables keep the version the view has (once the unlock was confirmed, all of
them), and that this survives the unlock. It is needed because the lock may be
lost in between: the argument rests on the unlock being confirmed, not on the
lock having been taken. For the scan the invariant says what has been copied at
every point: all of the tables before, the rows up to the last key of this one,
nothing of the tables after. The step rests on lemmas about a batch: it is a
prefix of what is left; a short one is all of it; a full one has a greatest key.

**`WebUiProofs`, accounts**: `AccountTypesHold`, `SessionsCurrentHolds` and
`AdminRemainsHolds`. Here the invariants are inductive with the types: a
session is inserted only under a second look at the hash, every step that
changes a hash or removes an account closes its sessions, a new account takes
an id that no session has, and whoever deletes is an administrator other than
the one deleted.

**`WebUiProofs`, tasks**: `SingleWriterHolds`, `StopIsKeptHolds`,
`ActiveHasThreadHolds`, `DeletedIsQuietHolds`. The registry, the state in SQLite
and the thread of a task are written at different moments. The invariant
(`TaskOK`) says what holds between these moments: from its activation to the
write of its final state a task is active and afterwards not; a task that
writes has told SQLite which server it writes to; a process that is down has no
threads and no requests. `SingleWriter` then follows from the look that the
start of one task takes at what SQLite knows of the others.

**`PostgresSourceProofs`, start**: `NoGapSinceSlotHolds`, `RefusalIsTransientHolds`. Three
places remember progress, the slot, the sink's row and the SQLite mirror. The
invariant orders them (the slot is oldest, the mirror never without a row), says
for every point of `run()` where the stream starts, and that no scoped
transaction lies between the row and what has been read.

**`PostgresSourceProofs`, stream**: `WholeTransactionsHolds`, `RowsMatchDefinitionHolds`,
`SlotKeepsUnkeptHolds`. The invariant says that the decoder holds exactly the
part of the walsender's current transaction that it has been sent, that what was
announced of a relation is what the catalog has, and that everything before the
walsender's place is kept or is the one transaction just delivered. The last is
why no acknowledged position is ever ahead of what is kept.

**`BinlogDecoderProofs`**: `WholeTransactionsHolds`, `NeverOutOfPlaceHolds`. The
invariant has a part about the log and one about the decoder. In a log of whole
groups an event fixes the kind of the one before it (`Linked`); groups are
numbered in order and none is taken up again (`Numbered`); only a rotate event
changes the file, to the next (`Filed`, `Turned`). `Held` then says what the
decoder must hold: nothing between two groups; within one, its GTID, its place
and exactly its captured rows so far. The source omits whole groups and never a
rotate event, so the event that is sent is in the file the decoder believes to be
in (`SentPlace`), from which the place of every returned transaction follows.
The proof uses no bound on groups, rows or files. It does use that the groups of
`Bodies` are the ones a server writes; `BodiesAreGroups` is the only lemma that
looks at their length, the others work for any group that begins with a GTID,
continues as `Follows` allows and closes.

**`SinkApplyProofs`**: `KeepsMirrorHolds` (`SinkApply` implements `AtomicMirror`),
`CommitsWhatWasVerifiedHolds`, `MirroredHolds`, `RefusedWithCauseHolds` and
`TypeOKHolds`. A statement that is accepted has had the effect of its change,
with a value the column can store for it, on a row that was where the source
had it. `Progress` says so of the
whole open transaction: the pages are what the changes so far make of what is
committed. It is kept although other clients write at the same time, because a
write to a row that is not locked commutes with the changes of the transaction
(`AdjustEffect`), and because undoing restores what the locked rows had and
leaves what others committed meanwhile (`UndoneTouched`). `Verified` says that a
comparison stays true until the next statement that names the row. A COMMIT is
then the whole transaction or the whole copy. Beside it only a copy that starts
over, which empties the queue, is more than a stutter among the writer's steps.
`Mirrored` and `RefusedWithCause` are about a table nobody else touches. Their
invariant `Alone` says that what waits leads, transaction by transaction
(`Chain`), from what is committed to the source's table, or, during a copy, from
the table being copied (`CopyUnderWay`); every next change therefore finds the
row it expects and every check agrees. That a copy in key order reaches every
row is an argument about cardinalities. The proofs use no bound on keys, values,
queue or other clients; source transactions have one or two changes, as
`SourceCommit` makes them, and a copy as many as the table has rows. What
several changes make of a table is a recursive function; as induction is not
available (below), the lemmas show that whatever satisfies its equation
is it, by looking at the least place where two candidates differ (`MadeIs`,
`ReplayedIs`, `WalkUnique`).

**`FieldRouteProofs`**: `RunsWhatWasConfirmedHolds`, `KeysStayDistinctHolds`. A
running worker's plan is the one the planner makes of the columns seen at start
and the saved confirmations (`StartedPlanned`); the planner only returns a
compatible plan when every confirmation it asks for carries the digest of this
plan (`CompatiblePlan`, `ConfirmedPlan`). So no sequence of previews,
redefinitions and requalifications runs a conversion nobody has seen.
For keys the proof goes through every entry of both manifests (`EntriesSound`):
one that is offered for a key checks no range, and strategies that read labels or
members are offered only for the types that have them. A plan is built from such
an entry (`PlanIsBuilt`), hence the plan of a key column keeps the value as it is,
writes it as bits, or lists the members of a set (`KeyPlanHolds`).
`KeptAsItIs`, `BitsDistinct` and `SetsDistinct` show that none of these
makes two values one, over the values `KeysDistinct` takes together. A bit string of another order or padding is
still recovered bit by bit; two sets with the same members in declaration order are
the same list. The assumptions are about the source: redefinitions lead
to columns that exist, the labels of a SET are a sequence of names
(`ColumnsAssumption`), a BIT column holds bytes, and a SET's members come in the
order of the declaration (`SamplesAssumption`), because MySQL stores and sends them
as a mask.

**`TypeCatalogProofs`**: `EvidenceExplainsHolds`, `NothingLostHolds`,
`UnchangedIsDeliveredHolds`, `DeliveredAsMappedHolds`. The first section shows that an iteration exists and
satisfies its equation (`IterationExists`); everything about nested types is then
shown round by round.
*Evidence.* After as many rounds as there are types, nothing more is reached: until
then every round adds a type (`VisitRests`, an argument about cardinalities).
What is reached is therefore closed under dependencies (`VisitClosed`), is reached
from the evidence alone as it was from the directory (`VisitRestricted`), and is
listed in the order of the OIDs (`InOrderSorts`).
*Nothing lost.* A value the server writes has a shape the text forms can carry
(`ValueSane`); what its leaves and its text are does not depend on how deep the
iteration went once it has reached the value (`LeavesRestAll`, `TextsRestAll`). One
round of the decoder keeps the leaves when the rounds below do (`DecodeKeeps`),
whatever definitions it decodes with, those of the row or others. The
invariants say that directories hold what a type has (`DescriptionsKept`) and that
a waiting row holds a sane value (`RowsKept`).
*Unchanged.* Equal closures give equal definitions of every type reached
(`SameClosure`). Over these, a type that has a codec decodes the text of any of
its values to that value: `RegainsNext` shows it for one round of each kind,
`RoundTrip` for all. `MappedKept` adds that a column that is streamed is either
decoded by a type with a codec or kept as text, `RowsKept` that a waiting row
carries the closure under which it was written.
*Agreement.* What a round of the mapping makes of a type is known by the type's
kind (`InRoundIs`, `MappedIs`), and so is what the decoder makes of it, whatever the
text is (`ComesIs`). A value and a logical type that come from the same type stay
such a pair in all their parts (`GoodPartsOf`, `GoodConforms`). Two further facts
connect the two ways of looking a type up. Which types have a codec is settled
after as many rounds as there are types (`CodecsSettle`), so that an array has one
when its element has. A declaration finds the type it was written for, or is
refused as ambiguous (`FindsNamed`, `BuiltinNamed`, `ColumnIsMapped`), because names
are unique and stay with their types (`NamingKept`, `SameNamesKept`). `AgreeingKept`
carries the pair through loading, alteration and delivery.
The assumptions: a database has finitely many types with positive OIDs
(`OidsAssumption`), the server's own types are described as `pg_type` describes
types (`BaseTypesAssumption`), no two of them share schema and name
(`NamesAssumption`, the unique index of `pg_type`), the decoder knows by its OID
what the mapping knows by declaration or name (`BuiltinsAssumption`, which holds of
the tables in `types.rs` and `type_mapping.rs`), and an enum can have a label
(`LabelsAssumption`).
What a user's type or an alteration may look like is not assumed; it is what
`CreateType` and `AlterType` make.

The library's induction theorems take an operator as a parameter and cannot be
used. Where an argument needs the last event of a group, the first transaction
that is not kept or the next key of a scan, it takes the least (or greatest)
element of a set of numbers, which exists by the library's theorem that < on the
naturals is well-founded (`LeastExists`, `GreatestExists`). Induction over the
rounds of an iteration is made from it: a property is given as the set of the
numbers that have it (`SetInduction`).

Only model-checked:

* `EventuallyApplied` and `LockReleased`, because liveness is out of this
  prover's reach.
* `StoredFits` and `MeaningKept`. They compare a stored value with every rule of
  the sink's types and with the meaning of its source: days of a calendar, digits
  and powers of ten, lengths in the encoding of a text. What such sums are for
  every input is induction over data, and the rules are some seventy
  pairs of families.

## 5. Not modelled

* The parsers of single values (binlog row images, the text forms of
  PostgreSQL's built-in types) and of declarations, and the text of SQL
  statements: conversions between formats without state. What they accept is in
  the samples of `MCFieldRoute`.
* Nested values are planned and converted as a whole; their fields are not
  converted one by one in `FieldRoute`.
* The intervals of a GTID set and the comparison of binlog file names: a position
  is a number, a GTID set a set of numbers.
* What a foreign key does to another table, or refuses because of it: the keys of
  `SinkApply` are kept. Rewrite rules of a PostgreSQL target; the sink does not
  look for them.
* Editing and probing of instances (only their revision), paging over source
  logs, the reader and writer of JSON lines and the command line's loops.
* HTTP routing, pages, encryption and catalog queries have no state of their own.
* The 5.7 and 8.4 connectors are modelled through the 8.0 code they repeat.

The Kafka control plane under `docs/design` is not implemented.

## 6. Plan

1. `StoredFits` for the families without a calendar.
2. Instances with their compare-and-set (`instances.rs`), and the list of a
   task's tables in `tasks.rs`.
3. The JSON reader and writer and the command line's capture and apply loops.
4. Positions: binlog file names and offsets and GTID interval sets against
   their reference definitions.
5. Paging over source logs.
