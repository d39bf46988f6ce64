---------------------------- MODULE SourceSnapshot ----------------------------
(***************************************************************************)
(* The initial copy of a task's tables: snapshot() and SnapshotReader of   *)
(* crates/mysql_8_0/src/snapshot.rs (the 5.7 and 8.4 readers have the same *)
(* code) against a source that goes on committing.                         *)
(*                                                                         *)
(* Two connections are involved: one holds FLUSH TABLES WITH READ LOCK,    *)
(* the other reads the boundary, opens the read view and scans.  The       *)
(* server may end the first one at any time (wait_timeout, KILL), which    *)
(* silently gives the lock back.  A row is its primary key; the position   *)
(* of the source is the number of commits.                                 *)
(***************************************************************************)
EXTENDS Integers, FiniteSets

CONSTANTS
    LastTable,  \* the scope is the tables 1..LastTable, in this order
    LastKey,    \* primary keys are 1..LastKey
    BatchRows,  \* BATCH_ROWS
    MaxCommits  \* bound: commits of the source

ASSUME LastTableAssumption == LastTable \in Nat \ {0}
ASSUME LastKeyAssumption == LastKey \in Nat
ASSUME BatchRowsAssumption == BatchRows \in Nat \ {0}
ASSUME MaxCommitsAssumption == MaxCommits \in Nat

Table == 1..LastTable
Key == 1..LastKey

VARIABLES
    rows,       \* rows[t]: keys in table t at the source
    schema,     \* schema[t]: version of t's definition
    commits,    \* commits at the source: its binlog position
    lock,       \* the global read lock: "free", "held", or "lost" by its connection
    pins,       \* tables whose definition the reader's transaction locks
    pc,         \* where snapshot() and the scan are
    boundary,   \* SnapshotBoundary: the position read under the lock
    view,       \* what the consistent read view shows
    columns,    \* columns[t]: the definition load_columns read
    table,      \* SnapshotReader.table_index, counted from 1
    last,       \* SnapshotReader.last_key, 0 when empty
    copied      \* copied[t][k]: times row k of t went into the sink's transaction

source == <<rows, schema, commits>>
reader == <<boundary, view, columns, table, last, copied>>
vars == <<source, lock, pins, pc, reader>>

Contents == [Table -> SUBSET Key]
Definitions == [Table -> 0..MaxCommits]
Scanning == {"columns", "scan"}
Initialising == {"locked", "status", "pin", "unlock"}

TypeOK ==
    /\ rows \in Contents
    /\ schema \in Definitions
    /\ commits \in 0..MaxCommits
    /\ lock \in {"free", "held", "lost"}
    /\ pins \subseteq Table
    /\ pc \in Initialising \cup Scanning \cup {"idle", "copied", "failed"}
    /\ boundary \in 0..MaxCommits
    /\ view \in [rows: Contents, schema: Definitions, at: 0..MaxCommits]
    /\ columns \in Definitions
    /\ table \in 1..LastTable + 1
    /\ last \in 0..LastKey
    /\ copied \in [Table -> [Key -> Nat]]

Nothing == [t \in Table |-> [k \in Key |-> 0]]
Fresh == [t \in Table |-> 0]
NoView == [rows |-> [t \in Table |-> {}], schema |-> Fresh, at |-> 0]

Init ==
    /\ rows \in Contents
    /\ schema = Fresh
    /\ commits = 0
    /\ lock = "free"
    /\ pins = {}
    /\ pc = "idle"
    /\ boundary = 0
    /\ view = NoView
    /\ columns = Fresh
    /\ table = 1
    /\ last = 0
    /\ copied = Nothing

-------------------------------------------------------------------------------
(* The source server.                                                      *)

Commits == commits < MaxCommits /\ lock # "held" /\ commits' = commits + 1

(* A transaction inserts or deletes row k of t.                            *)
SourceWrite(t, k) ==
    /\ Commits
    /\ rows' = [rows EXCEPT ![t] = IF k \in @ THEN @ \ {k} ELSE @ \cup {k}]
    /\ UNCHANGED <<schema, lock, pins, pc, reader>>

(* DDL waits for the metadata locks of the reader's transaction.           *)
SourceAlter(t) ==
    /\ Commits
    /\ t \notin pins
    /\ schema' = [schema EXCEPT ![t] = @ + 1]
    /\ UNCHANGED <<rows, lock, pins, pc, reader>>

(* The server ends the connection that holds the lock.                     *)
LockExpires ==
    /\ lock = "held"
    /\ lock' = "lost"
    /\ UNCHANGED <<source, pins, pc, reader>>

-------------------------------------------------------------------------------
(* snapshot(): both connections are open and on one server.                *)

AcquireLock ==
    /\ pc = "idle"
    /\ lock' = "held"
    /\ pc' = "locked"
    /\ UNCHANGED <<source, pins, reader>>

ReadStatus ==
    /\ pc = "locked"
    /\ boundary' = commits
    /\ pc' = "status"
    /\ UNCHANGED <<source, lock, pins, view, columns, table, last, copied>>

OpenView ==
    /\ pc = "status"
    /\ view' = [rows |-> rows, schema |-> schema, at |-> commits]
    /\ pc' = "pin"
    /\ UNCHANGED <<source, lock, pins, boundary, columns, table, last, copied>>
(* Faulty variant: only the first table is pinned.                         *)
PinFirst(t) ==
    /\ pc = "pin"
    /\ pins = 1..t - 1
    /\ pins' = pins \cup {t}
    /\ pc' = "unlock"
    /\ UNCHANGED <<source, lock, reader>>

(* SELECT * FROM t LIMIT 0, one table after the other.                     *)
PinTable(t) ==
    /\ pc = "pin"
    /\ pins = 1..t - 1
    /\ pins' = pins \cup {t}
    /\ pc' = IF t = LastTable THEN "unlock" ELSE "pin"
    /\ UNCHANGED <<source, lock, reader>>
(* Faulty variant: an UNLOCK that is not confirmed is ignored.             *)
ReleaseUnconfirmed ==
    /\ pc = "unlock"
    /\ lock' = "free"
    /\ pc' = "columns"
    /\ UNCHANGED <<source, pins, reader>>

(* UNLOCK TABLES succeeds only on the connection that took the lock.       *)
ReleaseLock ==
    /\ pc = "unlock"
    /\ lock = "held"
    /\ lock' = "free"
    /\ pc' = "columns"
    /\ UNCHANGED <<source, pins, reader>>

LoadColumns ==
    /\ pc = "columns"
    /\ columns' = schema
    /\ pc' = "scan"
    /\ UNCHANGED <<source, lock, pins, boundary, view, table, last, copied>>
(* Faulty variant: an error leaves the lock to the idle connection.        *)
FailsLocked ==
    /\ pc \in Initialising \cup Scanning
    /\ pc' = "failed"
    /\ pins' = {}
    /\ copied' = Nothing
    /\ UNCHANGED <<source, lock, boundary, view, columns, table, last>>

(* An error: a cancelled task, the eight-second budget, an unconfirmed     *)
(* UNLOCK, a lost connection, a batch over its limit.  ReadLock::drop      *)
(* unlocks, the reader's transaction ends, the sink's rolls back.          *)
Fails ==
    /\ pc \in Initialising \cup Scanning
    /\ pc' = "failed"
    /\ lock' = "free"
    /\ pins' = {}
    /\ copied' = Nothing
    /\ UNCHANGED <<source, boundary, view, columns, table, last>>

(* The next start of the task copies everything again.                     *)
Restart ==
    /\ pc = "failed"
    /\ pc' = "idle"
    /\ boundary' = 0
    /\ view' = NoView
    /\ columns' = Fresh
    /\ table' = 1
    /\ last' = 0
    /\ UNCHANGED <<source, lock, pins, copied>>

-------------------------------------------------------------------------------
(* next_batch: SELECT ... WHERE key > last_key ORDER BY key LIMIT          *)
(* BATCH_ROWS in the read view.                                            *)

Batch ==
    LET rest == {k \in view.rows[table] : last < k}
    IN  {k \in rest : Cardinality({j \in rest : j < k}) < BatchRows}
(* Faulty variant: a full batch is taken for the last one.                 *)
LastWhenFull(batch) == Cardinality(batch) <= BatchRows

LastInTable(batch) == Cardinality(batch) < BatchRows

Highest(batch) == CHOOSE k \in batch : \A j \in batch : j <= k

(* copy_snapshot takes the batch into its transaction at once.             *)
NextBatch ==
    /\ pc = "scan"
    /\ table \in Table
    /\ copied' = [copied EXCEPT ![table] = [k \in Key |-> @[k] + (IF k \in Batch THEN 1 ELSE 0)]]
    /\ table' = IF LastInTable(Batch) THEN table + 1 ELSE table
    /\ last' = IF LastInTable(Batch) THEN 0 ELSE Highest(Batch)
    /\ UNCHANGED <<source, lock, pins, pc, boundary, view, columns>>

(* All tables are through: the copy commits and the reader is dropped.     *)
ScanEnds ==
    /\ pc = "scan"
    /\ table = LastTable + 1
    /\ pc' = "copied"
    /\ pins' = {}
    /\ UNCHANGED <<source, lock, reader>>

-------------------------------------------------------------------------------
Reader ==
    \/ AcquireLock \/ ReadStatus \/ OpenView
    \/ \E t \in Table : PinTable(t)
    \/ ReleaseLock \/ LoadColumns \/ NextBatch \/ ScanEnds
    \/ Fails \/ Restart

Next ==
    \/ \E t \in Table : SourceAlter(t) \/ \E k \in Key : SourceWrite(t, k)
    \/ LockExpires
    \/ Reader

Spec == Init /\ [][Next]_vars

(* The worker thread runs; the source need not commit and the lock need    *)
(* not expire.                                                             *)
FairSpec == Spec /\ WF_vars(Reader)

-------------------------------------------------------------------------------
(* A snapshot that is used shows the source exactly at its boundary, even  *)
(* when the lock's connection ended in between: the incremental stream     *)
(* that starts there repeats and misses nothing (snapshot()).              *)
BoundaryIsView == pc \in Scanning \cup {"copied"} => boundary = view.at

(* The columns read after the unlock are those of the read view, so no row *)
(* is decoded with another definition (load_columns after release).        *)
ColumnsMatchView == pc \in {"scan", "copied"} => columns = view.schema

(* The copy holds every row of the read view once and no other row, also   *)
(* when a table's size is a multiple of the batch (next_batch).            *)
ScanComplete ==
    pc = "copied" => \A t \in Table : copied[t] = [k \in Key |-> IF k \in view.rows[t] THEN 1 ELSE 0]

(* The source is never left under the global read lock (ReadLock::drop).   *)
LockReleased == lock = "held" ~> lock # "held"
===============================================================================
