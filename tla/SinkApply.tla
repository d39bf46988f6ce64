----------------------------- MODULE SinkApply ------------------------------
(***************************************************************************)
(* How a sink writes: the initial copy and then one source transaction     *)
(* after another, statement by statement inside one transaction of the     *)
(* sink, each statement checked before the next (execute_statements,       *)
(* execute_snapshot and snapshot_targets of mysql_8_0/src/sql.rs and       *)
(* postgresql_15/src/sql.rs, inside the writers of checkpoint.rs).         *)
(*                                                                         *)
(* The table has a key, one column and, perhaps, a column generated from   *)
(* it.  Other clients of the sink write rows and redefine the table, as    *)
(* far as the locks of an open transaction let them.  Values arrive        *)
(* converted and bound (FieldRoute); the position is written in the        *)
(* transaction's COMMIT (CheckpointWriter).                                *)
(***************************************************************************)
EXTENDS Integers, FiniteSets, Sequences, Functions

CONSTANTS Keys,         \* the values of the key
          Values,       \* the values of the column
          Starts,       \* the tables a source may begin with
          MaxChanges,   \* how many changes the source makes
          MaxOthers     \* how often other clients interfere

ASSUME SinkAssumption ==
    /\ Keys \subseteq Nat \ {0} /\ IsFiniteSet(Keys)
    /\ Values \subseteq Nat \ {0} /\ Values # {}
    /\ Starts \subseteq UNION {[held -> Values] : held \in SUBSET Keys}
    /\ MaxChanges \in Nat /\ MaxOthers \in Nat

VARIABLES route,    \* the databases, and how the column is carried
          base,     \* the source's table
          made,     \* changes the source has made
          waiting,  \* transactions read and not committed by the sink
          phase,    \* "snapshot" or "incremental", of the checkpoint
          rows,     \* the sink's table as it is on its pages
          tx,       \* the open transaction, or NoTx
          schema,   \* how the table is defined, see Definitions
          others,   \* what other clients have done so far
          refused   \* whether the last attempt was refused

vars == <<route, base, made, waiting, phase, rows, tx, schema, others, refused>>

\* "plain" is the definition the task was qualified with.  The others: a
\* trigger rewrites what is stored; an engine or a kind of table without
\* rollback; row-level security, which PostgreSQL has; a foreign key of the
\* table, or of another one to it (the keys are kept); a narrower column, which
\* complains; a column that stores something else without a word; another
\* generating expression.
Definitions == {"plain", "trigger", "engine", "secured", "linked", "referenced",
                "narrow", "lossy", "expression"}

NoTx == [at |-> -1]
Absent == 0     \* no row, or no value
Least == CHOOSE v \in Values : \A w \in Values : v <= w

-----------------------------------------------------------------------------
(* The source.                                                             *)

Change(op, k, newKey, v, keeps) ==
    [op |-> op, key |-> k, newKey |-> newKey, value |-> v, keeps |-> keeps]

Changes ==
    {Change("insert", k, k, v, FALSE) : k \in Keys, v \in Values}
    \cup {Change("delete", k, k, Least, FALSE) : k \in Keys}
    \cup {Change("update", k, n, v, FALSE) : k \in Keys, n \in Keys, v \in Values}
    \cup {Change("update", k, n, Least, TRUE) : k \in Keys, n \in Keys}

\* A table with the rows of undo put back, where there were any.
Undone(table, undo) ==
    [k \in (DOMAIN table \ DOMAIN undo) \cup {j \in DOMAIN undo : undo[j] # Absent} |->
        IF k \in DOMAIN undo THEN undo[k] ELSE table[k]]

\* What the sink would hold if the transaction were lost now.
Committed ==
    IF tx = NoTx \/ schema = "engine" THEN rows ELSE Undone(rows, tx.undo)

Mirror == INSTANCE AtomicMirror WITH
    table <- Committed, copied <- (phase = "incremental"),
    exact <- (route.carrier \/ schema # "lossy")

\* MySQL logs full rows and no update that changes nothing.  PostgreSQL logs
\* every update and leaves out a large value it did not touch.
Logs(table, c) ==
    /\ Mirror!Applicable(table, c)
    /\ route.source = "mysql" =>
          ~ c.keeps /\ (c.op = "update" => c.newKey # c.key \/ c.value # table[c.key])

\* The table after the first n changes.
Made(table, changes, n) ==
    LET after[i \in 0..n] ==
            IF i = 0 THEN table ELSE Mirror!Effect(after[i - 1], changes[i], changes[i].value)
    IN after[n]

Init ==
    /\ route \in [source : {"mysql", "postgresql"}, sink : {"mysql", "postgresql"},
                  carrier : BOOLEAN, generated : BOOLEAN]
    \* A published PostgreSQL table sends no generated column.
    /\ route.source = "postgresql" => ~ route.generated
    /\ base \in Starts
    /\ made = 0
    /\ waiting = << >>
    \* Only a MySQL source is copied; a PostgreSQL task starts at its slot, over
    \* a table its owner has filled.
    /\ phase = IF route.source = "mysql" THEN "snapshot" ELSE "incremental"
    /\ rows = IF route.source = "mysql" THEN << >> ELSE base
    /\ tx = NoTx
    /\ schema = "plain"
    /\ others = 0
    /\ refused = FALSE

Copying == tx # NoTx /\ tx.copy

\* What commits before the copy's read view is part of the copy.
SourceCommit ==
    /\ \E c \in {d \in Changes : Logs(base, d)} :
          LET first == Made(base, <<c>>, 1) IN
          \E changes \in {<<c>>} \cup {<<c, d>> : d \in {e \in Changes : Logs(first, e)}} :
              /\ made' = made + Len(changes)
              /\ made' <= MaxChanges
              /\ base' = Made(base, changes, Len(changes))
              /\ waiting' = IF phase = "snapshot" /\ ~ Copying THEN waiting
                            ELSE Append(waiting, changes)
    /\ UNCHANGED <<route, phase, rows, tx, schema, others, refused>>

-----------------------------------------------------------------------------
(* The sink database (external).                                           *)

\* What the column stores of a value, and what the generated column shows.
StoredAs(v) == IF schema \in {"lossy", "trigger", "narrow"} THEN Least ELSE v
Generated(definition, v) == IF definition = "expression" THEN 0 ELSE v

\* A statement: the operation, the key of its WHERE and the columns it sets.
\* The pages after it:
Executed(s) ==
    LET rest == Restrict(rows, DOMAIN rows \ {s.where})
        value == IF "value" \in DOMAIN s.sets THEN StoredAs(s.sets.value) ELSE rows[s.where]
    IN IF s.op = "delete" \/ (s.op = "update" /\ s.where \notin DOMAIN rows) THEN rest
       ELSE Mirror!Put(rest, s.sets.key, value)

\* The server rejects a second row under a key.
Duplicate(s) ==
    \/ s.op = "insert" /\ s.sets.key \in DOMAIN rows
    \/ s.op = "update" /\ s.sets.key # s.where /\ {s.where, s.sets.key} \subseteq DOMAIN rows

\* It has a warning or an error for a value that does not fit.
Complains(s) == schema = "narrow" /\ "value" \in DOMAIN s.sets /\ s.sets.value # Least

\* MySQL counts the rows an update has changed, PostgreSQL those it has found.
Affected(s) ==
    IF \/ s.op # "insert" /\ s.where \notin DOMAIN rows
       \/ s.op = "update" /\ route.sink = "mysql" /\ Executed(s) = rows
    THEN 0 ELSE 1

\* The keys whose rows the transaction has read for update or written.
Locked == IF tx = NoTx THEN {} ELSE DOMAIN tx.undo

Touch(ks) ==
    [k \in DOMAIN tx.undo \cup ks |->
        IF k \in DOMAIN tx.undo THEN tx.undo[k]
        ELSE IF k \in DOMAIN rows THEN rows[k] ELSE Absent]

Rollback ==
    /\ rows' = Committed
    /\ tx' = NoTx

-----------------------------------------------------------------------------
(* The writer.                                                             *)

Begin(copy, changes) == [copy |-> copy, changes |-> changes, at |-> 0, undo |-> << >>]

\* The keys of a table in ascending order, and the rows in that order.
Ascending(table) ==
    {keys \in [1..Cardinality(DOMAIN table) -> DOMAIN table] :
        \A i, j \in DOMAIN keys : i < j => keys[i] < keys[j]}
CopyOf(table, keys) ==
    [i \in DOMAIN keys |-> Change("insert", keys[i], keys[i], table[keys[i]], FALSE)]

\* Mutant: a copy that starts over keeps the transactions read for the last.
BeginCopyKeepsWaiting ==
    /\ phase = "snapshot" /\ tx = NoTx
    /\ \E keys \in Ascending(base) : tx' = Begin(TRUE, CopyOf(base, keys))
    /\ UNCHANGED <<route, base, made, waiting, phase, rows, schema, others, refused>>

\* The read view is taken and its position prepared.
BeginCopy ==
    /\ phase = "snapshot" /\ tx = NoTx
    /\ \E keys \in Ascending(base) : tx' = Begin(TRUE, CopyOf(base, keys))
    /\ waiting' = << >>
    /\ UNCHANGED <<route, base, made, phase, rows, schema, others, refused>>

BeginApply ==
    /\ phase = "incremental" /\ tx = NoTx /\ waiting # << >>
    /\ tx' = Begin(FALSE, Head(waiting))
    /\ UNCHANGED <<route, base, made, waiting, phase, rows, schema, others, refused>>

-----------------------------------------------------------------------------
(* What is rendered for a change: the statement, a probe for the old row,  *)
(* and what is looked at afterwards, under the new key.                    *)

\* The row after the change; what the log leaves out is absent.
AfterImage(c) == [key |-> c.newKey, value |-> IF c.keeps THEN Absent ELSE c.value]
Writable(image) == Restrict(image, {column \in DOMAIN image : image[column] # Absent})

Look(k, v) == [key |-> k, value |-> v]

MySqlWriteChange(c) ==
    [op |-> c.op, where |-> c.key,
     sets |-> IF c.op = "delete" THEN << >> ELSE Writable(AfterImage(c))]

\* A carried value is read back and compared; one that is not written is not.
MySqlReadbacks(c) ==
    IF route.carrier /\ c.op # "delete" /\ AfterImage(c).value # Absent
    THEN {Look(c.newKey, c.value)} ELSE {}

\* Mutant: the affected rows alone are trusted.
MySqlProbeNothing(c) == {}

MySqlProbe(c) == IF c.op = "insert" THEN {} ELSE {c.key}

MySqlPlanned(c) ==
    [statement |-> MySqlWriteChange(c), probe |-> MySqlProbe(c),
     readbacks |-> MySqlReadbacks(c), verification |-> {}]

PgRenderChange(c) ==
    [op |-> c.op, where |-> c.key,
     sets |-> IF c.op = "delete" THEN << >> ELSE Writable(AfterImage(c))]

PgProbe(c) == IF c.op = "insert" THEN {} ELSE {c.key}

PgCarrierReadbacks(c) ==
    IF route.carrier /\ c.op # "delete" /\ AfterImage(c).value # Absent
    THEN {Look(c.newKey, c.value)} ELSE {}

\* Mutant: the row is looked for under its old key.
PgVerificationOldKey(c) ==
    IF route.generated /\ c.op # "delete" /\ c.key = c.newKey
    THEN {Look(c.key, Generated("plain", c.value))} ELSE {}

\* The generated column must come out as the source observed it.
PgVerification(c) ==
    IF route.generated /\ c.op # "delete"
    THEN {Look(c.newKey, Generated("plain", c.value))} ELSE {}

PgPlanned(c) ==
    [statement |-> PgRenderChange(c), probe |-> PgProbe(c),
     readbacks |-> PgCarrierReadbacks(c), verification |-> PgVerification(c)]

\* A row of the copy is inserted, with no probe and no look.
SnapshotSql(c) ==
    [statement |-> [op |-> "insert", where |-> c.key, sets |-> Writable(AfterImage(c))],
     probe |-> {}, readbacks |-> {}, verification |-> {}]

Planned(c) ==
    CASE tx.copy -> SnapshotSql(c)
      [] route.sink = "mysql" /\ ~ tx.copy -> MySqlPlanned(c)
      [] route.sink = "postgresql" /\ ~ tx.copy -> PgPlanned(c)

-----------------------------------------------------------------------------
(* What the sink checks while it executes.                                 *)

MySqlReadsBack(look, after) == look.key \in DOMAIN after /\ after[look.key] = look.value
PgReadsBack(look, after) == look.key \in DOMAIN after /\ after[look.key] = look.value

\* Mutant: every statement must affect one row.
MySqlCountsOne(s) == Affected(s) = 1

MySqlCounts(s) == IF s.op = "update" THEN Affected(s) <= 1 ELSE Affected(s) = 1

\* MySQL: the warnings and the count, then the carriers.
MySqlExecutes(planned) ==
    /\ planned.probe \subseteq DOMAIN rows
    /\ ~ Duplicate(planned.statement)
    /\ ~ Complains(planned.statement)
    /\ MySqlCounts(planned.statement)
    /\ \A look \in planned.readbacks : MySqlReadsBack(look, Executed(planned.statement))

\* PostgreSQL fails with an error; the generated columns come first.
PgExecutes(planned) ==
    LET after == Executed(planned.statement) IN
    /\ planned.probe \subseteq DOMAIN rows
    /\ ~ Duplicate(planned.statement)
    /\ ~ Complains(planned.statement)
    /\ Affected(planned.statement) = 1
    /\ \A look \in planned.verification :
          look.key \in DOMAIN after /\ Generated(schema, after[look.key]) = look.value
    /\ \A look \in planned.readbacks : PgReadsBack(look, after)

\* A row of the copy: the warnings and the count.
MySqlInserts(planned) ==
    /\ ~ Duplicate(planned.statement) /\ ~ Complains(planned.statement)
    /\ Affected(planned.statement) = 1

PgInserts(planned) ==
    /\ ~ Duplicate(planned.statement) /\ ~ Complains(planned.statement)
    /\ Affected(planned.statement) = 1

Accepted(c) ==
    CASE route.sink = "mysql" -> IF tx.copy THEN MySqlInserts(Planned(c)) ELSE MySqlExecutes(Planned(c))
      [] route.sink = "postgresql" -> IF tx.copy THEN PgInserts(Planned(c)) ELSE PgExecutes(Planned(c))

\* The tables are locked against redefinition until COMMIT and looked at: an
\* engine with rollback, or an ordinary permanent table without row-level
\* security, and no triggers.
MySqlChecksTables == schema \notin {"trigger", "engine"}
PgChecksTables == schema \notin {"trigger", "engine", "secured"}

\* A table to copy into is empty, too, and has no foreign keys; MySQL refuses
\* those of other tables to it as well.
MySqlSnapshotTargets ==
    MySqlChecksTables /\ schema \notin {"linked", "referenced"} /\ DOMAIN rows = {}
PgSnapshotTargets == PgChecksTables /\ schema # "linked" /\ DOMAIN rows = {}

QualifiedTable ==
    CASE route.sink = "mysql" -> IF tx.copy THEN MySqlSnapshotTargets ELSE MySqlChecksTables
      [] route.sink = "postgresql" -> IF tx.copy THEN PgSnapshotTargets ELSE PgChecksTables

CheckTables ==
    /\ tx # NoTx /\ tx.at = 0
    /\ QualifiedTable
    /\ tx' = [tx EXCEPT !.at = 1]
    /\ UNCHANGED <<route, base, made, waiting, phase, rows, schema, others, refused>>

Statement ==
    /\ tx # NoTx /\ tx.at \in 1..Len(tx.changes)
    /\ LET c == tx.changes[tx.at] IN
       /\ Accepted(c)
       /\ rows' = Executed(Planned(c).statement)
       /\ tx' = [tx EXCEPT !.at = @ + 1, !.undo = Touch({c.key, c.newKey})]
    /\ UNCHANGED <<route, base, made, waiting, phase, schema, others, refused>>

\* A check fails: the transaction is rolled back and the task stops.
Refuse ==
    /\ tx # NoTx
    /\ \/ tx.at = 0 /\ ~ QualifiedTable
       \/ tx.at \in 1..Len(tx.changes) /\ ~ Accepted(tx.changes[tx.at])
    /\ Rollback
    /\ refused' = TRUE
    /\ UNCHANGED <<route, base, made, waiting, phase, schema, others>>

\* The position, or the end of the copy, is committed with the rows.
Commit ==
    /\ tx # NoTx /\ tx.at = Len(tx.changes) + 1
    /\ tx' = NoTx
    /\ waiting' = IF tx.copy THEN waiting ELSE Tail(waiting)
    /\ phase' = "incremental"
    /\ refused' = FALSE
    /\ UNCHANGED <<route, base, made, rows, schema, others>>

\* The connection is lost, or the task is stopped during the copy.
Lose ==
    /\ tx # NoTx
    /\ Rollback
    /\ UNCHANGED <<route, base, made, waiting, phase, schema, others, refused>>

-----------------------------------------------------------------------------
(* Other clients of the sink.                                              *)

\* MySQL's copy has locked the empty table, PostgreSQL's has not.
OtherWrites ==
    /\ others < MaxOthers
    /\ ~ (route.sink = "mysql" /\ Copying /\ tx.at > 0)
    /\ \E k \in Keys \ Locked :
          \/ \E v \in Values : rows' = Mirror!Put(rows, k, v)
          \/ k \in DOMAIN rows /\ rows' = Restrict(rows, DOMAIN rows \ {k})
    /\ others' = others + 1
    /\ UNCHANGED <<route, base, made, waiting, phase, tx, schema, refused>>

\* A narrower column must hold what is there; a lossy one rewrites it.
OtherAlters(definition) ==
    /\ others < MaxOthers
    /\ tx = NoTx \/ tx.at = 0
    /\ definition # schema
    /\ definition = "secured" => route.sink = "postgresql"
    /\ definition = "narrow" => \A k \in DOMAIN rows : rows[k] = Least
    /\ schema' = definition
    /\ rows' = IF definition = "lossy" THEN [k \in DOMAIN rows |-> Least] ELSE rows
    /\ others' = others + 1
    /\ UNCHANGED <<route, base, made, waiting, phase, tx, refused>>

Next ==
    \/ SourceCommit
    \/ BeginCopy \/ BeginApply \/ CheckTables \/ Statement \/ Refuse \/ Commit \/ Lose
    \/ OtherWrites
    \/ \E definition \in Definitions : OtherAlters(definition)

Spec == Init /\ [][Next]_vars

-----------------------------------------------------------------------------
(* Properties.                                                             *)

\* The open transaction is the copy of a task that has none, or the next
\* waiting transaction of one that has.
TypeOK ==
    /\ made \in 0..MaxChanges /\ others \in 0..MaxOthers
    /\ schema \in Definitions /\ refused \in BOOLEAN
    /\ base \in Mirror!Tables /\ rows \in Mirror!Tables
    /\ tx # NoTx =>
          /\ tx.at \in 0..(Len(tx.changes) + 1)
          /\ IF tx.copy THEN phase = "snapshot"
             ELSE phase = "incremental" /\ tx.changes = Head(waiting)

\* The table after the first n transactions.
Replayed(table, transactions, n) ==
    LET after[i \in 0..n] ==
            IF i = 0 THEN table
            ELSE Made(after[i - 1], transactions[i], Len(transactions[i]))
    IN after[n]

\* While nobody else touches the table it is the source's: what is committed,
\* with what waits, gives the source's rows.  Lost connections, refused and
\* repeated attempts, updates of keys and values left out of the log included.
Mirrored ==
    phase = "incremental" /\ others = 0 =>
        Replayed(Committed, waiting, Len(waiting)) = base

\* Whatever other clients did to its rows, a source transaction is applied
\* whole to the rows it names or not at all, and never skipped because a row
\* was missing, changed or already there; a half-written one never stays
\* behind.
KeepsMirror == Mirror!Spec

\* The last change of the transaction to the row under a key.
LastWrite(i, k) ==
    /\ tx.changes[i].op # "delete" /\ tx.changes[i].newKey = k
    /\ \A j \in (i + 1)..Len(tx.changes) : k \notin {tx.changes[j].key, tx.changes[j].newKey}

\* At COMMIT every row the transaction wrote has been compared with the
\* source's where the sink promises to: a carried value, and in PostgreSQL the
\* generated column.  No redefinition and no other client comes between.
CommitsWhatWasVerified ==
    tx # NoTx /\ ~ tx.copy /\ tx.at = Len(tx.changes) + 1 =>
        \A i \in DOMAIN tx.changes, k \in Keys :
            LastWrite(i, k) /\ ~ tx.changes[i].keeps =>
                /\ route.carrier => rows[k] = tx.changes[i].value
                /\ route.sink = "postgresql" /\ route.generated =>
                       Generated(schema, rows[k]) = Generated("plain", tx.changes[i].value)

\* A sink that is left alone refuses nothing: an update that changes nothing,
\* a row that moves and comes back, a value left out of the log are no errors.
RefusedWithCause == refused => others > 0
=============================================================================
