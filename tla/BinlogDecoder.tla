----------------------------- MODULE BinlogDecoder -----------------------------
(***************************************************************************)
(* From binlog events to transactions: Decoder of crates/mysql_8_0/src/    *)
(* decoder.rs under the BinlogStream iterator of binlog.rs (the 5.7 and    *)
(* 8.4 sources have the same code).                                        *)
(*                                                                         *)
(* The source writes whole groups of events; it may rotate its binlog file *)
(* between two groups.  A stream starts after a checkpoint with a new      *)
(* decoder and is cut off at any event.  reject_statements is TRUE, as     *)
(* every caller has it.  Row images, column types and the contents of      *)
(* statements are left out: a row is the index of its event in the log.    *)
(***************************************************************************)
EXTENDS Integers, Sequences

CONSTANTS
    Tables,     \* tables of the source
    Captures,   \* values of capture_tables: {} is the CLI's unrestricted capture
    MaxChanges, \* MAX_TRANSACTION_BYTES, in row events
    MaxGroups,  \* bound: groups the source writes
    MaxFiles    \* bound: binlog files

ASSUME CapturesAssumption == Captures \subseteq SUBSET Tables
ASSUME MaxChangesAssumption == MaxChanges \in Nat
ASSUME MaxGroupsAssumption == MaxGroups \in Nat
ASSUME MaxFilesAssumption == MaxFiles \in Nat \ {0}

VARIABLES
    captured,   \* Decoder.capture_tables
    log,        \* events the source has written, over all its binlog files
    groups,     \* groups the source has written
    file,       \* Decoder.current_file
    known,      \* Decoder.tables: tables with a TABLE_MAP
    pending,    \* Decoder.pending
    next,       \* index in log of the next event of the stream
    greeted,    \* the stream has received the rotate event that opens a dump
    omit,       \* groups the source leaves out of this stream
    ended,      \* how the stream is: "open", "closed" or "failed"
    emitted     \* transactions the stream has returned

written == <<captured, log, groups>>
decoder == <<file, known, pending>>
stream == <<next, greeted, omit>>
vars == <<written, decoder, stream, ended, emitted>>

-------------------------------------------------------------------------------
(* The source's binlog.                                                    *)

Kinds == {"gtid", "begin", "map", "rows", "xid", "commit", "rollback", "control", "modify",
          "statement", "rotate"}

Event(kind, table) == [kind |-> kind, table |-> table]
Plain(kind) == Event(kind, "none")

Gtid == Plain("gtid")
Opened == Plain("begin")

(* The groups a server writes: a transaction with rows, each after the     *)
(* TABLE_MAP of its table, one that ends in ROLLBACK, an empty one, a      *)
(* statement of CheckpointWriter::open of another task (CREATE and ADD     *)
(* COLUMN, or MODIFY COLUMN) and any other statement.                      *)
Bodies ==
    {<<Gtid, Opened, Event("map", t), Event("rows", t), Plain(end)>> :
        t \in Tables, end \in {"xid", "rollback"}}
    \cup {<<Gtid, Opened, Event("map", t), Event("rows", t), Event("map", u), Event("rows", u),
            Plain("xid")>> : t, u \in Tables}
    \cup {<<Gtid, Opened, Plain("commit")>>}
    \cup {<<Gtid, Plain(kind)>> : kind \in {"control", "modify", "statement"}}

(* An event in the log: its file and the position where it ends.           *)
LastFile == IF log = <<>> THEN 1 ELSE log[Len(log)].file + (IF log[Len(log)].kind = "rotate" THEN 1 ELSE 0)
LastPos == IF log = <<>> \/ log[Len(log)].kind = "rotate" THEN 0 ELSE log[Len(log)].pos

Placed(body, group) ==
    [i \in 1..Len(body) |->
        [kind |-> body[i].kind, table |-> body[i].table, group |-> group,
         file |-> LastFile, pos |-> LastPos + i]]

SourceWrites(body) ==
    /\ groups < MaxGroups
    /\ groups' = groups + 1
    /\ log' = log \o Placed(body, groups + 1)
    /\ UNCHANGED <<captured, decoder, stream, ended, emitted>>

SourceRotates ==
    /\ LastFile < MaxFiles
    /\ LastPos > 0
    /\ log' = log \o Placed(<<Plain("rotate")>>, 0)
    /\ UNCHANGED <<captured, groups, decoder, stream, ended, emitted>>

Cursor(f, pos) == [file |-> f, pos |-> pos]
NoPending == [id |-> 0, begin |-> Cursor(0, 0), began |-> FALSE, changes |-> <<>>]
Started(id, cursor, began) == [id |-> id, begin |-> cursor, began |-> began, changes |-> <<>>]

GroupEvents(g) == {i \in 1..Len(log) : log[i].group = g}
LastOf(g) == CHOOSE i \in GroupEvents(g) : \A j \in GroupEvents(g) : j <= i
FileAt(i) == IF i <= Len(log) THEN log[i].file ELSE LastFile

-------------------------------------------------------------------------------
Filtered == captured # {}
Decoded(table) == ~Filtered \/ table \in captured

Init ==
    /\ captured \in Captures
    /\ log = <<>>
    /\ groups = 0
    /\ file = 1
    /\ known = {}
    /\ pending = NoPending
    /\ next = 1
    /\ greeted = FALSE
    /\ omit = {}
    /\ ended = "closed"
    /\ emitted = <<>>

(* binlog(): a new decoder, and a dump that starts after a checkpoint.     *)
Open(f, start, set) ==
    /\ ended # "open"
    /\ file' = f
    /\ known' = {}
    /\ pending' = NoPending
    /\ next' = start
    /\ greeted' = FALSE
    /\ omit' = set
    /\ ended' = "open"
    /\ emitted' = <<>>
    /\ UNCHANGED written

(* By file and position: the end of group g, or the start of the log.      *)
OpenAtPosition(g) ==
    LET start == IF g = 0 THEN 1 ELSE LastOf(g) + 1
    IN  Open(IF g = 0 THEN 1 ELSE log[LastOf(g)].file, start, 1..g)

(* By GTID set: the decoder is given the newest file, while the dump       *)
(* begins with the oldest; groups of the set are left out.                 *)
OpenWithGtids(set) == Open(LastFile, 1, set)

-------------------------------------------------------------------------------
(* Decoder::decode, one action per kind of event.                          *)

(* i is the next event the source sends.                                   *)
Sent(i) ==
    /\ ended = "open"
    /\ greeted
    /\ i \in next..Len(log)
    /\ log[i].group \notin omit
    /\ \A j \in next..i - 1 : log[j].group \in omit

Taken(i) == next' = i + 1 /\ UNCHANGED <<written, greeted, omit>>

Here(i) == Cursor(file, log[i].pos)
(* Faulty variant: the file the decoder was given is kept.                 *)
GreetingIgnored ==
    /\ ended = "open"
    /\ ~greeted
    /\ greeted' = TRUE
    /\ UNCHANGED <<written, decoder, next, omit, ended, emitted>>

(* The rotate event with which the server opens every dump.                *)
Greeting ==
    /\ ended = "open"
    /\ ~greeted
    /\ greeted' = TRUE
    /\ file' = FileAt(next)
    /\ known' = {}
    /\ UNCHANGED <<written, pending, next, omit, ended, emitted>>

Rotate(i) ==
    /\ Sent(i)
    /\ log[i].kind = "rotate"
    /\ pending.id = 0
    /\ file' = log[i].file + 1
    /\ known' = {}
    /\ Taken(i)
    /\ UNCHANGED <<pending, ended, emitted>>

StoreTableMap(i) ==
    /\ Sent(i)
    /\ log[i].kind = "map"
    /\ known' = known \cup {log[i].table}
    /\ Taken(i)
    /\ UNCHANGED <<file, pending, ended, emitted>>

StartTransaction(i) ==
    /\ Sent(i)
    /\ log[i].kind = "gtid"
    /\ pending.id = 0
    /\ pending' = Started(log[i].group, Here(i), FALSE)
    /\ Taken(i)
    /\ UNCHANGED <<file, known, ended, emitted>>

Begin(i) ==
    /\ Sent(i)
    /\ log[i].kind = "begin"
    /\ ~pending.began
    /\ pending' = IF pending.id = 0 THEN Started(log[i].group, Here(i), TRUE)
                  ELSE [pending EXCEPT !.begin = Here(i), !.began = TRUE]
    /\ Taken(i)
    /\ UNCHANGED <<file, known, ended, emitted>>

(* handle_rows: rows of a table that is not captured are passed over.      *)
HandleRows(i) ==
    /\ Sent(i)
    /\ log[i].kind = "rows"
    /\ log[i].table \in known
    /\ IF Decoded(log[i].table)
          THEN /\ pending.began
               /\ Len(pending.changes) < MaxChanges
               /\ pending' = [pending EXCEPT !.changes = Append(@, i)]
          ELSE UNCHANGED pending
    /\ Taken(i)
    /\ UNCHANGED <<file, known, ended, emitted>>

Transaction(p, cursor) ==
    [id |-> p.id, begin |-> p.begin, commit |-> cursor, changes |-> p.changes]

(* finish_transaction of p: an empty transaction is returned only when     *)
(* tables are filtered, for the checkpoint to observe.                     *)
Finish(p, cursor) ==
    /\ p.id # 0 => p.began
    /\ pending' = NoPending
    /\ emitted' = IF p.id = 0 \/ (p.changes = <<>> /\ ~Filtered) THEN emitted
                  ELSE Append(emitted, Transaction(p, cursor))

Commit(i) ==
    /\ Sent(i)
    /\ log[i].kind \in {"xid", "commit"}
    /\ Finish(pending, Here(i))
    /\ Taken(i)
    /\ UNCHANGED <<file, known, ended>>
(* Faulty variant: the rolled back transaction stays in the buffer.        *)
RollbackKept(i) ==
    /\ Sent(i)
    /\ log[i].kind = "rollback"
    /\ Taken(i)
    /\ UNCHANGED <<decoder, ended, emitted>>

Rollback(i) ==
    /\ Sent(i)
    /\ log[i].kind = "rollback"
    /\ pending' = NoPending
    /\ Taken(i)
    /\ UNCHANGED <<file, known, ended, emitted>>

(* The statements of the control schema that handle_query lets through.    *)
ControlDdl(kind) == kind = "control"

ControlStatement(i) ==
    /\ Sent(i)
    /\ ControlDdl(log[i].kind)
    /\ IF Filtered
          THEN Finish(IF pending.id = 0 THEN pending ELSE [pending EXCEPT !.began = TRUE], Here(i))
          ELSE /\ pending' = IF pending.changes = <<>> THEN NoPending ELSE pending
               /\ UNCHANGED emitted
    /\ Taken(i)
    /\ UNCHANGED <<file, known, ended>>

-------------------------------------------------------------------------------
(* The end of a stream.                                                    *)

Ends(outcome) ==
    /\ ended = "open"
    /\ ended' = outcome
    /\ UNCHANGED <<written, decoder, stream, emitted>>

(* Events the decoder does not take where they are.                        *)
OutOfPlace(i) ==
    \/ log[i].kind \in {"rotate", "gtid"} /\ pending.id # 0
    \/ log[i].kind = "begin" /\ pending.began
    \/ log[i].kind = "rows" /\ log[i].table \notin known
    \/ log[i].kind = "rows" /\ Decoded(log[i].table) /\ ~pending.began
    \/ log[i].kind \in {"xid", "commit"} /\ pending.id # 0 /\ ~pending.began

(* ... and events it never takes: statements, and a row too many.          *)
Rejected(i) ==
    \/ log[i].kind \in {"modify", "statement"} /\ ~ControlDdl(log[i].kind)
    \/ /\ log[i].kind = "rows"
       /\ Decoded(log[i].table)
       /\ Len(pending.changes) = MaxChanges

DecodeFails(i) ==
    /\ Sent(i)
    /\ OutOfPlace(i) \/ Rejected(i)
    /\ Ends("failed")

(* The driver has no more events, or max_events is reached: ensure_complete.*)
StreamEnds == Ends(IF pending.id = 0 THEN "closed" ELSE "failed")

(* The driver or validate_change_event fails.                              *)
StreamFails == Ends("failed")

(* The task's stop flag is set.                                            *)
StreamStops == Ends("closed")

-------------------------------------------------------------------------------
Decode(i) ==
    \/ Rotate(i) \/ StoreTableMap(i) \/ StartTransaction(i) \/ Begin(i) \/ HandleRows(i)
    \/ Commit(i) \/ Rollback(i) \/ ControlStatement(i) \/ DecodeFails(i)

Next ==
    \/ \E body \in Bodies : SourceWrites(body)
    \/ SourceRotates
    \/ \E g \in 0..groups : OpenAtPosition(g)
    \/ \E set \in SUBSET (1..groups) : OpenWithGtids(set)
    \/ Greeting
    \/ \E i \in 1..Len(log) : Decode(i)
    \/ StreamEnds \/ StreamFails \/ StreamStops

Spec == Init /\ [][Next]_vars

-------------------------------------------------------------------------------
CursorShape == [file : Nat, pos : Nat]
LogShape == [kind : Kinds, table : Tables \cup {"none"}, group : Nat, file : Nat, pos : Nat]
PendingShape == [id : Nat, begin : CursorShape, began : BOOLEAN, changes : Seq(Nat)]
EmittedShape == [id : Nat, begin : CursorShape, commit : CursorShape, changes : Seq(Nat)]

TypeOK ==
    /\ captured \in Captures
    /\ log \in Seq(LogShape)
    /\ groups \in 0..MaxGroups
    /\ \A i \in 1..Len(log) : log[i].group <= groups
    /\ file \in Nat
    /\ known \subseteq Tables \cup {"none"}
    /\ pending \in PendingShape
    /\ Len(pending.changes) <= MaxChanges
    /\ next \in 1..Len(log) + 1
    /\ greeted \in BOOLEAN
    /\ omit \subseteq 1..groups
    /\ ended \in {"open", "closed", "failed"}
    /\ emitted \in Seq(EmittedShape)

(* What the stream owes its reader for group g.                            *)
Ending(g) == log[LastOf(g)].kind
RowsOf(g) == {i \in GroupEvents(g) : log[i].kind = "rows" /\ Decoded(log[i].table)}
At(i) == Cursor(log[i].file, log[i].pos)

Passed(g) == g \notin omit /\ LastOf(g) < next
Owed(g) ==
    /\ Ending(g) \in {"xid", "commit", "control"}
    /\ Filtered \/ RowsOf(g) # {}

(* s lists the set S of numbers in ascending order.                        *)
Lists(s, S) ==
    /\ \A n \in 1..Len(s) : s[n] \in S
    /\ \A x \in S : \E n \in 1..Len(s) : s[n] = x
    /\ \A m, n \in 1..Len(s) : m < n => s[m] < s[n]

(* tx is group g: its place, from its only BEGIN or, for a statement of    *)
(* the control schema, its GTID, and its captured rows.                    *)
Whole(tx, g) ==
    /\ \E i \in GroupEvents(g) :
          /\ log[i].kind = IF Ending(g) = "control" THEN "gtid" ELSE "begin"
          /\ tx.begin = At(i)
    /\ tx.commit = At(LastOf(g))
    /\ Lists(tx.changes, RowsOf(g))

(* A stream returns exactly the committed transactions it has passed, in   *)
(* order, each with all its captured rows and with the file and position   *)
(* of its own commit, wherever it began and wherever it was cut off; it    *)
(* goes past no statement (Decoder::decode, BinlogStream::next).           *)
WholeTransactions ==
    LET passed == {g \in 1..groups : Passed(g)}
        owed == {g \in passed : Owed(g)}
    IN  /\ \A n \in 1..Len(emitted) : emitted[n].id \in owed /\ Whole(emitted[n], emitted[n].id)
        /\ \A m, n \in 1..Len(emitted) : m < n => emitted[m].id < emitted[n].id
        /\ \A g \in owed : \E n \in 1..Len(emitted) : emitted[n].id = g
        /\ \A g \in passed : Ending(g) # "statement"

(* The "out of place" errors of decode are no false alarms: a log whose    *)
(* groups are whole never meets one, also after a resume, a rotation, a    *)
(* rollback or a control statement.                                        *)
NeverOutOfPlace == \A i \in 1..Len(log) : Sent(i) => ~OutOfPlace(i)

(* handle_query: "Our reserved control schema can be initialized by other  *)
(* Sink tasks", so what CheckpointWriter::open executes there never stops  *)
(* a stream.                                                               *)
(* The code does not keep this; the README says how (known disagreements). *)
ControlSchemaTolerated ==
    \A i \in 1..Len(log) : Sent(i) /\ log[i].kind \in {"control", "modify"} => ~Rejected(i)
===============================================================================
