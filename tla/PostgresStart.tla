---------------------------- MODULE PostgresStart -----------------------------
(***************************************************************************)
(* How a task with a PostgreSQL source starts and restarts (task_worker.rs *)
(* open_postgresql_source and run; postgresql_15/src/replication.rs        *)
(* replication_for_version): the logical slot is opened, or created, from  *)
(* the SQLite mirror before the sink's checkpoint is read, and opened      *)
(* again when the sink knows a different cursor.                           *)
(*                                                                         *)
(* Transactions are numbered in commit order and stand for their LSN.  The *)
(* sink transaction that applies one is a single step here; TaskWorker has *)
(* its details.  A crash, an endpoint or SQLite error and a stop request   *)
(* all drop the stream and end run(): they are the one action Interrupted. *)
(***************************************************************************)
EXTENDS Integers

CONSTANTS
    LastTx,     \* the source commits at most this many transactions
    Scope,      \* the transactions whose projection on the task is not empty
    MaxFaults   \* bound: interruptions in one behaviour

ASSUME PgLastTxAssumption == LastTx \in Nat
ASSUME PgScopeAssumption == Scope \subseteq 1..LastTx
ASSUME PgMaxFaultsAssumption == MaxFaults \in Nat

VARIABLES
    src,        \* number of transactions committed at the source
    slot,       \* the replication slot of the task
    row,        \* cursor of the task's row of CDC.log_info
    mirror,     \* cursor of checkpoint_json in SQLite
    applied,    \* applied[t]: times t's changes are in the sink tables
    pc,         \* where the worker is in run()
    saved,      \* the mirror as run() read it: task.runtime.checkpoint
    openedAt,   \* where the open stream starts
    at,         \* last transaction read from the stream
    faults

startVars == <<src, slot, row, mirror, applied, pc, saved, openedAt, at, faults>>

Tx == 1..LastTx
Unset == -1
Cursor == {Unset} \cup 0..LastTx

Refusals == {"exists", "missing", "active", "predates"}
Ended == {"stopped", "lost"} \cup Refusals
Labels == Ended \cup {"preopen", "sink", "reopen", "init", "save", "stream", "saving"}

StartTypeOK ==
    /\ src \in 0..LastTx
    /\ slot \in [confirmed: Cursor, walsender: {"none", "attached", "orphan"}]
    /\ row \in Cursor /\ mirror \in Cursor /\ saved \in Cursor /\ openedAt \in Cursor
    /\ applied \in [Tx -> Nat]
    /\ pc \in Labels
    /\ at \in 0..LastTx
    /\ faults \in 0..MaxFaults

StartInit ==
    /\ src = 0
    /\ slot = [confirmed |-> Unset, walsender |-> "none"]
    /\ row = Unset /\ mirror = Unset /\ saved = Unset /\ openedAt = Unset
    /\ applied = [t \in Tx |-> 0]
    /\ pc = "stopped"
    /\ at = 0
    /\ faults = 0

SlotExists == slot.confirmed # Unset

-------------------------------------------------------------------------------
SourceCommit ==
    /\ src < LastTx
    /\ src' = src + 1
    /\ UNCHANGED <<slot, row, mirror, applied, pc, saved, openedAt, at, faults>>

(* The server ends the walsender of a connection that was closed; until    *)
(* then the slot is active.                                                *)
SlotRelease ==
    /\ slot.walsender = "orphan"
    /\ slot' = [confirmed |-> slot.confirmed, walsender |-> "none"]
    /\ UNCHANGED <<src, row, mirror, applied, pc, saved, openedAt, at, faults>>

Dropped == [confirmed |-> slot.confirmed,
            walsender |-> IF slot.walsender = "attached" THEN "orphan" ELSE slot.walsender]

(* run() returns; the stream it may hold is dropped.                       *)
Ends(label) ==
    /\ pc' = label
    /\ slot' = Dropped
    /\ saved' = Unset
    /\ openedAt' = Unset
    /\ at' = 0
    /\ UNCHANGED <<src, row, mirror, applied>>
Interrupted ==
    /\ pc \notin Ended
    /\ faults < MaxFaults
    /\ faults' = faults + 1
    /\ Ends("stopped")

Start ==
    /\ pc \in Ended
    /\ pc' = "preopen"
    /\ saved' = mirror
    /\ UNCHANGED <<src, slot, row, mirror, applied, openedAt, at, faults>>

-------------------------------------------------------------------------------
(* replication_for_version: create_slot is saved.is_none().                *)

CreateSlot ==
    /\ pc = "preopen"
    /\ saved = Unset
    /\ ~SlotExists
    /\ slot' = [confirmed |-> src, walsender |-> "attached"]
    /\ openedAt' = src
    /\ at' = src
    /\ pc' = "sink"
    /\ UNCHANGED <<src, row, mirror, applied, saved, faults>>

(* START_REPLICATION from cursor c on the existing slot.                   *)
Attach(c) ==
    /\ SlotExists
    /\ slot.walsender = "none"
    /\ slot.confirmed <= c
    /\ slot' = [confirmed |-> slot.confirmed, walsender |-> "attached"]
    /\ openedAt' = c
    /\ at' = c
    /\ UNCHANGED <<src, row, mirror, applied, saved, faults>>

OpenSlot ==
    /\ pc = "preopen"
    /\ saved # Unset
    /\ Attach(saved)
    /\ pc' = "sink"
(* Faulty variant: the stream is opened again from the latest position.    *)
ReopenAtLatest ==
    /\ pc = "reopen"
    /\ Attach(src)
    /\ pc' = "init"

Reopen ==
    /\ pc = "reopen"
    /\ Attach(row)
    /\ pc' = "init"

(* Why cursor c is not opened, in the order of the checks.                 *)
Refusal(c, create) ==
    IF create THEN IF SlotExists THEN "exists" ELSE "none"
    ELSE IF ~SlotExists THEN "missing"
    ELSE IF slot.walsender # "none" THEN "active"
    ELSE IF c < slot.confirmed THEN "predates"
    ELSE "none"

OpenRefused ==
    /\ \E r \in Refusals :
         /\ \/ pc = "preopen" /\ r = Refusal(saved, saved = Unset)
            \/ pc = "reopen" /\ r = Refusal(row, FALSE)
         /\ Ends(r)
    /\ UNCHANGED faults

-------------------------------------------------------------------------------

(* open_sink has read the row: progress is lost, or the stream is opened   *)
(* again from the sink's cursor, or it is the right one.                   *)
OpenSink ==
    /\ pc = "sink"
    /\ IF row = Unset /\ saved # Unset
       THEN Ends("lost")
       ELSE /\ IF row # Unset /\ row # openedAt
               THEN pc' = "reopen" /\ slot' = Dropped
               ELSE pc' = "init" /\ UNCHANGED slot
            /\ UNCHANGED <<src, row, mirror, applied, saved, openedAt, at>>
    /\ UNCHANGED faults

(* initialize: the first start writes the slot's position into the row.    *)
Initialize ==
    /\ pc = "init"
    /\ row' = IF row = Unset THEN openedAt ELSE row
    /\ pc' = "save"
    /\ UNCHANGED <<src, slot, mirror, applied, saved, openedAt, at, faults>>

SaveCheckpoint ==
    /\ pc \in {"save", "saving"}
    /\ mirror' = row
    /\ pc' = "stream"
    /\ UNCHANGED <<src, slot, row, applied, saved, openedAt, at, faults>>

(* A transaction of the stream: observed when nothing of it is mapped,     *)
(* skipped when the row already covers it, else applied with the row.      *)
Consume ==
    /\ pc = "stream"
    /\ at < src
    /\ at' = at + 1
    /\ LET t == at + 1
           new == t \in Scope /\ row < t
       IN  /\ row' = IF new THEN t ELSE row
           /\ applied' = IF new THEN [applied EXCEPT ![t] = @ + 1] ELSE applied
           /\ pc' = IF t \in Scope THEN "saving" ELSE "stream"
    /\ UNCHANGED <<src, slot, mirror, saved, openedAt, faults>>
(* Faulty variant: what was read is reported as flushed.                   *)
FlushedWhenRead == at

(* What the standby status reports as flushed: acknowledge() would move    *)
(* it, but the worker's reader thread never calls it.                      *)
Flushed == 0

(* feedback, on a keepalive or every five seconds: the server moves the    *)
(* slot forward to the reported position, never back.                      *)
StandbyStatus ==
    /\ pc \in {"stream", "saving"}
    /\ slot' = [confirmed |-> IF slot.confirmed < Flushed THEN Flushed ELSE slot.confirmed,
                walsender |-> slot.walsender]
    /\ UNCHANGED <<src, row, mirror, applied, pc, saved, openedAt, at, faults>>

StartNext ==
    \/ SourceCommit \/ SlotRelease
    \/ Interrupted \/ Start
    \/ CreateSlot \/ OpenSlot \/ Reopen \/ OpenRefused
    \/ OpenSink \/ Initialize \/ SaveCheckpoint \/ Consume \/ StandbyStatus

StartSpec == StartInit /\ [][StartNext]_startVars

-------------------------------------------------------------------------------
(* Every scoped transaction between the slot's first position and the      *)
(* sink's cursor is in the sink, once, and nothing else: no interrupted or *)
(* repeated start passes a transaction over or applies it twice.           *)
NoGapSinceSlot ==
    row # Unset =>
        \A t \in Tx : applied[t] = IF t \in Scope /\ slot.confirmed < t /\ t <= row THEN 1 ELSE 0

(* Once the mirror holds a cursor, a start is refused only while the       *)
(* server has not yet released the slot: the log the sink needs is kept    *)
(* and the slot is never created again.                                    *)
RefusalIsTransient ==
    mirror # Unset => pc \notin {"exists", "missing", "predates", "lost"}

(* runtime_store.rs: "SQLite is a UI mirror; only the Sink's CDC.log_info  *)
(* decides recovery": a task whose progress is in the sink is not refused  *)
(* because its slot exists.                                                *)
(* The code does not keep this; the README says how (known disagreements). *)
SinkDecidesRecovery == row # Unset => pc # "exists"
===============================================================================
