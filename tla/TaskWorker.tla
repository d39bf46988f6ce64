------------------------------ MODULE TaskWorker ------------------------------
(***************************************************************************)
(* One replication task with a MySQL source, from the start of its worker  *)
(* to its end (task_worker.rs run and apply_with_recovery_using, over the  *)
(* CheckpointWriter of the sink): the initial snapshot, the incremental    *)
(* stream, retries, the resolution of a COMMIT whose answer was lost, and  *)
(* restarts.                                                               *)
(*                                                                         *)
(* The sink server is modelled by its sessions: a session outlives the     *)
(* client that dropped it, holds the task's advisory lock until the server *)
(* ends it, and may still commit after its client gave up.  Workers are    *)
(* processes that may run the same task: one process that is restarted,    *)
(* or two that were started by mistake (the advisory lock is for these).   *)
(*                                                                         *)
(* What can go wrong outside the program (a crash, a lost connection, a    *)
(* killed session, a failed statement, a stop request, a failed SQLite     *)
(* write) is an action or a disjunct that spends one of MaxFaults.         *)
(***************************************************************************)
EXTENDS CheckpointWriter

CONSTANTS
    Workers,    \* processes that may run this task
    Sessions,   \* sessions the sink server can hold at a time
    NoSession,
    MaxRetries, \* MAX_APPLY_RETRIES
    MaxFaults   \* bound: faults in one behaviour

ASSUME NoSessionAssumption == NoSession \notin Sessions
ASSUME MaxRetriesAssumption == MaxRetries \in Nat
ASSUME MaxFaultsAssumption == MaxFaults \in Nat

VARIABLES
    src,        \* number of transactions committed at the source
    row,        \* the task's row of CDC.log_info (committed)
    applied,    \* applied[t]: times t's changes are in the sink tables (committed)
    sess,       \* sess[s]: state of server session s
    pend,       \* pend[s]: what the transaction of a session in COMMIT writes
    lock,       \* the session that holds the task's advisory lock
    mirror,     \* checkpoint_json of task_runtime in SQLite
    pc,         \* pc[w]: where worker w is in run()
    conn,       \* conn[w]: the session of w's CheckpointWriter
    cache,      \* cache[w]: CheckpointWriter.checkpoint
    obs,        \* obs[w]: transactions observed (observed_gtids, observed_position)
    skip,       \* skip[w]: what the source leaves out of w's stream
    at,         \* at[w]: last transaction w read from its stream
    view,       \* view[w]: source state w's snapshot reads
    retries,    \* retries[w] of apply_with_recovery_using
    stop,       \* stop[w]: the cancel flag of the worker
    faults      \* faults so far

db == <<row, applied>>
server == <<sess, pend, lock>>
stream == <<skip, at, view>>
vars == <<src, db, server, mirror, pc, conn, cache, obs, stream, retries, stop, faults>>

Ended == {"stopped", "failed", "blocked"}
Running == {"open", "snapshot", "prepare", "prepared", "copy", "copying", "copied",
            "start", "stream", "apply", "commit", "backoff", "resolve", "replay",
            "recommit", "save"}
Pending == [row: Checkpoint, effects: SUBSET Tx]

TypeOK ==
    /\ src \in Cursor
    /\ row \in Checkpoint
    /\ applied \in [Tx -> Nat]
    /\ sess \in [Sessions -> {"free", "idle", "pending", "committed", "aborted", "dead"}]
    /\ pend \in [Sessions -> Pending]
    /\ lock \in Sessions \cup {NoSession}
    /\ mirror \in Checkpoint
    /\ pc \in [Workers -> Ended \cup Running]
    /\ conn \in [Workers -> Sessions \cup {NoSession}]
    /\ cache \in [Workers -> Checkpoint]
    /\ obs \in [Workers -> SUBSET Tx]
    /\ skip \in [Workers -> SUBSET Tx]
    /\ at \in [Workers -> Cursor]
    /\ view \in [Workers -> Cursor]
    /\ retries \in [Workers -> 0..MaxRetries]
    /\ stop \in [Workers -> BOOLEAN]
    /\ faults \in 0..MaxFaults

NothingPending == [row |-> NoCheckpoint, effects |-> {}]

Init ==
    /\ src = 0
    /\ row = NoCheckpoint
    /\ applied = Prefix(0)
    /\ sess = [s \in Sessions |-> "free"]
    /\ pend = [s \in Sessions |-> NothingPending]
    /\ lock = NoSession
    /\ mirror = NoCheckpoint
    /\ pc = [w \in Workers |-> "stopped"]
    /\ conn = [w \in Workers |-> NoSession]
    /\ cache = [w \in Workers |-> NoCheckpoint]
    /\ obs = [w \in Workers |-> {}]
    /\ skip = [w \in Workers |-> {}]
    /\ at = [w \in Workers |-> 0]
    /\ view = [w \in Workers |-> 0]
    /\ retries = [w \in Workers |-> 0]
    /\ stop = [w \in Workers |-> FALSE]
    /\ faults = 0

-------------------------------------------------------------------------------
(* Faults, and the sink server.                                            *)

Fault == faults < MaxFaults /\ faults' = faults + 1
NoFault == UNCHANGED faults

Live(w) == conn[w] # NoSession /\ sess[conn[w]] = "idle"
Broken(w) == conn[w] # NoSession /\ sess[conn[w]] = "dead"

(* SELECT ... FOR UPDATE of the row waits for a transaction in COMMIT.     *)
RowFree == \A s \in Sessions : sess[s] # "pending"

(* The client lets go of session s: a dead one leaves no trace, any other  *)
(* stays with the server until SessionEnd.                                 *)
Released(s) == IF s # NoSession /\ sess[s] = "dead" THEN [sess EXCEPT ![s] = "free"] ELSE sess

SourceCommit ==
    /\ src < LastTx
    /\ src' = src + 1
    /\ UNCHANGED <<db, server, mirror, pc, conn, cache, obs, stream, retries, stop, faults>>

(* The server executes the COMMIT it was sent, whether or not the client   *)
(* still waits for the answer.                                             *)
ServerCommit(s) ==
    /\ sess[s] = "pending"
    /\ sess' = [sess EXCEPT ![s] = "committed"]
    /\ row' = pend[s].row
    /\ applied' = [t \in Tx |-> applied[t] + (IF t \in pend[s].effects THEN 1 ELSE 0)]
    /\ UNCHANGED <<src, pend, lock, mirror, pc, conn, cache, obs, stream, retries, stop, faults>>

(* ... or rolls the transaction back.                                      *)
ServerAbort(s) ==
    /\ sess[s] = "pending"
    /\ Fault
    /\ sess' = [sess EXCEPT ![s] = "aborted"]
    /\ pend' = [pend EXCEPT ![s] = NothingPending]
    /\ UNCHANGED <<src, db, lock, mirror, pc, conn, cache, obs, stream, retries, stop>>

(* The server notices that a session has no client: it ends the session,   *)
(* and only then is the advisory lock free.                                *)
SessionEnd(s) ==
    /\ sess[s] \in {"idle", "committed", "aborted"}
    /\ \A w \in Workers : conn[w] # s
    /\ sess' = [sess EXCEPT ![s] = "free"]
    /\ pend' = [pend EXCEPT ![s] = NothingPending]
    /\ lock' = IF lock = s THEN NoSession ELSE lock
    /\ UNCHANGED <<src, db, mirror, pc, conn, cache, obs, stream, retries, stop, faults>>

(* The server ends a session its client still uses (KILL, restart,         *)
(* timeout).  The client finds out when it uses the connection.            *)
SessionKill(s) ==
    /\ sess[s] \in {"idle", "committed", "aborted"}
    /\ \E w \in Workers : conn[w] = s
    /\ Fault
    /\ sess' = [sess EXCEPT ![s] = "dead"]
    /\ pend' = [pend EXCEPT ![s] = NothingPending]
    /\ lock' = IF lock = s THEN NoSession ELSE lock
    /\ UNCHANGED <<src, db, mirror, pc, conn, cache, obs, stream, retries, stop>>
-------------------------------------------------------------------------------
(* The worker: entering and leaving run().                                 *)

Goto(w, label) == pc' = [pc EXCEPT ![w] = label]

(* run() returns: the writer, the stream and every local are dropped.      *)
End(w, outcome) ==
    /\ Goto(w, outcome)
    /\ sess' = Released(conn[w])
    /\ conn' = [conn EXCEPT ![w] = NoSession]
    /\ cache' = [cache EXCEPT ![w] = NoCheckpoint]
    /\ obs' = [obs EXCEPT ![w] = {}]
    /\ skip' = [skip EXCEPT ![w] = {}]
    /\ at' = [at EXCEPT ![w] = 0]
    /\ view' = [view EXCEPT ![w] = 0]
    /\ retries' = [retries EXCEPT ![w] = 0]
    /\ stop' = [stop EXCEPT ![w] = FALSE]
    /\ UNCHANGED <<src, db, pend, lock, mirror>>

(* The operator, or the automatic start, starts the task.                  *)
Start(w) ==
    /\ pc[w] \in Ended
    /\ Goto(w, "open")
    /\ UNCHANGED <<src, db, server, mirror, conn, cache, obs, stream, retries, stop, faults>>

StopTask(w) ==
    /\ pc[w] \in Running
    /\ ~stop[w]
    /\ Fault
    /\ stop' = [stop EXCEPT ![w] = TRUE]
    /\ UNCHANGED <<src, db, server, mirror, pc, conn, cache, obs, stream, retries>>

(* The process dies; its next start resets the task's state to stopped.    *)
Crash(w) ==
    /\ pc[w] \in Running
    /\ Fault
    /\ End(w, "stopped")

(* The points of run() where the cancel flag is read.  The filtered cursor *)
(* a stopped stream would advance past is not written: the flag that ended *)
(* the stream also makes apply_with_recovery_using return at once.         *)
StopCheck(w) ==
    /\ pc[w] \in {"snapshot", "copy", "start", "stream", "apply", "backoff"}
    /\ stop[w]
    /\ End(w, "stopped")
    /\ NoFault

-------------------------------------------------------------------------------
(* CheckpointWriter::open: connect, take the advisory lock without         *)
(* waiting, read the row; nothing is observed yet.                         *)
(* Faulty variant: the result of GET_LOCK is not looked at.                *)
AcquireUnlocked(w, s) ==
    /\ sess[s] = "free"
    /\ lock' = IF lock = NoSession THEN s ELSE lock
    /\ sess' = [sess EXCEPT ![s] = "idle"]
    /\ conn' = [conn EXCEPT ![w] = s]
    /\ cache' = [cache EXCEPT ![w] = row]
    /\ obs' = [obs EXCEPT ![w] = {}]
    /\ UNCHANGED <<src, db, pend, mirror, stop>>

Acquire(w, s) ==
    /\ sess[s] = "free"
    /\ lock = NoSession
    /\ lock' = s
    /\ sess' = [sess EXCEPT ![s] = "idle"]
    /\ conn' = [conn EXCEPT ![w] = s]
    /\ cache' = [cache EXCEPT ![w] = row]
    /\ obs' = [obs EXCEPT ![w] = {}]
    /\ UNCHANGED <<src, db, pend, mirror, stop>>

(* The row is gone although the task once had progress.                    *)
ProgressLost == row.phase = "none" /\ mirror.phase # "none"
(* Faulty variant: a task that is past its snapshot takes it again.        *)
OpenSnapshotAgain(w, s) ==
    /\ pc[w] = "open"
    /\ Acquire(w, s)
    /\ ~ProgressLost
    /\ Goto(w, "snapshot")
    /\ NoFault
    /\ UNCHANGED <<stream, retries>>

Open(w, s) ==
    /\ pc[w] = "open"
    /\ Acquire(w, s)
    /\ ~ProgressLost
    /\ Goto(w, IF row.phase = "incremental" THEN "start" ELSE "snapshot")
    /\ NoFault
    /\ UNCHANGED <<stream, retries>>

(* apply_with_recovery_using: reopen after a retryable error.              *)
Reopen(w, s) ==
    /\ pc[w] = "backoff"
    /\ ~stop[w]
    /\ Acquire(w, s)
    /\ Goto(w, "apply")
    /\ NoFault
    /\ UNCHANGED <<stream, retries>>

(* apply_with_recovery_using: reopen after an unacknowledged COMMIT and    *)
(* ask the row what became of it.                                          *)
Resolve(w, s) ==
    /\ pc[w] = "resolve"
    /\ Acquire(w, s)
    /\ Resolution(row, at[w]) # "unprovable"
    /\ Goto(w, IF Resolution(row, at[w]) = "applied" THEN "save" ELSE "replay")
    /\ NoFault
    /\ UNCHANGED <<stream, retries>>

(* The writer cannot be opened: another session owns the task, or the row  *)
(* is not one to go on from.                                               *)
OpenRefused(w) ==
    /\ \/ pc[w] = "open" /\ (lock # NoSession \/ ProgressLost)
       \/ pc[w] = "backoff" /\ ~stop[w] /\ lock # NoSession
       \/ pc[w] = "resolve" /\ (lock # NoSession \/ Resolution(row, at[w]) = "unprovable")
    /\ End(w, IF pc[w] = "open" THEN "failed" ELSE "blocked")
    /\ NoFault

(* ... or the sink does not answer: after a retryable error the task is    *)
(* blocked unless it was the connection that failed.                       *)
OpenFails(w) ==
    /\ pc[w] \in {"open", "backoff", "resolve"}
    /\ Fault
    /\ \/ pc[w] \in {"open", "backoff"} /\ End(w, "failed")
       \/ pc[w] \in {"backoff", "resolve"} /\ End(w, "blocked")

-------------------------------------------------------------------------------
(* Transactions of the writer: BEGIN, SELECT ... FOR UPDATE and the        *)
(* statements are one step that ends with COMMIT sent; the answer comes    *)
(* later or never.                                                         *)

SendCommit(w, newRow, effects) ==
    /\ Live(w)
    /\ RowFree
    /\ row = cache[w]
    /\ sess' = [sess EXCEPT ![conn[w]] = "pending"]
    /\ pend' = [pend EXCEPT ![conn[w]] = [row |-> newRow, effects |-> effects]]
    /\ NoFault

Committing == {"prepare", "copying", "commit", "recommit"}

AfterCommit(label) ==
    IF label = "prepare" THEN "prepared" ELSE IF label = "copying" THEN "copied" ELSE "save"

CommitAck(w) ==
    /\ pc[w] \in Committing
    /\ conn[w] # NoSession
    /\ sess[conn[w]] = "committed"
    /\ sess' = [sess EXCEPT ![conn[w]] = "idle"]
    /\ pend' = [pend EXCEPT ![conn[w]] = NothingPending]
    /\ cache' = [cache EXCEPT ![w] = pend[conn[w]].row]
    /\ obs' = [obs EXCEPT ![w] = {}]
    /\ Goto(w, AfterCommit(pc[w]))
    /\ NoFault
    /\ UNCHANGED <<src, db, lock, mirror, conn, stream, retries, stop>>

(* Every failure of COMMIT is CommitUnknown: the transaction may have been *)
(* rolled back, may be committed, or may be committed later.               *)
CommitFails(w) ==
    /\ pc[w] \in Committing
    /\ IF sess[conn[w]] \in {"aborted", "dead"} THEN NoFault ELSE Fault
    /\ \/ /\ pc[w] = "commit"
          /\ Goto(w, "resolve")
          /\ sess' = Released(conn[w])
          /\ conn' = [conn EXCEPT ![w] = NoSession]
          /\ UNCHANGED <<src, db, pend, lock, mirror, cache, obs, stream, retries, stop>>
       \/ /\ pc[w] # "commit"
          /\ End(w, IF pc[w] = "recommit" THEN "blocked" ELSE "failed")

(* save_checkpoint: the checkpoint the writer returned goes to SQLite.     *)
AfterSave(label) ==
    IF label = "prepared" THEN "copy" ELSE IF label = "copied" THEN "start" ELSE "stream"

Save(w) ==
    /\ pc[w] \in {"prepared", "copied", "save"}
    /\ mirror' = cache[w]
    /\ Goto(w, AfterSave(pc[w]))
    /\ NoFault
    /\ UNCHANGED <<src, db, server, conn, cache, obs, stream, retries, stop>>

SaveFails(w) ==
    /\ pc[w] \in {"prepared", "copied", "start", "save"}
    /\ Fault
    /\ End(w, "failed")

-------------------------------------------------------------------------------
(* The initial snapshot.                                                   *)
(* snapshot_targets: the mapped sink tables hold no row.                   *)
TargetsEmpty == \A t \in Tx : applied[t] = 0

(* open_snapshot and prepare_snapshot: the boundary and the read view are  *)
(* the source's state at one moment (module SourceSnapshot).               *)
PrepareSnapshot(w) ==
    /\ pc[w] = "snapshot"
    /\ ~stop[w]
    /\ TargetsEmpty
    /\ SendCommit(w, Prepared(cache[w], src), {})
    /\ view' = [view EXCEPT ![w] = src]
    /\ Goto(w, "prepare")
    /\ UNCHANGED <<src, db, lock, mirror, conn, cache, obs, skip, at, retries, stop>>
(* Faulty variant: the scan sees commits later than the read view.         *)
CopyLatest(w) ==
    /\ pc[w] = "copy"
    /\ ~stop[w]
    /\ TargetsEmpty
    /\ SendCommit(w, Copied(cache[w]), {t \in Scope : t <= src})
    /\ Goto(w, "copying")
    /\ UNCHANGED <<src, db, lock, mirror, conn, cache, obs, stream, retries, stop>>

(* copy_snapshot: every row of the read view and the transition to the     *)
(* incremental phase in one transaction.                                   *)
CopySnapshot(w) ==
    /\ pc[w] = "copy"
    /\ ~stop[w]
    /\ TargetsEmpty
    /\ SendCommit(w, Copied(cache[w]), {t \in Scope : t <= view[w]})
    /\ Goto(w, "copying")
    /\ UNCHANGED <<src, db, lock, mirror, conn, cache, obs, stream, retries, stop>>

SnapshotFails(w) ==
    /\ pc[w] \in {"snapshot", "copy"}
    /\ IF Live(w) /\ TargetsEmpty /\ row = cache[w] THEN Fault ELSE NoFault
    /\ End(w, "failed")

-------------------------------------------------------------------------------
(* The incremental stream.                                                 *)

(* capture and initialize: the stream resumes from the writer's checkpoint,*)
(* which also refreshes the mirror.                                        *)
StartStream(w) ==
    /\ pc[w] = "start"
    /\ ~stop[w]
    /\ skip' = [skip EXCEPT ![w] = StartSet(cache[w])]
    /\ at' = [at EXCEPT ![w] = 0]
    /\ mirror' = cache[w]
    /\ Goto(w, "stream")
    /\ NoFault
    /\ UNCHANGED <<src, db, server, conn, cache, obs, view, retries, stop>>

(* What the source has still to send on w's stream, in commit order.       *)
ToSend(w) == {t \in Tx : t <= src /\ at[w] < t /\ t \notin skip[w]}

Next1(w, t) == t \in ToSend(w) /\ \A u \in ToSend(w) : t <= u

(* The projection is empty: the writer only remembers the transaction. In  *)
(* GTID mode it asks the server to normalise the set.                      *)
Observe(w, t) ==
    /\ pc[w] = "stream"
    /\ ~stop[w]
    /\ Next1(w, t)
    /\ t \notin Scope
    /\ GtidMode => Live(w)
    /\ obs' = [obs EXCEPT ![w] = @ \cup {t}]
    /\ at' = [at EXCEPT ![w] = t]
    /\ NoFault
    /\ UNCHANGED <<src, db, server, mirror, pc, conn, cache, skip, view, retries, stop>>

Read(w, t) ==
    /\ pc[w] = "stream"
    /\ ~stop[w]
    /\ Next1(w, t)
    /\ t \in Scope
    /\ at' = [at EXCEPT ![w] = t]
    /\ retries' = [retries EXCEPT ![w] = 0]
    /\ Goto(w, "apply")
    /\ NoFault
    /\ UNCHANGED <<src, db, server, mirror, conn, cache, obs, skip, view, stop>>

(* The source connection fails, or the set cannot be normalised.           *)
StreamFails(w) ==
    /\ pc[w] \in {"start", "stream"}
    /\ IF pc[w] = "stream" /\ GtidMode /\ ~Live(w) /\ (\E t \in Tx \ Scope : Next1(w, t))
          THEN NoFault ELSE Fault
    /\ End(w, "failed")

-------------------------------------------------------------------------------
(* apply_with_recovery_using and apply_inner for transaction at[w].        *)

Applying(w) == pc[w] = "replay" \/ (pc[w] = "apply" /\ ~stop[w])
(* Faulty variant: the mirror is written before the COMMIT is answered.    *)
ApplyMirrorFirst(w) ==
    /\ Applying(w)
    /\ ~AlreadyApplied(row, at[w])
    /\ ~HistoryDisagrees(row, at[w])
    /\ ~AheadOfCursor(obs[w], at[w])
    /\ row.phase = "incremental"
    /\ SendCommit(w, Advanced(row, obs[w], at[w]), {at[w]})
    /\ mirror' = Advanced(row, obs[w], at[w])
    /\ Goto(w, IF pc[w] = "apply" THEN "commit" ELSE "recommit")
    /\ UNCHANGED <<src, db, lock, conn, cache, obs, stream, retries, stop>>

Apply(w) ==
    /\ Applying(w)
    /\ ~AlreadyApplied(row, at[w])
    /\ ~HistoryDisagrees(row, at[w])
    /\ ~AheadOfCursor(obs[w], at[w])
    /\ row.phase = "incremental"
    /\ SendCommit(w, Advanced(row, obs[w], at[w]), {at[w]})
    /\ Goto(w, IF pc[w] = "apply" THEN "commit" ELSE "recommit")
    /\ UNCHANGED <<src, db, lock, mirror, conn, cache, obs, stream, retries, stop>>

ApplySkip(w) ==
    /\ Applying(w)
    /\ Live(w)
    /\ RowFree
    /\ row = cache[w]
    /\ AlreadyApplied(row, at[w])
    /\ Goto(w, "save")
    /\ NoFault
    /\ UNCHANGED <<src, db, server, mirror, conn, cache, obs, stream, retries, stop>>

(* An error no retry can mend: the row is not the one the writer knows,    *)
(* the histories disagree, or a statement, plan or constraint fails.       *)
Refused(w) ==
    /\ Live(w)
    /\ \/ row # cache[w]
       \/ HistoryDisagrees(row, at[w])
       \/ ~AlreadyApplied(row, at[w]) /\ AheadOfCursor(obs[w], at[w])

ApplyBlocked(w) ==
    /\ Applying(w)
    /\ IF Refused(w) THEN NoFault ELSE Fault
    /\ End(w, "blocked")

(* A lost connection, a deadlock or a lock timeout before COMMIT.          *)
Retryable(w) == IF Broken(w) THEN NoFault ELSE Fault
(* Faulty variant: no limit to the retries.                                *)
ApplyRetryForever(w) ==
    /\ pc[w] = "apply"
    /\ ~stop[w]
    /\ Retryable(w)
    /\ retries' = [retries EXCEPT ![w] = @ + 1]
    /\ sess' = Released(conn[w])
    /\ conn' = [conn EXCEPT ![w] = NoSession]
    /\ Goto(w, "backoff")
    /\ UNCHANGED <<src, db, pend, lock, mirror, cache, obs, stream, stop>>

ApplyRetry(w) ==
    /\ pc[w] = "apply"
    /\ ~stop[w]
    /\ Retryable(w)
    /\ retries[w] < MaxRetries
    /\ retries' = [retries EXCEPT ![w] = @ + 1]
    /\ sess' = Released(conn[w])
    /\ conn' = [conn EXCEPT ![w] = NoSession]
    /\ Goto(w, "backoff")
    /\ UNCHANGED <<src, db, pend, lock, mirror, cache, obs, stream, stop>>

ApplyGivesUp(w) ==
    /\ Applying(w)
    /\ Retryable(w)
    /\ pc[w] = "replay" \/ retries[w] = MaxRetries
    /\ End(w, "failed")

-------------------------------------------------------------------------------
Step(w) ==
    \/ StopCheck(w)
    \/ \E s \in Sessions : Open(w, s) \/ Reopen(w, s) \/ Resolve(w, s)
    \/ OpenRefused(w) \/ OpenFails(w)
    \/ CommitAck(w) \/ CommitFails(w)
    \/ Save(w) \/ SaveFails(w)
    \/ PrepareSnapshot(w) \/ CopySnapshot(w) \/ SnapshotFails(w)
    \/ StartStream(w) \/ StreamFails(w)
    \/ \E t \in Tx : Observe(w, t) \/ Read(w, t)
    \/ Apply(w) \/ ApplySkip(w) \/ ApplyBlocked(w)
    \/ ApplyRetry(w) \/ ApplyGivesUp(w)

Server(s) == ServerCommit(s) \/ ServerAbort(s) \/ SessionEnd(s)

Next ==
    \/ SourceCommit
    \/ \E s \in Sessions : Server(s) \/ SessionKill(s)
    \/ \E w \in Workers : Start(w) \/ StopTask(w) \/ Crash(w) \/ Step(w)

Spec == Init /\ [][Next]_vars

(* The source goes on committing, the sink server finishes what it was     *)
(* sent and ends abandoned sessions, a worker thread runs, and an ended    *)
(* task is started again.  Nothing makes a fault happen.                   *)
Fairness ==
    /\ WF_vars(SourceCommit)
    /\ \A s \in Sessions : WF_vars(Server(s))
    /\ \A w \in Workers : WF_vars(Start(w)) /\ WF_vars(Step(w))

FairSpec == Spec /\ Fairness

-------------------------------------------------------------------------------
(* Exactly once: the sink tables hold the effects of exactly the scoped    *)
(* transactions up to the committed cursor, each once, whatever was        *)
(* retried, replayed, lost or copied (apply_inner, copy_snapshot).         *)
ExactlyOnce == applied = Claimed(row)

(* A resumed stream leaves out no transaction the sink does not have: the  *)
(* GTID set (or the offset) covers the scoped transactions up to the       *)
(* cursor and no others, though observed GTIDs are lost at every reopen.   *)
ResumeSafe ==
    row.phase = "incremental" =>
        StartSet(row) \cap Scope = {t \in Scope : t <= row.pos}

(* The writer that owns a live session knows the committed row, so         *)
(* "checkpoint changed outside this writer" is never a false alarm.        *)
OwnerKnowsRow == \A w \in Workers : Live(w) => cache[w] = row

(* The SQLite mirror never shows progress the sink does not have.          *)
MirrorBehindSink ==
    mirror.phase # "none" => row.phase # "none" /\ mirror.rev <= row.rev /\ mirror.pos <= src

(* Without a fault a task never ends blocked, which needs an operator.     *)
NoSpuriousBlock == (\E w \in Workers : pc[w] = "blocked") => faults > 0

(* The committed cursor never goes back, the GTID set never shrinks and a  *)
(* task never returns to the snapshot phase.                               *)
CursorOnlyAdvances ==
    [][row.phase = "incremental" =>
         /\ row'.phase = "incremental"
         /\ row.pos <= row'.pos
         /\ row.gtids \subseteq row'.gtids]_row

(* Every scoped transaction the source commits reaches the sink.           *)
EventuallyApplied == \A t \in Scope : (t <= src) ~> (applied[t] = 1)

(* The sink tables go through the states of ExactlyOnceApply: one copy of  *)
(* a source state, then one scoped transaction after the other.            *)
Promise == INSTANCE ExactlyOnceApply WITH
               copied <- row.phase = "incremental", effects <- applied
KeepsPromise == Promise!Spec
===============================================================================
