--------------------------- MODULE TaskWorkerProofs ---------------------------
(***************************************************************************)
(* Proofs about TaskWorker, for every source log, scope, mode and set of   *)
(* workers and sessions.  TypeOK is inductive.  ExactlyOnce is not: a step *)
(* of a worker is safe only because of what its session holds, what its    *)
(* cached checkpoint says and where its stream is, so IInv adds these.     *)
(***************************************************************************)
EXTENDS TaskWorker, TLAPS

-------------------------------------------------------------------------------
(* Type correctness.                                                       *)

(* The checkpoint rows the writer computes are checkpoint rows.            *)
LEMMA CheckpointTypes ==
    /\ NoCheckpoint \in Checkpoint
    /\ NothingPending \in Pending
    /\ \A cp \in Checkpoint :
         /\ Copied(cp) \in Checkpoint
         /\ StartSet(cp) \in SUBSET Tx
         /\ \A b \in Cursor : Prepared(cp, b) \in Checkpoint
         /\ \A o \in SUBSET Tx, t \in Tx : Advanced(cp, o, t) \in Checkpoint
<1> USE LastTxAssumption, ScopeAssumption, GtidModeAssumption DEF Tx, Cursor, Checkpoint
<1>1. NoCheckpoint \in Checkpoint
  BY DEF NoCheckpoint
<1>2. NothingPending \in Pending
  BY <1>1 DEF NothingPending, Pending
<1>3. ASSUME NEW cp \in Checkpoint PROVE Copied(cp) \in Checkpoint
  BY DEF Copied
<1>4. ASSUME NEW cp \in Checkpoint PROVE StartSet(cp) \in SUBSET Tx
  BY DEF StartSet
<1>5. ASSUME NEW cp \in Checkpoint, NEW b \in Cursor PROVE Prepared(cp, b) \in Checkpoint
  BY DEF Prepared
<1>6. ASSUME NEW cp \in Checkpoint, NEW o \in SUBSET Tx, NEW t \in Tx
      PROVE Advanced(cp, o, t) \in Checkpoint
  <2>1. (IF GtidMode THEN cp.gtids \cup o \cup {t} ELSE cp.gtids) \in SUBSET Tx
    OBVIOUS
  <2>2. t \in Cursor
    OBVIOUS
  <2> QED
    BY <2>1, <2>2 DEF Advanced
<1> QED
  BY <1>1, <1>2, <1>3, <1>4, <1>5, <1>6

(* The parts of a step that several actions share keep the types.          *)
LEMMA EndType ==
    ASSUME TypeOK, NEW w \in Workers, NEW o \in Ended, End(w, o), faults' \in 0..MaxFaults
    PROVE  TypeOK'
<1> USE CheckpointTypes, MaxRetriesAssumption
<1>1. sess' \in [Sessions -> {"free", "idle", "pending", "committed", "aborted", "dead"}]
  BY DEF TypeOK, End, Released
<1>2. 0 \in Cursor /\ 0 \in 0..MaxRetries
  BY LastTxAssumption DEF Cursor
<1> QED
  BY <1>1, <1>2 DEF TypeOK, End, Goto, db

LEMMA AcquireType ==
    ASSUME TypeOK, NEW w \in Workers, NEW s \in Sessions, NEW l \in Running,
           Acquire(w, s), Goto(w, l), NoFault, UNCHANGED <<stream, retries>>
    PROVE  TypeOK'
BY DEF TypeOK, Acquire, Goto, NoFault, stream, db

LEMMA SendCommitType ==
    ASSUME TypeOK, NEW w \in Workers, NEW r \in Checkpoint, NEW e \in SUBSET Tx, NEW l \in Running,
           SendCommit(w, r, e), Goto(w, l), view' \in [Workers -> Cursor],
           UNCHANGED <<src, db, lock, mirror, conn, cache, obs, skip, at, retries, stop>>
    PROVE  TypeOK'
<1>1. conn[w] \in Sessions
  BY DEF SendCommit, Live, TypeOK
<1>2. [row |-> r, effects |-> e] \in Pending
  BY DEF Pending
<1> QED
  BY <1>1, <1>2 DEF TypeOK, SendCommit, Goto, NoFault, db

(* Every step keeps the types, if a worker that applies has a transaction  *)
(* in hand.                                                                *)
LEMMA TypeStep ==
    TypeOK /\ (\A w \in Workers : Applying(w) => at[w] \in Scope) /\ [Next]_vars => TypeOK'
<1> SUFFICES ASSUME TypeOK, \A w \in Workers : Applying(w) => at[w] \in Scope, [Next]_vars
             PROVE TypeOK'
  OBVIOUS
<1> USE CheckpointTypes
<1>f. /\ NoFault => faults' \in 0..MaxFaults
      /\ Fault => faults' \in 0..MaxFaults
  BY MaxFaultsAssumption DEF NoFault, Fault, TypeOK
<1>1. CASE SourceCommit
  BY <1>1, LastTxAssumption DEF SourceCommit, TypeOK, Cursor, db, server, stream
<1>2. ASSUME NEW s \in Sessions, Server(s) \/ SessionKill(s) PROVE TypeOK'
  <2>1. CASE ServerCommit(s)
    <3>1. pend[s] \in Pending
      BY DEF TypeOK
    <3>2. row' \in Checkpoint
      BY <2>1, <3>1 DEF ServerCommit, Pending
    <3>3. applied' \in [Tx -> Nat]
      BY <2>1 DEF ServerCommit, TypeOK
    <3> QED
      BY <2>1, <3>2, <3>3 DEF ServerCommit, TypeOK, stream
  <2>2. CASE ServerAbort(s)
    BY <2>2, <1>f DEF ServerAbort, TypeOK, db, stream
  <2>3. CASE SessionEnd(s)
    BY <2>3 DEF SessionEnd, TypeOK, db, stream
  <2>4. CASE SessionKill(s)
    BY <2>4, <1>f DEF SessionKill, TypeOK, db, stream
  <2> QED
    BY <1>2, <2>1, <2>2, <2>3, <2>4 DEF Server
<1>3. ASSUME NEW w \in Workers, Start(w) \/ StopTask(w) \/ Crash(w) PROVE TypeOK'
  <2>1. CASE Start(w)
    BY <2>1 DEF Start, Goto, Running, TypeOK, db, server, stream
  <2>2. CASE StopTask(w)
    BY <2>2, <1>f DEF StopTask, TypeOK, db, server, stream
  <2>3. CASE Crash(w)
    BY <2>3, <1>f, EndType DEF Crash, Ended
  <2> QED
    BY <1>3, <2>1, <2>2, <2>3
<1>4. ASSUME NEW w \in Workers, Step(w) PROVE TypeOK'
  <2>1. CASE StopCheck(w)
    BY <2>1, <1>f, EndType DEF StopCheck, Ended
  <2>2. CASE OpenRefused(w) \/ OpenFails(w)
    BY <2>2, <1>f, EndType DEF OpenRefused, OpenFails, Ended
  <2>3. ASSUME NEW s \in Sessions, Open(w, s) \/ Reopen(w, s) \/ Resolve(w, s) PROVE TypeOK'
    BY <2>3, AcquireType DEF Open, Reopen, Resolve, Running
  <2>4. CASE CommitAck(w)
    <3>1. conn[w] \in Sessions
      BY <2>4 DEF TypeOK, CommitAck
    <3>2. pend[conn[w]].row \in Checkpoint
      BY <3>1 DEF TypeOK, Pending
    <3>3. AfterCommit(pc[w]) \in Running
      BY DEF AfterCommit, Running
    <3> QED
      BY <2>4, <3>1, <3>2, <3>3 DEF CommitAck, TypeOK, Goto, NoFault, db, stream
  <2>5. CASE CommitFails(w)
    <3>1. CASE pc[w] = "commit"
      BY <2>5, <3>1, <1>f DEF CommitFails, TypeOK, Goto, Running, Released, db, stream
    <3>2. CASE pc[w] # "commit"
      BY <2>5, <3>2, <1>f, EndType DEF CommitFails, Ended
    <3> QED
      BY <3>1, <3>2
  <2>6. CASE Save(w)
    BY <2>6 DEF Save, AfterSave, Goto, Running, NoFault, TypeOK, db, server, stream
  <2>7. CASE SaveFails(w) \/ SnapshotFails(w) \/ StreamFails(w)
    BY <2>7, <1>f, EndType DEF SaveFails, SnapshotFails, StreamFails, Ended
  <2>8. CASE PrepareSnapshot(w)
    <3>1. Prepared(cache[w], src) \in Checkpoint /\ {} \in SUBSET Tx /\ src \in Cursor
      BY DEF TypeOK
    <3>2. view' \in [Workers -> Cursor]
      BY <2>8, <3>1 DEF PrepareSnapshot, TypeOK
    <3> QED
      BY <2>8, <3>1, <3>2, SendCommitType DEF PrepareSnapshot, Running, db
  <2>9. CASE CopySnapshot(w)
    <3>1. Copied(cache[w]) \in Checkpoint /\ {t \in Scope : t <= view[w]} \in SUBSET Tx
      BY ScopeAssumption DEF TypeOK, Tx
    <3>2. view' \in [Workers -> Cursor]
      BY <2>9 DEF CopySnapshot, stream, TypeOK
    <3> QED
      BY <2>9, <3>1, <3>2, SendCommitType DEF CopySnapshot, Running, db, stream
  <2>10. CASE StartStream(w)
    <3>1. StartSet(cache[w]) \in SUBSET Tx /\ 0 \in Cursor
      BY LastTxAssumption DEF TypeOK, Cursor
    <3> QED
      BY <2>10, <3>1 DEF StartStream, TypeOK, Goto, Running, NoFault, db, server
  <2>11. ASSUME NEW t \in Tx, Observe(w, t) \/ Read(w, t) PROVE TypeOK'
    <3>1. t \in Cursor /\ 0 \in 0..MaxRetries
      BY LastTxAssumption, MaxRetriesAssumption DEF Tx, Cursor
    <3>2. CASE Observe(w, t)
      BY <3>1, <3>2 DEF Observe, TypeOK, NoFault, db, server
    <3>3. CASE Read(w, t)
      BY <3>1, <3>3 DEF Read, TypeOK, Goto, Running, NoFault, db, server
    <3> QED
      BY <2>11, <3>2, <3>3
  <2>12. CASE Apply(w)
    <3>1. at[w] \in Tx
      BY <2>12, ScopeAssumption DEF Apply, Tx
    <3>2. Advanced(row, obs[w], at[w]) \in Checkpoint /\ {at[w]} \in SUBSET Tx
      BY <3>1 DEF TypeOK
    <3>3. view' \in [Workers -> Cursor]
      BY <2>12 DEF Apply, stream, TypeOK
    <3> QED
      BY <2>12, <3>2, <3>3, SendCommitType DEF Apply, Running, db, stream
  <2>13. CASE ApplySkip(w)
    BY <2>13 DEF ApplySkip, Goto, Running, NoFault, TypeOK, db, server, stream
  <2>14. CASE ApplyBlocked(w) \/ ApplyGivesUp(w)
    BY <2>14, <1>f, EndType DEF ApplyBlocked, ApplyGivesUp, Retryable, Ended
  <2>15. CASE ApplyRetry(w)
    <3>1. retries[w] + 1 \in 0..MaxRetries
      BY <2>15, MaxRetriesAssumption DEF ApplyRetry, TypeOK
    <3> QED
      BY <2>15, <3>1, <1>f DEF ApplyRetry, Retryable, TypeOK, Goto, Running, Released, db, stream
  <2> QED
    BY <1>4, <2>1, <2>2, <2>3, <2>4, <2>5, <2>6, <2>7, <2>8, <2>9, <2>10, <2>11, <2>12,
       <2>13, <2>14, <2>15 DEF Step
<1>5. CASE UNCHANGED vars
  BY <1>5 DEF vars, TypeOK, db, server, stream
<1> QED
  BY <1>1, <1>2, <1>3, <1>4, <1>5 DEF Next

-------------------------------------------------------------------------------
(* The inductive invariant.                                                *)

LiveStates == {"idle", "pending", "committed", "aborted"}
Detached == Ended \cup {"open", "backoff", "resolve"}
InHand == {"apply", "commit", "backoff", "resolve", "replay", "recommit"}
Streaming == InHand \cup {"stream", "save"}

(* What every checkpoint row satisfies: nothing beyond the cursor, and in  *)
(* GTID mode nothing in scope missing before it.                           *)
CheckpointOK(cp) ==
    /\ \A g \in cp.gtids : g <= cp.pos
    /\ cp.last <= cp.pos
    /\ cp.phase # "incremental" => cp.last = 0
    /\ GtidMode /\ cp.phase # "none" => \A t \in Scope : t <= cp.pos => t \in cp.gtids

(* A session the server has not ended holds the advisory lock.             *)
LockOwner == \A s \in Sessions : sess[s] \in LiveStates => lock = s

NoSharedSession ==
    \A w, v \in Workers : conn[w] # NoSession /\ conn[w] = conn[v] => w = v

(* A COMMIT on its way leads from the present row and tables to ones that  *)
(* agree, and in the incremental phase to the next scoped transaction.     *)
PendOK(s) ==
    /\ CheckpointOK(pend[s].row)
    /\ \A t \in Tx : applied[t] + (IF t \in pend[s].effects THEN 1 ELSE 0)
                       = Claimed(pend[s].row)[t]
    /\ row.phase = "incremental" =>
         /\ pend[s].row.phase = "incremental"
         /\ row.pos < pend[s].row.pos
         /\ pend[s].row.pos \in Scope
         /\ \A u \in Scope : u < pend[s].row.pos => u <= row.pos
         /\ row.gtids \subseteq pend[s].row.gtids

SinkOK ==
    /\ LockOwner
    /\ NoSharedSession
    /\ ExactlyOnce
    /\ CheckpointOK(row)
    /\ \A s \in Sessions : sess[s] = "pending" => PendOK(s)

(* Where the worker is in run() tells what its session can be doing.       *)
ConnOK(w) ==
    /\ pc[w] \in Detached <=> conn[w] = NoSession
    /\ conn[w] # NoSession =>
         /\ pc[w] \in Committing => sess[conn[w]] \in {"pending", "committed", "aborted", "dead"}
         /\ pc[w] \notin Committing => sess[conn[w]] \in {"idle", "dead"}

(* The cached checkpoint is the row while the session lives, and never     *)
(* ahead of it.                                                            *)
CacheOK(w) ==
    /\ CheckpointOK(cache[w])
    /\ cache[w].phase = "incremental" => row.phase = "incremental" /\ cache[w].pos <= row.pos
    /\ conn[w] # NoSession =>
         /\ sess[conn[w]] \in {"idle", "pending", "aborted"} => cache[w] = row
         /\ sess[conn[w]] = "committed" => pend[conn[w]].row = row

(* The snapshot is read at the boundary the marker row names.              *)
SnapshotOK(w) ==
    /\ pc[w] = "snapshot" => cache[w].phase # "incremental"
    /\ pc[w] = "prepare" /\ sess[conn[w]] \in {"pending", "committed"} =>
         pend[conn[w]].row.pos = view[w] /\ pend[conn[w]].row.phase = "snapshot"
    /\ pc[w] \in {"prepared", "copy"} => cache[w].pos = view[w] /\ cache[w].phase = "snapshot"
    /\ pc[w] = "copying" /\ sess[conn[w]] \in {"pending", "committed"} =>
         pend[conn[w]].row.phase = "incremental"
    /\ pc[w] \in {"copied", "start"} => cache[w].phase = "incremental"

(* Every scoped transaction the stream has left behind is in the sink, and *)
(* only filtered ones are remembered.                                      *)
StreamOK(w) ==
    /\ obs[w] \cap Scope = {}
    /\ pc[w] \notin Streaming => obs[w] = {}
    /\ \A f \in obs[w] : f <= at[w]
    /\ pc[w] \in Streaming =>
         /\ row.phase = "incremental"
         /\ \A u \in Scope : u \in skip[w] \/ u < at[w] => u <= row.pos
         /\ pc[w] \in {"stream", "save"} /\ at[w] \in Scope => at[w] <= row.pos
    /\ pc[w] \in InHand => at[w] \in Scope
    /\ pc[w] \in {"commit", "recommit"} /\ sess[conn[w]] \in {"pending", "committed"} =>
         pend[conn[w]].row.pos = at[w] /\ pend[conn[w]].row.phase = "incremental"

WorkerOK(w) == ConnOK(w) /\ CacheOK(w) /\ SnapshotOK(w) /\ StreamOK(w)

IInv == TypeOK /\ SinkOK /\ \A w \in Workers : WorkerOK(w)

(* A step that leaves alone a worker, its session and the row keeps what   *)
(* is said of the worker.                                                  *)
LEMMA WorkerFrame ==
    ASSUME TypeOK, NEW v \in Workers, WorkerOK(v),
           pc'[v] = pc[v], conn'[v] = conn[v], cache'[v] = cache[v], obs'[v] = obs[v],
           skip'[v] = skip[v], at'[v] = at[v], view'[v] = view[v], row' = row,
           conn[v] # NoSession =>
             sess'[conn[v]] = sess[conn[v]] /\ pend'[conn[v]] = pend[conn[v]]
    PROVE  WorkerOK(v)'
<1>1. ConnOK(v)'
  BY DEF WorkerOK, ConnOK
<1>2. CacheOK(v)'
  BY DEF WorkerOK, CacheOK, CheckpointOK
<1>3. pc[v] \in Committing => conn[v] # NoSession
  BY DEF WorkerOK, ConnOK, Committing, Detached, Ended
<1>4. SnapshotOK(v)'
  BY <1>3 DEF WorkerOK, SnapshotOK, Committing
<1>5. StreamOK(v)'
  BY <1>3 DEF WorkerOK, StreamOK, Committing
<1> QED
  BY <1>1, <1>2, <1>4, <1>5 DEF WorkerOK

(* The end of a worker, at any point, keeps the invariant.                 *)
LEMMA EndStep ==
    ASSUME IInv, NEW w \in Workers, NEW o \in Ended, End(w, o), TypeOK'
    PROVE  IInv'
<1>1. \A s \in Sessions : sess'[s] = sess[s] \/ (s = conn[w] /\ sess[s] = "dead" /\ sess'[s] = "free")
  BY DEF End, Released, IInv, TypeOK
<1>2. SinkOK'
  <2>1. LockOwner'
    BY <1>1 DEF IInv, SinkOK, LockOwner, LiveStates, End
  <2>2. NoSharedSession'
    BY DEF IInv, SinkOK, NoSharedSession, End, TypeOK
  <2>3. ExactlyOnce' /\ CheckpointOK(row)'
    BY DEF IInv, SinkOK, ExactlyOnce, CheckpointOK, End, db
  <2>4. \A s \in Sessions : (sess[s] = "pending" => PendOK(s))'
    BY <1>1 DEF IInv, SinkOK, PendOK, CheckpointOK, End, db
  <2> QED
    BY <2>1, <2>2, <2>3, <2>4 DEF SinkOK
<1>3. ASSUME NEW v \in Workers, v # w PROVE WorkerOK(v)'
  <2>1. conn[v] # NoSession =>
          sess'[conn[v]] = sess[conn[v]] /\ pend'[conn[v]] = pend[conn[v]]
    BY <1>1, <1>3 DEF IInv, SinkOK, NoSharedSession, TypeOK, End
  <2> QED
    BY <1>3, <2>1, WorkerFrame DEF IInv, End, Goto, TypeOK, db
<1>4. WorkerOK(w)'
  <2>1. /\ pc'[w] \in Ended /\ conn'[w] = NoSession /\ cache'[w] = NoCheckpoint
        /\ obs'[w] = {} /\ at'[w] = 0
    BY DEF End, Goto, IInv, TypeOK
  <2> QED
    BY <2>1 DEF WorkerOK, ConnOK, CacheOK, CheckpointOK, SnapshotOK, StreamOK, NoCheckpoint,
       Ended, Detached, Committing, InHand, Streaming
<1> QED
  BY <1>2, <1>3, <1>4 DEF IInv


(* A step that touches neither the sink nor the connections keeps what is  *)
(* said of the sink.                                                       *)
LEMMA SinkFrame ==
    ASSUME IInv, UNCHANGED <<db, server, conn>>
    PROVE  SinkOK'
<1>1. row' = row /\ applied' = applied /\ sess' = sess /\ pend' = pend /\ lock' = lock /\ conn' = conn
  BY DEF db, server
<1>2. LockOwner' /\ NoSharedSession' /\ ExactlyOnce' /\ CheckpointOK(row)'
  BY <1>1 DEF IInv, SinkOK, LockOwner, NoSharedSession, ExactlyOnce, CheckpointOK
<1>3. \A s \in Sessions : (sess[s] = "pending" => PendOK(s))'
  BY <1>1 DEF IInv, SinkOK, PendOK, CheckpointOK
<1> QED
  BY <1>2, <1>3 DEF SinkOK

(* Opening a writer: the new session is the only live one.                 *)
LEMMA AcquireStep ==
    ASSUME IInv, NEW w \in Workers, NEW s \in Sessions, NEW l \in Running \ (Detached \cup Committing),
           conn[w] = NoSession, Acquire(w, s), Goto(w, l), UNCHANGED <<stream, retries>>, TypeOK',
           l = "start" => row.phase = "incremental",
           l = "snapshot" => row.phase # "incremental",
           l \notin {"prepared", "copy", "copied"},
           l \in Streaming =>
             /\ pc[w] \in InHand
             /\ l \in InHand \cup {"save"}
             /\ l = "save" => at[w] <= row.pos
    PROVE  IInv'
<1>1. /\ row' = row /\ applied' = applied /\ pend' = pend /\ lock' = s
      /\ \A q \in Sessions : sess'[q] = IF q = s THEN "idle" ELSE sess[q]
      /\ \A v \in Workers : conn'[v] = IF v = w THEN s ELSE conn[v]
  BY DEF Acquire, db, IInv, TypeOK
<1>2. \A v \in Workers : conn[v] # s
  <2>1. ASSUME NEW v \in Workers, conn[v] = s PROVE FALSE
    <3>1. conn[v] # NoSession /\ sess[conn[v]] = "free"
      BY <2>1, NoSessionAssumption DEF Acquire
    <3> QED
      BY <3>1 DEF IInv, WorkerOK, ConnOK
  <2> QED
    BY <2>1
<1>3. SinkOK'
  <2>1. LockOwner'
    BY <1>1, NoSessionAssumption DEF IInv, SinkOK, LockOwner, Acquire, LiveStates
  <2>2. NoSharedSession'
    BY <1>1, <1>2 DEF IInv, SinkOK, NoSharedSession
  <2>3. ExactlyOnce' /\ CheckpointOK(row)'
    BY <1>1 DEF IInv, SinkOK, ExactlyOnce, CheckpointOK
  <2>4. \A q \in Sessions : (sess[q] = "pending" => PendOK(q))'
    BY <1>1 DEF IInv, SinkOK, PendOK, CheckpointOK
  <2> QED
    BY <2>1, <2>2, <2>3, <2>4 DEF SinkOK
<1>4. ASSUME NEW v \in Workers, v # w PROVE WorkerOK(v)'
  <2>1. conn[v] # NoSession =>
          sess'[conn[v]] = sess[conn[v]] /\ pend'[conn[v]] = pend[conn[v]]
    BY <1>1, <1>2 DEF IInv, TypeOK
  <2> QED
    BY <1>1, <1>4, <2>1, WorkerFrame DEF IInv, Acquire, Goto, TypeOK, db, stream
<1>5. WorkerOK(w)'
  <2>1. /\ pc'[w] = l /\ conn'[w] = s /\ sess'[conn'[w]] = "idle" /\ cache'[w] = row /\ obs'[w] = {}
        /\ skip'[w] = skip[w] /\ at'[w] = at[w] /\ view'[w] = view[w] /\ s # NoSession
    BY <1>1, NoSessionAssumption DEF Acquire, Goto, stream, IInv, TypeOK
  <2>2. ConnOK(w)'
    BY <2>1 DEF ConnOK
  <2>3. CacheOK(w)'
    <3>1. row.pos \in Cursor
      BY DEF IInv, TypeOK, Checkpoint
    <3> QED
      BY <1>1, <2>1, <3>1, LastTxAssumption DEF CacheOK, IInv, SinkOK, CheckpointOK, Cursor
  <2>4. SnapshotOK(w)'
    BY <1>1, <2>1 DEF SnapshotOK, Committing
  <2>5. StreamOK(w)'
    <3>1. pc[w] \in InHand => row.phase = "incremental" /\ at[w] \in Scope
            /\ \A u \in Scope : u \in skip[w] \/ u < at[w] => u <= row.pos
      BY DEF IInv, WorkerOK, StreamOK, Streaming
    <3> QED
      BY <1>1, <2>1, <3>1 DEF StreamOK, Streaming, InHand, Committing
  <2> QED
    BY <2>2, <2>3, <2>4, <2>5 DEF WorkerOK
<1> QED
  BY <1>3, <1>4, <1>5 DEF IInv

(* Sending a COMMIT whose effect would be right leaves the rest as it was. *)
LEMMA SendCommitStep ==
    ASSUME IInv, NEW w \in Workers, NEW r \in Checkpoint, NEW e \in SUBSET Tx, NEW l \in Committing,
           SendCommit(w, r, e), Goto(w, l), TypeOK', PendOK(conn[w])',
           \A v \in Workers : v # w => view'[v] = view[v],
           UNCHANGED <<src, db, lock, mirror, conn, cache, obs, skip, at, retries, stop>>,
           SnapshotOK(w)', StreamOK(w)'
    PROVE  IInv'
<1>0. conn[w] \in Sessions /\ sess[conn[w]] = "idle"
  BY DEF SendCommit, Live, IInv, TypeOK
<1>1. /\ row' = row /\ applied' = applied /\ lock' = lock /\ conn' = conn
      /\ \A q \in Sessions : q # conn[w] => sess'[q] = sess[q] /\ pend'[q] = pend[q]
      /\ sess'[conn[w]] = "pending"
  BY <1>0 DEF SendCommit, db, IInv, TypeOK
<1>2. SinkOK'
  <2>1. LockOwner' /\ NoSharedSession' /\ ExactlyOnce' /\ CheckpointOK(row)'
    BY <1>0, <1>1 DEF IInv, SinkOK, LockOwner, NoSharedSession, ExactlyOnce, CheckpointOK, LiveStates
  <2>2. ASSUME NEW q \in Sessions, sess'[q] = "pending" PROVE PendOK(q)'
    <3>1. CASE q = conn[w]
      BY <1>1, <3>1
    <3>2. CASE q # conn[w]
      BY <1>1, <2>2, <3>2 DEF IInv, SinkOK, PendOK, CheckpointOK
    <3> QED
      BY <3>1, <3>2
  <2> QED
    BY <2>1, <2>2 DEF SinkOK
<1>3. ASSUME NEW v \in Workers, v # w PROVE WorkerOK(v)'
  <2>1. conn[v] # NoSession =>
          sess'[conn[v]] = sess[conn[v]] /\ pend'[conn[v]] = pend[conn[v]]
    BY <1>1, <1>3 DEF IInv, SinkOK, NoSharedSession, TypeOK
  <2> QED
    BY <1>1, <1>3, <2>1, WorkerFrame DEF IInv, Goto, TypeOK
<1>4. ConnOK(w)' /\ CacheOK(w)'
  <2>1. pc'[w] = l /\ cache'[w] = cache[w] /\ conn'[w] = conn[w] /\ conn[w] # NoSession
    BY <1>0, NoSessionAssumption DEF Goto, IInv, TypeOK
  <2>2. CacheOK(w)'
    BY <1>0, <1>1, <2>1 DEF CacheOK, IInv, WorkerOK, CheckpointOK
  <2> QED
    BY <1>1, <2>1, <2>2 DEF ConnOK, Committing, Detached, Ended
<1> QED
  BY <1>2, <1>3, <1>4 DEF IInv, WorkerOK

(* A step of worker w alone, away from the sink.                           *)
LEMMA LocalStep ==
    ASSUME IInv, TypeOK', NEW w \in Workers, UNCHANGED <<db, server, conn>>,
           \A v \in Workers : v # w =>
             /\ pc'[v] = pc[v] /\ cache'[v] = cache[v] /\ obs'[v] = obs[v]
             /\ skip'[v] = skip[v] /\ at'[v] = at[v] /\ view'[v] = view[v],
           WorkerOK(w)'
    PROVE  IInv'
<1>1. SinkOK'
  BY SinkFrame
<1>2. row' = row /\ sess' = sess /\ pend' = pend /\ conn' = conn
  BY DEF db, server
<1>3. ASSUME NEW v \in Workers, v # w PROVE WorkerOK(v)'
  BY <1>2, <1>3, WorkerFrame DEF IInv
<1> QED
  BY <1>1, <1>3 DEF IInv

(* The client of w lets go of its session and keeps the rest.              *)
LEMMA DropStep ==
    ASSUME IInv, TypeOK', NEW w \in Workers, NEW l \in {"backoff", "resolve"},
           pc[w] \in {"apply", "commit"}, Goto(w, l),
           sess' = Released(conn[w]), conn' = [conn EXCEPT ![w] = NoSession],
           UNCHANGED <<db, pend, lock, cache, obs, stream>>
    PROVE  IInv'
<1>1. \A s \in Sessions : sess'[s] = sess[s] \/ (s = conn[w] /\ sess[s] = "dead" /\ sess'[s] = "free")
  BY DEF Released, IInv, TypeOK
<1>0. /\ \A v \in Workers : conn'[v] = IF v = w THEN NoSession ELSE conn[v]
      /\ \A v \in Workers : pc'[v] = IF v = w THEN l ELSE pc[v]
      /\ row' = row /\ applied' = applied /\ skip' = skip /\ at' = at /\ view' = view
  BY DEF Goto, db, stream, IInv, TypeOK
<1>2. SinkOK'
  <2>1. LockOwner'
    BY <1>0, <1>1 DEF IInv, SinkOK, LockOwner, LiveStates
  <2>2. NoSharedSession'
    BY <1>0, <1>1 DEF IInv, SinkOK, NoSharedSession
  <2>3. ExactlyOnce' /\ CheckpointOK(row)'
    BY <1>0, <1>1 DEF IInv, SinkOK, ExactlyOnce, CheckpointOK
  <2>4. \A s \in Sessions : (sess[s] = "pending" => PendOK(s))'
    BY <1>0, <1>1 DEF IInv, SinkOK, PendOK, CheckpointOK
  <2> QED
    BY <2>1, <2>2, <2>3, <2>4 DEF SinkOK
<1>3. ASSUME NEW v \in Workers, v # w PROVE WorkerOK(v)'
  <2>1. conn[v] # NoSession =>
          sess'[conn[v]] = sess[conn[v]] /\ pend'[conn[v]] = pend[conn[v]]
    BY <1>0, <1>1, <1>3 DEF IInv, SinkOK, NoSharedSession, TypeOK
  <2> QED
    BY <1>0, <1>1, <1>3, <2>1, WorkerFrame DEF IInv
<1>4. WorkerOK(w)'
  <2>1. WorkerOK(w)
    BY DEF IInv
  <2>2. ConnOK(w)'
    BY <1>0, <1>1 DEF ConnOK, Detached
  <2>3. CacheOK(w)'
    BY <1>0, <1>1, <2>1 DEF WorkerOK, CacheOK, CheckpointOK
  <2>4. SnapshotOK(w)'
    BY <1>0, <1>1 DEF SnapshotOK
  <2>5. StreamOK(w)'
    BY <1>0, <1>1, <2>1 DEF WorkerOK, StreamOK, Streaming, InHand
  <2> QED
    BY <2>2, <2>3, <2>4, <2>5 DEF WorkerOK
<1> QED
  BY <1>2, <1>3, <1>4 DEF IInv

(* The server commits: the row and the tables move together, and only the  *)
(* owner of the lock can have had a COMMIT on its way.                     *)
LEMMA ServerCommitStep ==
    ASSUME IInv, TypeOK', NEW s \in Sessions, ServerCommit(s)
    PROVE  IInv'
<1>1. /\ lock = s /\ PendOK(s) /\ pend[s].row \in Checkpoint
      /\ \A q \in Sessions : q # s => sess[q] \notin LiveStates
  BY DEF ServerCommit, IInv, SinkOK, LockOwner, LiveStates, TypeOK, Pending
<1>2. /\ row' = pend[s].row /\ lock' = lock /\ pend' = pend /\ conn' = conn /\ pc' = pc
      /\ cache' = cache /\ obs' = obs /\ skip' = skip /\ at' = at /\ view' = view
      /\ \A q \in Sessions : sess'[q] = IF q = s THEN "committed" ELSE sess[q]
  BY DEF ServerCommit, stream, IInv, TypeOK
<1>3. row.phase = "incremental" => row'.phase = "incremental" /\ row.pos < row'.pos
  BY <1>1, <1>2 DEF PendOK
<1>4. row.pos \in Nat /\ row'.pos \in Nat /\ \A t \in Scope : t \in Nat
  BY LastTxAssumption, ScopeAssumption DEF IInv, TypeOK, Checkpoint, Cursor
<1>5. SinkOK'
  <2>1. LockOwner' /\ NoSharedSession'
    BY <1>1, <1>2 DEF IInv, SinkOK, LockOwner, NoSharedSession
  <2>2. CheckpointOK(row)'
    BY <1>1, <1>2 DEF PendOK, CheckpointOK
  <2>3. ExactlyOnce'
    <3>1. \A t \in Tx : applied'[t] = Claimed(pend[s].row)[t]
      BY <1>1 DEF ServerCommit, PendOK
    <3>2. applied' = [t \in Tx |-> applied'[t]]
      BY DEF TypeOK
    <3>3. Claimed(pend[s].row) = [t \in Tx |-> Claimed(pend[s].row)[t]]
      BY DEF Claimed, Prefix
    <3>4. applied' = Claimed(pend[s].row)
      BY <3>1, <3>2, <3>3
    <3> QED
      BY <3>4, <1>2 DEF ExactlyOnce, Claimed
  <2>4. \A q \in Sessions : sess'[q] # "pending"
    BY <1>1, <1>2 DEF LiveStates
  <2> QED
    BY <2>1, <2>2, <2>3, <2>4 DEF SinkOK
<1>6. ASSUME NEW v \in Workers PROVE WorkerOK(v)'
  <2>1. WorkerOK(v)
    BY DEF IInv
  <2>2. conn[v] # NoSession =>
          \/ conn[v] = s /\ sess'[conn[v]] = "committed" /\ sess[conn[v]] = "pending" /\ pc[v] \in Committing
          \/ conn[v] # s /\ sess'[conn[v]] = "dead" /\ sess[conn[v]] = "dead"
    <3>1. conn[v] # NoSession => conn[v] \in Sessions
      BY DEF IInv, TypeOK
    <3> QED
      BY <1>1, <1>2, <2>1, <3>1 DEF ServerCommit, WorkerOK, ConnOK, LiveStates
  <2>3. pc[v] \in Committing => conn[v] # NoSession
    BY <2>1 DEF WorkerOK, ConnOK, Committing, Detached, Ended
  <2>4. ConnOK(v)'
    BY <1>2, <2>1, <2>2 DEF WorkerOK, ConnOK
  <2>5. CacheOK(v)'
    <3>1. cache[v].pos \in Nat
      BY LastTxAssumption DEF IInv, TypeOK, Checkpoint, Cursor
    <3>2. CheckpointOK(cache[v])'
      BY <1>2, <2>1 DEF WorkerOK, CacheOK, CheckpointOK
    <3>3. cache[v].phase = "incremental" => row'.phase = "incremental" /\ cache[v].pos <= row'.pos
      BY <1>3, <1>4, <2>1, <3>1 DEF WorkerOK, CacheOK
    <3> QED
      BY <1>2, <2>2, <3>2, <3>3 DEF CacheOK
  <2>6. SnapshotOK(v)'
    BY <1>2, <2>1, <2>2, <2>3 DEF WorkerOK, SnapshotOK, Committing
  <2>7. StreamOK(v)'
    <3>1. pc[v] \in Streaming =>
            /\ row'.phase = "incremental"
            /\ \A u \in Scope : u \in skip[v] \/ u < at[v] => u <= row'.pos
            /\ pc[v] \in {"stream", "save"} /\ at[v] \in Scope => at[v] <= row'.pos
      BY <1>3, <1>4, <2>1 DEF WorkerOK, StreamOK
    <3> QED
      BY <1>2, <2>1, <2>2, <2>3, <3>1 DEF WorkerOK, StreamOK, Committing
  <2> QED
    BY <2>4, <2>5, <2>6, <2>7 DEF WorkerOK
<1> QED
  BY <1>5, <1>6 DEF IInv

(* The server rolls back, ends or kills a session: nothing it had on its   *)
(* way can be committed any more.                                          *)
LEMMA SessionStep ==
    ASSUME IInv, TypeOK', NEW s \in Sessions, ServerAbort(s) \/ SessionEnd(s) \/ SessionKill(s)
    PROVE  IInv'
<1>1. /\ row' = row /\ applied' = applied /\ conn' = conn /\ pc' = pc
      /\ cache' = cache /\ obs' = obs /\ skip' = skip /\ at' = at /\ view' = view
      /\ \A q \in Sessions : q # s => sess'[q] = sess[q] /\ pend'[q] = pend[q]
      /\ sess'[s] \in {"aborted", "free", "dead"}
      /\ sess'[s] = "aborted" => lock' = lock /\ sess[s] = "pending"
      /\ lock' = IF sess'[s] # "aborted" /\ lock = s THEN NoSession ELSE lock
      /\ sess'[s] = "free" => \A w \in Workers : conn[w] # s
      /\ sess[s] \in LiveStates
  BY DEF ServerAbort, SessionEnd, SessionKill, db, stream, IInv, TypeOK, LiveStates
<1>2. SinkOK'
  <2>1. LockOwner'
    BY <1>1 DEF IInv, SinkOK, LockOwner, LiveStates
  <2>2. NoSharedSession' /\ ExactlyOnce' /\ CheckpointOK(row)'
    BY <1>1 DEF IInv, SinkOK, NoSharedSession, ExactlyOnce, CheckpointOK
  <2>3. \A q \in Sessions : (sess[q] = "pending" => PendOK(q))'
    BY <1>1 DEF IInv, SinkOK, PendOK, CheckpointOK
  <2> QED
    BY <2>1, <2>2, <2>3 DEF SinkOK
<1>3. ASSUME NEW v \in Workers PROVE WorkerOK(v)'
  <2>1. WorkerOK(v)
    BY DEF IInv
  <2>2. CASE conn[v] # s
    <3>1. conn[v] # NoSession => sess'[conn[v]] = sess[conn[v]] /\ pend'[conn[v]] = pend[conn[v]]
      BY <1>1, <2>2 DEF IInv, TypeOK
    <3> QED
      BY <1>1, <2>1, <3>1, WorkerFrame DEF IInv
  <2>3. CASE conn[v] = s
    <3>1. conn'[v] # NoSession /\ sess'[conn'[v]] \in {"aborted", "dead"}
      BY <1>1, <2>3, NoSessionAssumption
    <3>2. sess'[conn'[v]] = "aborted" => sess[conn[v]] = "pending" /\ pc[v] \in Committing
      BY <1>1, <2>1, <2>3, <3>1 DEF WorkerOK, ConnOK
    <3>3. ConnOK(v)'
      BY <1>1, <2>1, <3>1, <3>2 DEF WorkerOK, ConnOK
    <3>4. CacheOK(v)'
      BY <1>1, <2>1, <3>1, <3>2 DEF WorkerOK, CacheOK, CheckpointOK
    <3>5. SnapshotOK(v)'
      BY <1>1, <2>1, <3>1 DEF WorkerOK, SnapshotOK
    <3>6. StreamOK(v)'
      BY <1>1, <2>1, <3>1 DEF WorkerOK, StreamOK
    <3> QED
      BY <3>3, <3>4, <3>5, <3>6 DEF WorkerOK
  <2> QED
    BY <2>2, <2>3
<1> QED
  BY <1>2, <1>3 DEF IInv

(* The transaction a stream delivers next has no undelivered one in scope  *)
(* before it.                                                              *)
LEMMA DeliveredBefore ==
    ASSUME IInv, NEW w \in Workers, pc[w] = "stream", NEW t \in Tx, Next1(w, t)
    PROVE  \A u \in Scope : u \in skip[w] \/ u < t => u <= row.pos
<1> SUFFICES ASSUME NEW u \in Scope, u \in skip[w] \/ u < t PROVE u <= row.pos
  OBVIOUS
<1>0. /\ u \in Tx /\ u \in Nat /\ t \in Nat /\ at[w] \in Nat /\ src \in Nat /\ row.pos \in Nat
  BY LastTxAssumption, ScopeAssumption DEF IInv, TypeOK, Tx, Cursor, Checkpoint
<1>1. /\ u \in skip[w] \/ u < at[w] => u <= row.pos
      /\ at[w] \in Scope => at[w] <= row.pos
  BY DEF IInv, WorkerOK, StreamOK, Streaming, InHand
<1>2. CASE u \in skip[w] \/ u <= at[w]
  <2>1. u < at[w] \/ u = at[w] \/ u \in skip[w]
    BY <1>0, <1>2
  <2> QED
    BY <1>1, <2>1
<1>3. CASE u \notin skip[w] /\ at[w] < u
  BY <1>0, <1>3 DEF Next1, ToSend
<1> QED
  BY <1>0, <1>2, <1>3

(* The steps of a worker that do not touch the sink.                       *)
LEMMA WorkerLocalStep ==
    ASSUME IInv, TypeOK', NEW w \in Workers,
           \/ Start(w) \/ StopTask(w) \/ Save(w) \/ StartStream(w) \/ ApplySkip(w)
           \/ \E t \in Tx : Observe(w, t) \/ Read(w, t)
    PROVE  IInv'
<1>0. /\ WorkerOK(w)
      /\ row.pos \in Nat /\ cache[w].pos \in Nat /\ at[w] \in Nat
      /\ \A t \in Tx : t \in Nat
      /\ Scope \subseteq Tx /\ obs[w] \subseteq Tx
  <2>1. row.pos \in Nat /\ cache[w].pos \in Nat /\ at[w] \in Nat
    BY LastTxAssumption DEF IInv, TypeOK, Cursor, Checkpoint
  <2>2. obs[w] \subseteq Tx
    BY DEF IInv, TypeOK
  <2>3. Scope \subseteq Tx /\ \A t \in Tx : t \in Nat
    BY LastTxAssumption, ScopeAssumption DEF Tx
  <2> QED
    BY <2>1, <2>2, <2>3 DEF IInv
<1>1. CASE Start(w)
  <2>1. /\ UNCHANGED <<db, server, conn, cache, obs, skip, at, view>>
        /\ \A v \in Workers : pc'[v] = IF v = w THEN "open" ELSE pc[v]
    BY <1>1 DEF Start, Goto, stream, db, server, IInv, TypeOK
  <2>2. WorkerOK(w)'
    BY <1>0, <1>1, <2>1 DEF Start, WorkerOK, ConnOK, CacheOK, SnapshotOK, StreamOK, CheckpointOK,
       db, server, Ended, Detached, Committing, InHand, Streaming
  <2> QED
    BY <2>1, <2>2, LocalStep DEF db, server
<1>2. CASE StopTask(w)
  <2>1. UNCHANGED <<db, server, pc, conn, cache, obs, skip, at, view>>
    BY <1>2 DEF StopTask, stream, db, server
  <2>2. WorkerOK(w)'
    BY <1>0, <2>1, WorkerFrame DEF IInv, db, server
  <2> QED
    BY <2>1, <2>2, LocalStep DEF db, server
<1>3. CASE Save(w)
  <2>1. /\ UNCHANGED <<db, server, conn, cache, obs, skip, at, view>>
        /\ \A v \in Workers : pc'[v] = IF v = w THEN AfterSave(pc[w]) ELSE pc[v]
    BY <1>3 DEF Save, Goto, stream, db, server, IInv, TypeOK
  <2>2. ConnOK(w)' /\ CacheOK(w)'
    BY <1>0, <1>3, <2>1 DEF Save, AfterSave, WorkerOK, ConnOK, CacheOK, CheckpointOK,
       db, server, Ended, Detached, Committing
  <2>3. SnapshotOK(w)'
    BY <1>0, <1>3, <2>1 DEF Save, AfterSave, WorkerOK, SnapshotOK, server
  <2>4. StreamOK(w)'
    BY <1>0, <1>3, <2>1 DEF Save, AfterSave, WorkerOK, StreamOK, db, server, InHand, Streaming
  <2> QED
    BY <2>1, <2>2, <2>3, <2>4, LocalStep DEF db, server, WorkerOK
<1>4. CASE StartStream(w)
  <2>1. /\ UNCHANGED <<db, server, conn, cache, obs, view>>
        /\ \A v \in Workers : /\ pc'[v] = IF v = w THEN "stream" ELSE pc[v]
                              /\ skip'[v] = IF v = w THEN StartSet(cache[w]) ELSE skip[v]
                              /\ at'[v] = IF v = w THEN 0 ELSE at[v]
    BY <1>4 DEF StartStream, Goto, db, server, IInv, TypeOK
  <2>2. ConnOK(w)' /\ CacheOK(w)' /\ SnapshotOK(w)'
    BY <1>0, <1>4, <2>1 DEF StartStream, WorkerOK, ConnOK, CacheOK, SnapshotOK, CheckpointOK,
       db, server, Ended, Detached, Committing
  <2>3. StreamOK(w)'
    <3>1. row.phase = "incremental" /\ cache[w].pos <= row.pos /\ obs[w] = {}
      BY <1>0, <1>4 DEF StartStream, WorkerOK, CacheOK, SnapshotOK, StreamOK, Streaming, InHand
    <3>2. \A u \in StartSet(cache[w]) : u <= cache[w].pos
      BY <1>0, GtidModeAssumption DEF StartSet, WorkerOK, CacheOK, CheckpointOK
    <3>3. \A u \in Scope : u \in StartSet(cache[w]) \/ u < 0 => u <= row.pos
      BY <1>0, <3>1, <3>2
    <3>4. 0 \notin Scope
      BY ScopeAssumption, LastTxAssumption
    <3> QED
      BY <2>1, <3>1, <3>3, <3>4 DEF StreamOK, Streaming, InHand, db
  <2> QED
    BY <2>1, <2>2, <2>3, LocalStep DEF db, server, WorkerOK
<1>5. CASE ApplySkip(w)
  <2>1. /\ UNCHANGED <<db, server, conn, cache, obs, skip, at, view>>
        /\ \A v \in Workers : pc'[v] = IF v = w THEN "save" ELSE pc[v]
        /\ pc[w] \in {"apply", "replay"}
    BY <1>5 DEF ApplySkip, Applying, Goto, stream, db, server, IInv, TypeOK
  <2>2. ConnOK(w)' /\ CacheOK(w)' /\ SnapshotOK(w)'
    BY <1>0, <2>1 DEF WorkerOK, ConnOK, CacheOK, SnapshotOK, CheckpointOK,
       db, server, Ended, Detached, Committing
  <2>3. StreamOK(w)'
    <3>1. at[w] <= row.pos
      BY <1>0, <1>5 DEF ApplySkip, AlreadyApplied, IInv, SinkOK, CheckpointOK
    <3> QED
      BY <1>0, <2>1, <3>1 DEF WorkerOK, StreamOK, db, server, InHand, Streaming
  <2> QED
    BY <2>1, <2>2, <2>3, LocalStep DEF db, server, WorkerOK
<1>6. ASSUME NEW t \in Tx, Observe(w, t) \/ Read(w, t) PROVE IInv'
  <2>1. /\ UNCHANGED <<db, server, conn, cache, skip, view>>
        /\ \A v \in Workers : at'[v] = IF v = w THEN t ELSE at[v]
        /\ \A v \in Workers : v # w => pc'[v] = pc[v] /\ obs'[v] = obs[v]
        /\ pc[w] = "stream" /\ Next1(w, t)
    BY <1>6 DEF Observe, Read, Goto, db, server, IInv, TypeOK
  <2>2. \/ t \notin Scope /\ pc'[w] = "stream" /\ obs'[w] = obs[w] \cup {t}
        \/ t \in Scope /\ pc'[w] = "apply" /\ obs'[w] = obs[w]
    BY <1>6 DEF Observe, Read, Goto, IInv, TypeOK
  <2>3. ConnOK(w)' /\ CacheOK(w)' /\ SnapshotOK(w)'
    BY <1>0, <2>1, <2>2 DEF WorkerOK, ConnOK, CacheOK, SnapshotOK, CheckpointOK,
       db, server, Ended, Detached, Committing
  <2>4. StreamOK(w)'
    <3>1. \A u \in Scope : u \in skip[w] \/ u < t => u <= row.pos
      BY <2>1, DeliveredBefore
    <3>2. obs'[w] \cap Scope = {}
      BY <1>0, <2>2 DEF WorkerOK, StreamOK
    <3>3. \A f \in obs'[w] : f <= t
      <4>1. at[w] < t
        BY <2>1 DEF Next1, ToSend
      <4>2. \A f \in obs[w] : f <= at[w] /\ f \in Nat
        BY <1>0 DEF WorkerOK, StreamOK
      <4> QED
        BY <1>0, <2>2, <4>1, <4>2
    <3>4. row.phase = "incremental"
      BY <1>0, <2>1 DEF WorkerOK, StreamOK, Streaming
    <3> QED
      BY <2>1, <2>2, <3>1, <3>2, <3>3, <3>4 DEF StreamOK, db, InHand, Streaming
  <2> QED
    BY <2>1, <2>3, <2>4, LocalStep DEF db, server, WorkerOK
<1> QED
  BY <1>1, <1>2, <1>3, <1>4, <1>5, <1>6

(* The three transactions of the writer would each leave row and tables    *)
(* in agreement.                                                           *)
LEMMA PrepareStep ==
    ASSUME IInv, TypeOK', NEW w \in Workers, PrepareSnapshot(w)
    PROVE  IInv'
<1>0. /\ conn[w] \in Sessions /\ row = cache[w] /\ cache[w] \in Checkpoint /\ src \in Cursor
      /\ cache[w].phase # "incremental" /\ CheckpointOK(cache[w])
      /\ conn[w] # NoSession /\ WorkerOK(w)
  BY NoSessionAssumption DEF PrepareSnapshot, SendCommit, Live, IInv, TypeOK, WorkerOK, SnapshotOK, CacheOK
<1>1. /\ pend'[conn[w]] = [row |-> Prepared(cache[w], src), effects |-> {}]
      /\ pc'[w] = "prepare" /\ view'[w] = src /\ \A v \in Workers : v # w => view'[v] = view[v]
      /\ UNCHANGED <<row, applied, conn, cache, obs, skip, at>>
  BY <1>0 DEF PrepareSnapshot, SendCommit, Goto, db, IInv, TypeOK
<1>2. /\ Prepared(cache[w], src).pos = src /\ Prepared(cache[w], src).phase = "snapshot"
      /\ Prepared(cache[w], src).last = cache[w].last
      /\ Prepared(cache[w], src).gtids = IF GtidMode THEN 1..src ELSE {}
  BY DEF Prepared
<1>3. CheckpointOK(Prepared(cache[w], src))
  <2>1. src \in Nat /\ cache[w].last = 0
    BY <1>0, LastTxAssumption DEF CheckpointOK, Cursor
  <2>2. \A t \in Scope : t \in Nat /\ 1 <= t
    BY LastTxAssumption, ScopeAssumption
  <2>3. \A g \in Prepared(cache[w], src).gtids : g <= src
    BY <1>2, <2>1, GtidModeAssumption
  <2>4. GtidMode => \A t \in Scope : t <= src => t \in Prepared(cache[w], src).gtids
    BY <1>2, <2>1, <2>2
  <2> QED
    BY <1>2, <2>1, <2>3, <2>4 DEF CheckpointOK
<1>4. \A t \in Tx : applied[t] + 0 = Claimed(Prepared(cache[w], src))[t]
  BY <1>2, LastTxAssumption DEF PrepareSnapshot, TargetsEmpty, Claimed, Prefix, Tx
<1>5. PendOK(conn[w])'
  <2>1. CheckpointOK(pend[conn[w]].row)'
    BY <1>1, <1>3 DEF CheckpointOK
  <2>2. (\A t \in Tx : applied[t] + (IF t \in pend[conn[w]].effects THEN 1 ELSE 0)
                         = Claimed(pend[conn[w]].row)[t])'
    BY <1>1, <1>4 DEF Claimed
  <2> QED
    BY <1>0, <1>1, <2>1, <2>2 DEF PendOK
<1>6. SnapshotOK(w)'
  BY <1>1, <1>2 DEF SnapshotOK
<1>7. StreamOK(w)'
  BY <1>0, <1>1 DEF PrepareSnapshot, WorkerOK, StreamOK, Streaming, InHand
<1>8. Prepared(cache[w], src) \in Checkpoint /\ {} \in SUBSET Tx /\ "prepare" \in Committing
  BY <1>0, CheckpointTypes DEF Committing
<1> QED
  BY <1>1, <1>5, <1>6, <1>7, <1>8, SendCommitStep DEF PrepareSnapshot

LEMMA CopyStep ==
    ASSUME IInv, TypeOK', NEW w \in Workers, CopySnapshot(w)
    PROVE  IInv'
<1> DEFINE E == {t \in Scope : t <= view[w]}
<1>0. /\ conn[w] \in Sessions /\ row = cache[w] /\ cache[w] \in Checkpoint
      /\ cache[w].phase = "snapshot" /\ cache[w].pos = view[w] /\ CheckpointOK(cache[w])
      /\ conn[w] # NoSession /\ WorkerOK(w)
  BY NoSessionAssumption DEF CopySnapshot, SendCommit, Live, IInv, TypeOK, WorkerOK, SnapshotOK, CacheOK
<1>1. /\ pend'[conn[w]] = [row |-> Copied(cache[w]), effects |-> E]
      /\ pc'[w] = "copying" /\ view' = view
      /\ UNCHANGED <<row, applied, conn, cache, obs, skip, at>>
  BY <1>0 DEF CopySnapshot, SendCommit, Goto, db, stream, IInv, TypeOK
<1>2. /\ Copied(cache[w]).pos = view[w] /\ Copied(cache[w]).phase = "incremental"
      /\ Copied(cache[w]).last = cache[w].last /\ Copied(cache[w]).gtids = cache[w].gtids
  BY <1>0 DEF Copied
<1>3. CheckpointOK(Copied(cache[w]))
  BY <1>0, <1>2 DEF CheckpointOK
<1>4. \A t \in Tx : applied[t] + (IF t \in E THEN 1 ELSE 0) = Claimed(Copied(cache[w]))[t]
  BY <1>2 DEF CopySnapshot, TargetsEmpty, Claimed, Prefix
<1>5. PendOK(conn[w])'
  <2>1. CheckpointOK(pend[conn[w]].row)'
    BY <1>1, <1>3 DEF CheckpointOK
  <2>2. (\A t \in Tx : applied[t] + (IF t \in pend[conn[w]].effects THEN 1 ELSE 0)
                         = Claimed(pend[conn[w]].row)[t])'
    BY <1>1, <1>4 DEF Claimed
  <2> QED
    BY <1>0, <1>1, <2>1, <2>2 DEF PendOK
<1>6. SnapshotOK(w)'
  BY <1>1, <1>2 DEF SnapshotOK
<1>7. StreamOK(w)'
  BY <1>0, <1>1 DEF CopySnapshot, WorkerOK, StreamOK, Streaming, InHand
<1>8. Copied(cache[w]) \in Checkpoint /\ E \in SUBSET Tx /\ "copying" \in Committing
  BY <1>0, CheckpointTypes, ScopeAssumption DEF Committing, Tx
<1> QED
  BY <1>1, <1>5, <1>6, <1>7, <1>8, SendCommitStep DEF CopySnapshot, stream

LEMMA ApplyStep ==
    ASSUME IInv, TypeOK', NEW w \in Workers, Apply(w)
    PROVE  IInv'
<1> DEFINE r == Advanced(row, obs[w], at[w])
<1>0. /\ conn[w] \in Sessions /\ row \in Checkpoint /\ row.phase = "incremental"
      /\ CheckpointOK(row) /\ applied = Claimed(row)
      /\ conn[w] # NoSession /\ WorkerOK(w)
      /\ pc[w] \in {"apply", "replay"}
  BY NoSessionAssumption DEF Apply, Applying, SendCommit, Live, IInv, SinkOK, ExactlyOnce, TypeOK
<1>1. /\ pend'[conn[w]] = [row |-> r, effects |-> {at[w]}]
      /\ pc'[w] \in {"commit", "recommit"} /\ view' = view
      /\ UNCHANGED <<row, applied, conn, cache, obs, skip, at>>
  BY <1>0 DEF Apply, SendCommit, Goto, db, stream, IInv, TypeOK
<1>2. /\ at[w] \in Scope /\ at[w] \in Tx /\ at[w] \in Nat /\ row.pos \in Nat
      /\ obs[w] \in SUBSET Tx /\ \A t \in Tx : t \in Nat
  <2>1. at[w] \in Scope
    BY <1>0 DEF WorkerOK, StreamOK, InHand
  <2>2. row.pos \in Nat /\ obs[w] \in SUBSET Tx
    BY LastTxAssumption DEF IInv, TypeOK, Checkpoint, Cursor
  <2>3. Scope \subseteq Tx /\ \A t \in Tx : t \in Nat
    BY LastTxAssumption, ScopeAssumption DEF Tx
  <2> QED
    BY <2>1, <2>2, <2>3
<1>3. row.pos < at[w]
  BY <1>0, <1>2, GtidModeAssumption DEF Apply, AlreadyApplied, HistoryDisagrees
<1>4. /\ \A u \in Scope : u < at[w] => u <= row.pos
      /\ \A f \in obs[w] : f <= at[w]
  BY <1>0 DEF WorkerOK, StreamOK, Streaming, InHand
<1>5. /\ r.pos = at[w] /\ r.phase = "incremental" /\ r.last = at[w]
      /\ r.gtids = IF GtidMode THEN row.gtids \cup obs[w] \cup {at[w]} ELSE row.gtids
  BY <1>0 DEF Advanced
<1>6. CheckpointOK(r)
  <2>1. \A g \in row.gtids : g <= row.pos /\ g \in Nat
    BY <1>0, <1>2 DEF CheckpointOK, Checkpoint
  <2>2. \A g \in r.gtids : g <= r.pos
    BY <1>2, <1>3, <1>4, <1>5, <2>1, GtidModeAssumption
  <2>3. GtidMode => \A t \in Scope : t <= r.pos => t \in r.gtids
    <3> SUFFICES ASSUME GtidMode, NEW t \in Scope, t <= at[w] PROVE t \in r.gtids
      BY <1>5
    <3>1. t \in Nat
      BY <1>2, ScopeAssumption DEF Tx
    <3>2. t = at[w] \/ t <= row.pos
      BY <1>2, <1>4, <3>1
    <3> QED
      BY <1>0, <1>5, <3>2 DEF CheckpointOK
  <2> HIDE DEF r
  <2> QED
    BY <1>2, <1>5, <2>2, <2>3 DEF CheckpointOK
<1>7. \A t \in Tx : applied[t] + (IF t \in {at[w]} THEN 1 ELSE 0) = Claimed(r)[t]
  <2> SUFFICES ASSUME NEW t \in Tx
               PROVE applied[t] + (IF t = at[w] THEN 1 ELSE 0) = Claimed(r)[t]
    OBVIOUS
  <2>1. applied[t] = IF t \in Scope /\ t <= row.pos THEN 1 ELSE 0
    BY <1>0 DEF Claimed, Prefix
  <2>2. Claimed(r)[t] = IF t \in Scope /\ t <= at[w] THEN 1 ELSE 0
    BY <1>5 DEF Claimed, Prefix
  <2> QED
    BY <1>2, <1>3, <1>4, <2>1, <2>2
<1>8. PendOK(conn[w])'
  <2> HIDE DEF r
  <2>1. CheckpointOK(pend[conn[w]].row)'
    BY <1>1, <1>6 DEF CheckpointOK
  <2>2. (\A t \in Tx : applied[t] + (IF t \in pend[conn[w]].effects THEN 1 ELSE 0)
                         = Claimed(pend[conn[w]].row)[t])'
    BY <1>1, <1>7 DEF Claimed
  <2>3. row.gtids \subseteq r.gtids
    BY <1>5
  <2> QED
    BY <1>1, <1>2, <1>3, <1>4, <1>5, <2>1, <2>2, <2>3 DEF PendOK
<1>9. SnapshotOK(w)' /\ StreamOK(w)'
  <2> HIDE DEF r
  <2> QED
    BY <1>0, <1>1, <1>5 DEF WorkerOK, SnapshotOK, StreamOK, Streaming, InHand
<1>10. r \in Checkpoint /\ {at[w]} \in SUBSET Tx
  BY <1>0, <1>2, CheckpointTypes
<1> DEFINE l == IF pc[w] = "apply" THEN "commit" ELSE "recommit"
<1>11. l \in Committing /\ Goto(w, l) /\ SendCommit(w, r, {at[w]})
  BY DEF Apply, Committing
<1> HIDE DEF r, l
<1> QED
  BY <1>1, <1>8, <1>9, <1>10, <1>11, SendCommitStep DEF Apply, stream

(* The answer to a COMMIT: the writer now knows the row it wrote.          *)
LEMMA CommitAckStep ==
    ASSUME IInv, TypeOK', NEW w \in Workers, CommitAck(w)
    PROVE  IInv'
<1>0. /\ conn[w] \in Sessions /\ sess[conn[w]] = "committed" /\ WorkerOK(w)
      /\ pend[conn[w]].row = row /\ conn[w] # NoSession /\ pc[w] \in Committing
  BY NoSessionAssumption DEF CommitAck, IInv, TypeOK, WorkerOK, CacheOK
<1>1. /\ row' = row /\ applied' = applied /\ lock' = lock /\ conn' = conn
      /\ skip' = skip /\ at' = at /\ view' = view
      /\ \A q \in Sessions : q # conn[w] => sess'[q] = sess[q] /\ pend'[q] = pend[q]
      /\ sess'[conn[w]] = "idle"
      /\ \A v \in Workers : v # w => pc'[v] = pc[v] /\ cache'[v] = cache[v] /\ obs'[v] = obs[v]
      /\ pc'[w] = AfterCommit(pc[w]) /\ cache'[w] = row /\ obs'[w] = {}
  BY <1>0 DEF CommitAck, Goto, db, stream, IInv, TypeOK
<1>2. SinkOK'
  <2>1. LockOwner' /\ NoSharedSession' /\ ExactlyOnce' /\ CheckpointOK(row)'
    BY <1>0, <1>1 DEF IInv, SinkOK, LockOwner, NoSharedSession, ExactlyOnce, CheckpointOK, LiveStates
  <2>2. \A q \in Sessions : (sess[q] = "pending" => PendOK(q))'
    BY <1>1 DEF IInv, SinkOK, PendOK, CheckpointOK
  <2> QED
    BY <2>1, <2>2 DEF SinkOK
<1>3. ASSUME NEW v \in Workers, v # w PROVE WorkerOK(v)'
  <2>1. conn[v] # NoSession =>
          sess'[conn[v]] = sess[conn[v]] /\ pend'[conn[v]] = pend[conn[v]]
    BY <1>1, <1>3 DEF IInv, SinkOK, NoSharedSession, TypeOK
  <2> QED
    BY <1>1, <1>3, <2>1, WorkerFrame DEF IInv
<1>4. WorkerOK(w)'
  <2>1. ConnOK(w)'
    BY <1>0, <1>1 DEF ConnOK, AfterCommit, Committing, Detached, Ended
  <2>2. CacheOK(w)'
    <3>1. row.pos \in Nat /\ CheckpointOK(row)
      BY LastTxAssumption DEF IInv, SinkOK, TypeOK, Checkpoint, Cursor
    <3> QED
      BY <1>0, <1>1, <3>1 DEF CacheOK, CheckpointOK
  <2>3. SnapshotOK(w)'
    BY <1>0, <1>1 DEF WorkerOK, SnapshotOK, AfterCommit, Committing
  <2>4. StreamOK(w)'
    <3>1. at[w] \in Nat
      BY LastTxAssumption DEF IInv, TypeOK, Cursor
    <3> QED
      BY <1>0, <1>1, <3>1 DEF WorkerOK, StreamOK, AfterCommit, Committing, InHand, Streaming
  <2> QED
    BY <2>1, <2>2, <2>3, <2>4 DEF WorkerOK
<1> QED
  BY <1>2, <1>3, <1>4 DEF IInv

(* A task that was never started satisfies the invariant.                  *)
LEMMA InitInv == Init => IInv
<1> SUFFICES ASSUME Init PROVE IInv
  OBVIOUS
<1>0. 0 \in Cursor /\ 0 \in Nat
  BY LastTxAssumption DEF Cursor
<1>1. TypeOK
  <2>1. applied \in [Tx -> Nat]
    BY DEF Init, Prefix
  <2> QED
    BY <1>0, <2>1, CheckpointTypes, MaxRetriesAssumption, MaxFaultsAssumption DEF Init, TypeOK, Ended
<1>2. CheckpointOK(NoCheckpoint)
  BY DEF CheckpointOK, NoCheckpoint
<1>3. SinkOK
  <2>1. ExactlyOnce
    BY DEF Init, ExactlyOnce, Claimed, NoCheckpoint
  <2> QED
    BY <1>2, <2>1 DEF Init, SinkOK, LockOwner, NoSharedSession, LiveStates
<1>4. \A w \in Workers : WorkerOK(w)
  BY <1>0, <1>2 DEF Init, WorkerOK, ConnOK, CacheOK, SnapshotOK, StreamOK, NoCheckpoint,
     Ended, Detached, Committing, InHand, Streaming
<1> QED
  BY <1>1, <1>3, <1>4 DEF IInv

(* Every step keeps the invariant.                                         *)
LEMMA InvStep == IInv /\ [Next]_vars => IInv'
<1> SUFFICES ASSUME IInv, [Next]_vars PROVE IInv'
  OBVIOUS
<1>t. TypeOK'
  <2>1. \A w \in Workers : Applying(w) => at[w] \in Scope
    BY DEF IInv, WorkerOK, StreamOK, Applying, InHand
  <2> QED
    BY <2>1, TypeStep DEF IInv
<1>1. CASE SourceCommit \/ UNCHANGED vars
  <2>1. UNCHANGED <<db, server, conn, pc, cache, obs, skip, at, view>>
    BY <1>1 DEF SourceCommit, vars, stream
  <2>2. SinkOK'
    BY <2>1, SinkFrame
  <2>3. \A w \in Workers : WorkerOK(w)'
    BY <2>1, WorkerFrame DEF IInv, db, server
  <2> QED
    BY <1>t, <2>2, <2>3 DEF IInv
<1>2. ASSUME NEW s \in Sessions, Server(s) \/ SessionKill(s) PROVE IInv'
  BY <1>t, <1>2, ServerCommitStep, SessionStep DEF Server
<1>3. ASSUME NEW w \in Workers, Start(w) \/ StopTask(w) \/ Crash(w) PROVE IInv'
  BY <1>t, <1>3, WorkerLocalStep, EndStep DEF Crash, Ended
<1>4. ASSUME NEW w \in Workers, Step(w) PROVE IInv'
  <2>0. WorkerOK(w)
    BY DEF IInv
  <2>1. CASE StopCheck(w) \/ OpenRefused(w) \/ OpenFails(w)
    BY <1>t, <2>1, EndStep DEF StopCheck, OpenRefused, OpenFails, Ended
  <2>2. CASE SaveFails(w) \/ SnapshotFails(w) \/ StreamFails(w)
    BY <1>t, <2>2, EndStep DEF SaveFails, SnapshotFails, StreamFails, Ended
  <2>3. CASE ApplyBlocked(w) \/ ApplyGivesUp(w)
    BY <1>t, <2>3, EndStep DEF ApplyBlocked, ApplyGivesUp, Ended
  <2>4. ASSUME NEW s \in Sessions, Open(w, s) PROVE IInv'
    <3>1. conn[w] = NoSession
      BY <2>0, <2>4 DEF Open, WorkerOK, ConnOK, Detached
    <3>2. CASE row.phase = "incremental"
      BY <1>t, <2>4, <3>1, <3>2, AcquireStep DEF Open, Running, Detached, Ended, Committing,
         Streaming, InHand
    <3>3. CASE row.phase # "incremental"
      BY <1>t, <2>4, <3>1, <3>3, AcquireStep DEF Open, Running, Detached, Ended, Committing,
         Streaming, InHand
    <3> QED
      BY <3>2, <3>3
  <2>5. ASSUME NEW s \in Sessions, Reopen(w, s) PROVE IInv'
    <3>1. conn[w] = NoSession
      BY <2>0, <2>5 DEF Reopen, WorkerOK, ConnOK, Detached
    <3> QED
      BY <1>t, <2>5, <3>1, AcquireStep DEF Reopen, Running, Detached, Ended, Committing,
         Streaming, InHand
  <2>6. ASSUME NEW s \in Sessions, Resolve(w, s) PROVE IInv'
    <3>1. conn[w] = NoSession
      BY <2>0, <2>6 DEF Resolve, WorkerOK, ConnOK, Detached
    <3>2. CASE Resolution(row, at[w]) = "applied"
      <4>1. at[w] <= row.pos
        <5>1. row.pos \in Nat /\ at[w] \in Nat
          BY LastTxAssumption DEF IInv, TypeOK, Checkpoint, Cursor
        <5>2. row.last = at[w] \/ at[w] \in row.gtids \/ at[w] < row.pos
          BY <3>2 DEF Resolution
        <5> QED
          BY <5>1, <5>2 DEF IInv, SinkOK, CheckpointOK
      <4> QED
        BY <1>t, <2>6, <3>1, <3>2, <4>1, AcquireStep DEF Resolve, Running, Detached, Ended,
           Committing, Streaming, InHand
    <3>3. CASE Resolution(row, at[w]) # "applied"
      BY <1>t, <2>6, <3>1, <3>3, AcquireStep DEF Resolve, Running, Detached, Ended, Committing,
         Streaming, InHand
    <3> QED
      BY <3>2, <3>3
  <2>7. CASE CommitAck(w)
    BY <1>t, <2>7, CommitAckStep
  <2>8. CASE CommitFails(w)
    <3>1. CASE pc[w] = "commit"
      BY <1>t, <2>8, <3>1, DropStep DEF CommitFails
    <3>2. CASE pc[w] # "commit"
      BY <1>t, <2>8, <3>2, EndStep DEF CommitFails, Ended
    <3> QED
      BY <3>1, <3>2
  <2>9. CASE ApplyRetry(w)
    BY <1>t, <2>9, DropStep DEF ApplyRetry
  <2>10. CASE PrepareSnapshot(w) \/ CopySnapshot(w) \/ Apply(w)
    BY <1>t, <2>10, PrepareStep, CopyStep, ApplyStep
  <2>11. CASE Save(w) \/ StartStream(w) \/ ApplySkip(w) \/ \E t \in Tx : Observe(w, t) \/ Read(w, t)
    BY <1>t, <2>11, WorkerLocalStep
  <2> QED
    BY <1>4, <2>1, <2>2, <2>3, <2>4, <2>5, <2>6, <2>7, <2>8, <2>9, <2>10, <2>11 DEF Step
<1> QED
  BY <1>1, <1>2, <1>3, <1>4 DEF Next

-------------------------------------------------------------------------------
(* The theorems.                                                           *)

LEMMA Inductive == Spec => []IInv
BY InitInv, InvStep, PTL DEF Spec

(* Every variable of the task, its writers and the sink keeps its type.    *)
THEOREM TypeCorrect == Spec => []TypeOK
<1>1. IInv => TypeOK
  BY DEF IInv
<1> QED
  BY <1>1, Inductive, PTL

(* The sink tables hold each scoped transaction up to the cursor exactly   *)
(* once, for any number of faults, workers and sessions.                   *)
THEOREM ExactlyOnceHolds == Spec => []ExactlyOnce
<1>1. IInv => ExactlyOnce
  BY DEF IInv, SinkOK
<1> QED
  BY <1>1, Inductive, PTL

(* What a resumed stream may leave out is in the sink.                     *)
THEOREM ResumeSafeHolds == Spec => []ResumeSafe
<1>1. IInv => ResumeSafe
  <2> SUFFICES ASSUME IInv, row.phase = "incremental"
               PROVE StartSet(row) \cap Scope = {t \in Scope : t <= row.pos}
    BY DEF ResumeSafe
  <2>1. CheckpointOK(row) /\ row.pos \in Nat
    BY LastTxAssumption DEF IInv, SinkOK, TypeOK, Checkpoint, Cursor
  <2>2. \A t \in Scope : t \in Nat /\ 1 <= t
    BY LastTxAssumption, ScopeAssumption
  <2>3. \A t \in Scope : t \in StartSet(row) <=> t <= row.pos
    BY <2>1, <2>2, GtidModeAssumption DEF CheckpointOK, StartSet
  <2> QED
    BY <2>3
<1> QED
  BY <1>1, Inductive, PTL

(* A writer whose session lives has the committed row in its cache.        *)
THEOREM OwnerKnowsRowHolds == Spec => []OwnerKnowsRow
<1>1. IInv => OwnerKnowsRow
  BY DEF IInv, WorkerOK, CacheOK, OwnerKnowsRow, Live
<1> QED
  BY <1>1, Inductive, PTL

(* The sink changes only by a COMMIT of the lock's owner.                  *)
LEMMA SinkChange ==
    ASSUME IInv, [Next]_vars
    PROVE  \/ row' = row /\ applied' = applied
           \/ \E s \in Sessions : ServerCommit(s) /\ PendOK(s) /\ pend[s].row \in Checkpoint
<1>1. CASE SourceCommit \/ UNCHANGED vars
  BY <1>1 DEF SourceCommit, vars, db
<1>2. ASSUME NEW s \in Sessions, ServerAbort(s) \/ SessionEnd(s) \/ SessionKill(s)
      PROVE row' = row /\ applied' = applied
  BY <1>2 DEF ServerAbort, SessionEnd, SessionKill, db
<1>3. ASSUME NEW s \in Sessions, ServerCommit(s)
      PROVE PendOK(s) /\ pend[s].row \in Checkpoint
  BY <1>3 DEF ServerCommit, IInv, SinkOK, TypeOK, Pending
<1>4. ASSUME NEW w \in Workers, Start(w) \/ StopTask(w) \/ Crash(w)
      PROVE row' = row /\ applied' = applied
  BY <1>4 DEF Start, StopTask, Crash, End, db
<1>5. ASSUME NEW w \in Workers, Step(w) PROVE row' = row /\ applied' = applied
  <2>1. CASE StopCheck(w) \/ OpenRefused(w) \/ OpenFails(w) \/ CommitAck(w) \/ CommitFails(w)
    BY <2>1 DEF StopCheck, OpenRefused, OpenFails, CommitAck, CommitFails, End, db
  <2>2. ASSUME NEW s \in Sessions, Open(w, s) \/ Reopen(w, s) \/ Resolve(w, s)
        PROVE row' = row /\ applied' = applied
    BY <2>2 DEF Open, Reopen, Resolve, Acquire, db
  <2>3. CASE Save(w) \/ SaveFails(w) \/ PrepareSnapshot(w) \/ CopySnapshot(w) \/ SnapshotFails(w)
    BY <2>3 DEF Save, SaveFails, PrepareSnapshot, CopySnapshot, SnapshotFails, End, db
  <2>4. ASSUME NEW t \in Tx, Observe(w, t) \/ Read(w, t) PROVE row' = row /\ applied' = applied
    BY <2>4 DEF Observe, Read, db
  <2>5. CASE \/ StartStream(w) \/ StreamFails(w) \/ Apply(w) \/ ApplySkip(w)
             \/ ApplyBlocked(w) \/ ApplyRetry(w) \/ ApplyGivesUp(w)
    BY <2>5 DEF StartStream, StreamFails, Apply, ApplySkip, ApplyBlocked, ApplyRetry, ApplyGivesUp,
       End, db
  <2> QED
    BY <1>5, <2>1, <2>2, <2>3, <2>4, <2>5 DEF Step
<1> QED
  BY <1>1, <1>2, <1>3, <1>4, <1>5 DEF Next, Server

(* The committed cursor and GTID set never go back.                        *)
THEOREM CursorOnlyAdvancesHolds == Spec => CursorOnlyAdvances
<1> DEFINE Forward == row.phase = "incremental" =>
                        /\ row'.phase = "incremental"
                        /\ row.pos <= row'.pos
                        /\ row.gtids \subseteq row'.gtids
<1>1. IInv /\ [Next]_vars => [Forward]_row
  <2> SUFFICES ASSUME IInv, [Next]_vars, row' # row PROVE Forward
    OBVIOUS
  <2>1. PICK s \in Sessions : ServerCommit(s) /\ PendOK(s) /\ pend[s].row \in Checkpoint
    BY SinkChange
  <2>2. row' = pend[s].row
    BY <2>1 DEF ServerCommit
  <2>3. row.pos \in Nat /\ row'.pos \in Nat
    BY <2>1, <2>2, LastTxAssumption DEF IInv, TypeOK, Checkpoint, Cursor
  <2> QED
    BY <2>1, <2>2, <2>3 DEF PendOK
<1> QED
  BY <1>1, Inductive, PTL DEF Spec, CursorOnlyAdvances

(* The task implements ExactlyOnceApply: the sink tables go from empty to  *)
(* one source state, and then from one scoped transaction to the next.     *)
THEOREM Refinement == Spec => KeepsPromise
<1>p. \A n : Promise!Prefix(n) = Prefix(n)
  BY DEF Promise!Prefix, Prefix, Tx
<1>1. Init => Promise!Init
  BY <1>p DEF Init, Promise!Init, NoCheckpoint
<1>2. IInv /\ IInv' /\ [Next]_vars => [Promise!Next]_(Promise!vars)
  <2> SUFFICES ASSUME IInv, IInv', [Next]_vars PROVE [Promise!Next]_(Promise!vars)
    OBVIOUS
  <2>1. CASE row' = row /\ applied' = applied
    BY <2>1 DEF Promise!vars
  <2>2. ASSUME NEW s \in Sessions, ServerCommit(s), PendOK(s), pend[s].row \in Checkpoint
        PROVE [Promise!Next]_(Promise!vars)
    <3>1. row' = pend[s].row /\ applied = Claimed(row) /\ applied' = Claimed(row')
      BY <2>2 DEF ServerCommit, IInv, SinkOK, ExactlyOnce, Claimed
    <3>2. CASE row.phase # "incremental" /\ row'.phase # "incremental"
      <4>1. applied' = applied
        BY <3>1, <3>2 DEF Claimed
      <4> QED
        BY <3>2, <4>1 DEF Promise!vars
    <3>3. CASE row.phase # "incremental" /\ row'.phase = "incremental"
      <4>1. row'.pos \in 0..LastTx /\ applied' = Promise!Prefix(row'.pos)
        BY <1>p, <2>2, <3>1, <3>3 DEF Claimed, Checkpoint, Cursor
      <4> QED
        BY <3>3, <4>1 DEF Promise!Next, Promise!Copy
    <3>4. CASE row.phase = "incremental"
      <4>1. /\ row'.phase = "incremental" /\ row'.pos \in Scope /\ row.pos < row'.pos
            /\ \A u \in Scope : u < row'.pos => u <= row.pos
        BY <2>2, <3>1, <3>4 DEF PendOK
      <4>2. row.pos \in Nat /\ row'.pos \in Nat /\ \A u \in Tx : u \in Nat
        <5>1. row \in Checkpoint /\ row' \in Checkpoint
          BY <2>2, <3>1 DEF IInv, TypeOK
        <5>2. \A cp \in Checkpoint : cp.pos \in Nat
          BY LastTxAssumption DEF Checkpoint, Cursor
        <5> QED
          BY <5>1, <5>2, LastTxAssumption DEF Tx
      <4>3. \A u \in Tx : u \in Scope => (u <= row.pos <=> u <= row'.pos - 1)
        BY <4>1, <4>2
      <4>4. Prefix(row.pos) = Prefix(row'.pos - 1)
        BY <4>3 DEF Prefix
      <4>5. applied = Promise!Prefix(row'.pos - 1) /\ applied' = Promise!Prefix(row'.pos)
        BY <1>p, <3>1, <3>4, <4>1, <4>4 DEF Claimed
      <4> QED
        BY <3>4, <4>1, <4>5 DEF Promise!Next, Promise!ApplyNext
    <3> QED
      BY <3>2, <3>3, <3>4
  <2> QED
    BY <2>1, <2>2, SinkChange
<1> QED
  BY <1>1, <1>2, Inductive, PTL DEF Spec, KeepsPromise, Promise!Spec

-------------------------------------------------------------------------------
(* The SQLite mirror.                                                      *)

(* A checkpoint that was read from the row, or written to it, is not ahead *)
(* of it, nor of the source.                                               *)
Behind(cp) == cp.phase # "none" => row.phase # "none" /\ cp.rev <= row.rev /\ cp.pos <= src

(* A COMMIT on its way does not set the row back.                          *)
SendsForward(s) ==
    /\ pend[s].row.phase # "none"
    /\ pend[s].row.pos <= src
    /\ row.phase # "none" => row.rev <= pend[s].row.rev

(* Nothing the task remembers is ahead of the row: neither the mirror nor  *)
(* the cached checkpoint of a writer whose session is dead.                *)
ProgressOK ==
    /\ row.pos <= src
    /\ Behind(mirror)
    /\ \A w \in Workers : Behind(cache[w]) /\ at[w] <= src /\ view[w] <= src
    /\ \A s \in Sessions : sess[s] = "pending" => SendsForward(s)

(* A step that leaves the row and the COMMITs on their way alone.          *)
LEMMA ProgressFrame ==
    ASSUME IInv, ProgressOK, row' = row, src' = src, Behind(mirror)',
           \A v \in Workers : cache'[v] \in {cache[v], row, NoCheckpoint},
           \A v \in Workers : at'[v] <= src /\ view'[v] <= src,
           \A s \in Sessions : sess'[s] = "pending" => sess[s] = "pending" /\ pend'[s] = pend[s]
    PROVE  ProgressOK'
<1>1. row.pos \in Nat /\ src \in Nat /\ row.rev \in Nat
  BY LastTxAssumption DEF IInv, TypeOK, Checkpoint, Cursor
<1>2. ASSUME NEW v \in Workers PROVE Behind(cache[v])'
  BY <1>1 DEF ProgressOK, Behind, NoCheckpoint
<1>3. \A s \in Sessions : (sess[s] = "pending" => SendsForward(s))'
  BY DEF ProgressOK, SendsForward
<1> QED
  BY <1>2, <1>3 DEF ProgressOK

(* Sending a COMMIT of a row that is not behind the present one.           *)
LEMMA ProgressSend ==
    ASSUME IInv, ProgressOK, NEW w \in Workers, NEW r \in Checkpoint, NEW e \in SUBSET Tx,
           SendCommit(w, r, e), r.phase # "none", r.pos <= src,
           row.phase # "none" => row.rev <= r.rev,
           \A v \in Workers : view'[v] <= src,
           UNCHANGED <<src, db, mirror, cache, at>>
    PROVE  ProgressOK'
<1>1. conn[w] \in Sessions
  BY DEF SendCommit, Live, IInv, TypeOK
<1>2. \A s \in Sessions : IF s = conn[w] THEN pend'[s].row = r
                                         ELSE sess'[s] = sess[s] /\ pend'[s] = pend[s]
  BY <1>1 DEF SendCommit, IInv, TypeOK
<1>3. row' = row /\ src' = src /\ mirror' = mirror /\ cache' = cache /\ at' = at
  BY DEF db
<1>4. \A s \in Sessions : (sess[s] = "pending" => SendsForward(s))'
  BY <1>2, <1>3 DEF ProgressOK, SendsForward
<1> QED
  BY <1>3, <1>4 DEF ProgressOK, Behind

LEMMA ProgressStep == IInv /\ ProgressOK /\ [Next]_vars => ProgressOK'
<1> SUFFICES ASSUME IInv, ProgressOK, [Next]_vars PROVE ProgressOK'
  OBVIOUS
<1>0. /\ TypeOK /\ row.pos \in Nat /\ src \in Nat /\ row.rev \in Nat
      /\ \A w \in Workers : at[w] <= src /\ view[w] <= src /\ 0 <= src /\ Behind(cache[w])
      /\ Behind(mirror)
  BY LastTxAssumption DEF IInv, TypeOK, Checkpoint, Cursor, ProgressOK
<1>e. ASSUME NEW w \in Workers, NEW o \in Ended, End(w, o) PROVE ProgressOK'
  <2>1. \A s \in Sessions : sess'[s] = "pending" => sess[s] = "pending"
    BY <1>0, <1>e DEF End, Released, TypeOK
  <2>2. \A v \in Workers : /\ cache'[v] \in {cache[v], NoCheckpoint}
                           /\ at'[v] <= src /\ view'[v] <= src
    BY <1>0, <1>e DEF End, TypeOK
  <2>3. row' = row /\ src' = src /\ mirror' = mirror /\ pend' = pend
    BY <1>e DEF End, db
  <2> QED
    BY <1>0, <2>1, <2>2, <2>3, ProgressFrame DEF Behind
<1>1. CASE SourceCommit
  <2>1. /\ src' = src + 1 /\ row' = row /\ mirror' = mirror /\ cache' = cache /\ at' = at
        /\ view' = view /\ sess' = sess /\ pend' = pend
    BY <1>1 DEF SourceCommit, db, server, stream
  <2>2. mirror.pos \in Nat /\ \A w \in Workers : cache[w].pos \in Nat /\ at[w] \in Nat /\ view[w] \in Nat
    BY <1>0, LastTxAssumption DEF TypeOK, Checkpoint, Cursor
  <2>3. \A s \in Sessions : pend[s].row.pos \in Nat
    BY <1>0, LastTxAssumption DEF TypeOK, Pending, Checkpoint, Cursor
  <2> QED
    BY <1>0, <2>1, <2>2, <2>3 DEF ProgressOK, Behind, SendsForward
<1>2. ASSUME NEW s \in Sessions, ServerCommit(s) PROVE ProgressOK'
  <2>1. /\ SendsForward(s) /\ row' = pend[s].row /\ pend[s].row \in Checkpoint
        /\ UNCHANGED <<src, mirror, cache, at, view>>
    BY <1>0, <1>2 DEF ServerCommit, ProgressOK, TypeOK, Pending, stream
  <2>2. \A q \in Sessions : sess'[q] # "pending"
    BY <1>0, <1>2 DEF ServerCommit, TypeOK, IInv, SinkOK, LockOwner, LiveStates
  <2>3. row'.rev \in Nat /\ mirror.rev \in Nat /\ \A w \in Workers : cache[w].rev \in Nat
    BY <1>0, <2>1 DEF TypeOK, Checkpoint
  <2> QED
    BY <1>0, <2>1, <2>2, <2>3 DEF ProgressOK, Behind, SendsForward
<1>3. ASSUME NEW s \in Sessions, ServerAbort(s) \/ SessionEnd(s) \/ SessionKill(s) PROVE ProgressOK'
  <2>1. UNCHANGED <<src, row, mirror, cache, at, view>>
    BY <1>3 DEF ServerAbort, SessionEnd, SessionKill, db, stream
  <2>2. \A q \in Sessions : sess'[q] = "pending" => sess[q] = "pending" /\ pend'[q] = pend[q]
    BY <1>0, <1>3 DEF ServerAbort, SessionEnd, SessionKill, TypeOK
  <2> QED
    BY <1>0, <2>1, <2>2, ProgressFrame DEF Behind
<1>4. ASSUME NEW w \in Workers, Start(w) \/ StopTask(w) PROVE ProgressOK'
  <2>1. UNCHANGED <<src, row, mirror, cache, at, view, sess, pend>>
    BY <1>4 DEF Start, StopTask, db, server, stream
  <2> QED
    BY <1>0, <2>1, ProgressFrame DEF Behind
<1>5. ASSUME NEW w \in Workers, Crash(w) PROVE ProgressOK'
  BY <1>5, <1>e DEF Crash, Ended
<1>6. ASSUME NEW w \in Workers, Step(w) PROVE ProgressOK'
  <2>1. CASE StopCheck(w) \/ OpenRefused(w) \/ OpenFails(w)
    BY <2>1, <1>e DEF StopCheck, OpenRefused, OpenFails, Ended
  <2>2. CASE SaveFails(w) \/ SnapshotFails(w) \/ StreamFails(w)
    BY <2>2, <1>e DEF SaveFails, SnapshotFails, StreamFails, Ended
  <2>3. CASE ApplyBlocked(w) \/ ApplyGivesUp(w)
    BY <2>3, <1>e DEF ApplyBlocked, ApplyGivesUp, Ended
  <2>4. ASSUME NEW s \in Sessions, Open(w, s) \/ Reopen(w, s) \/ Resolve(w, s) PROVE ProgressOK'
    <3>1. UNCHANGED <<src, row, mirror, at, view, pend>> /\ Acquire(w, s)
      BY <2>4 DEF Open, Reopen, Resolve, Acquire, db, stream
    <3>2. /\ \A q \in Sessions : sess'[q] = "pending" => sess[q] = "pending"
          /\ \A v \in Workers : cache'[v] \in {cache[v], row}
      BY <1>0, <3>1 DEF Acquire, TypeOK
    <3> QED
      BY <1>0, <3>1, <3>2, ProgressFrame DEF Behind
  <2>5. CASE CommitAck(w)
    <3>1. UNCHANGED <<src, row, mirror, at, view>>
      BY <2>5 DEF CommitAck, db, stream
    <3>2. conn[w] \in Sessions /\ pend[conn[w]].row = row
      BY <1>0, <2>5 DEF CommitAck, TypeOK, IInv, WorkerOK, CacheOK
    <3>3. /\ \A q \in Sessions : sess'[q] = "pending" => sess[q] = "pending" /\ pend'[q] = pend[q]
          /\ \A v \in Workers : cache'[v] \in {cache[v], row}
      BY <1>0, <2>5, <3>2 DEF CommitAck, TypeOK
    <3> QED
      BY <1>0, <3>1, <3>3, ProgressFrame DEF Behind
  <2>6. CASE CommitFails(w) \/ ApplyRetry(w)
    <3>1. CASE pc[w] \in {"commit", "apply"}
      <4>1. UNCHANGED <<src, row, mirror, cache, at, view, pend>> /\ sess' = Released(conn[w])
        BY <2>6, <3>1 DEF CommitFails, ApplyRetry, Committing, db, stream
      <4>2. \A q \in Sessions : sess'[q] = "pending" => sess[q] = "pending"
        BY <1>0, <4>1 DEF Released, TypeOK
      <4> QED
        BY <1>0, <4>1, <4>2, ProgressFrame DEF Behind
    <3>2. CASE pc[w] \notin {"commit", "apply"}
      BY <2>6, <3>2, <1>e DEF CommitFails, ApplyRetry, Ended
    <3> QED
      BY <3>1, <3>2
  <2>7. CASE Save(w) \/ StartStream(w)
    <3>1. UNCHANGED <<src, row, cache, view, sess, pend>> /\ mirror' = cache[w]
      BY <2>7 DEF Save, StartStream, db, server, stream
    <3>2. \A v \in Workers : at'[v] <= src
      BY <1>0, <2>7 DEF Save, StartStream, stream, TypeOK
    <3> QED
      BY <1>0, <3>1, <3>2, ProgressFrame DEF Behind
  <2>8. ASSUME NEW t \in Tx, Observe(w, t) \/ Read(w, t) PROVE ProgressOK'
    <3>1. UNCHANGED <<src, row, mirror, cache, view, sess, pend>>
      BY <2>8 DEF Observe, Read, db, server
    <3>2. \A v \in Workers : at'[v] <= src
      BY <1>0, <2>8 DEF Observe, Read, Next1, ToSend, TypeOK
    <3> QED
      BY <1>0, <3>1, <3>2, ProgressFrame DEF Behind
  <2>9. CASE PrepareSnapshot(w)
    <3>1. /\ SendCommit(w, Prepared(cache[w], src), {}) /\ UNCHANGED <<src, db, mirror, cache, at>>
          /\ row = cache[w]
      BY <2>9 DEF PrepareSnapshot, SendCommit
    <3>2. Prepared(cache[w], src) \in Checkpoint
      BY <1>0, CheckpointTypes DEF TypeOK
    <3>v. \A v \in Workers : view'[v] <= src
      BY <1>0, <2>9 DEF PrepareSnapshot, TypeOK
    <3>3. LET r == Prepared(cache[w], src) IN
          r.phase # "none" /\ r.pos <= src /\ (row.phase # "none" => row.rev <= r.rev)
      BY <1>0, <3>1 DEF Prepared
    <3> QED
      BY <3>1, <3>2, <3>v, <3>3, ProgressSend
  <2>10. CASE CopySnapshot(w)
    <3>1. /\ SendCommit(w, Copied(cache[w]), {t \in Scope : t <= view[w]})
          /\ UNCHANGED <<src, db, mirror, cache, at, view>> /\ row = cache[w]
      BY <2>10 DEF CopySnapshot, SendCommit, stream
    <3>2. Copied(cache[w]) \in Checkpoint /\ {t \in Scope : t <= view[w]} \in SUBSET Tx
      BY <1>0, CheckpointTypes, ScopeAssumption DEF TypeOK, Tx
    <3>3. LET r == Copied(cache[w]) IN
          r.phase # "none" /\ r.pos <= src /\ (row.phase # "none" => row.rev <= r.rev)
      BY <1>0, <3>1 DEF Copied, ProgressOK
    <3> QED
      BY <1>0, <3>1, <3>2, <3>3, ProgressSend
  <2>11. CASE Apply(w)
    <3>1. /\ SendCommit(w, Advanced(row, obs[w], at[w]), {at[w]})
          /\ UNCHANGED <<src, db, mirror, cache, at, view>> /\ row.phase = "incremental"
          /\ at[w] \in Tx
      BY <2>11, ScopeAssumption
         DEF Apply, stream, IInv, WorkerOK, StreamOK, Applying, InHand, Tx
    <3>2. Advanced(row, obs[w], at[w]) \in Checkpoint
      BY <1>0, <3>1, CheckpointTypes DEF TypeOK
    <3>3. LET r == Advanced(row, obs[w], at[w]) IN
          r.phase # "none" /\ r.pos <= src /\ (row.phase # "none" => row.rev <= r.rev)
      BY <1>0, <3>1 DEF Advanced
    <3> QED
      BY <1>0, <3>1, <3>2, <3>3, ProgressSend
  <2>12. CASE ApplySkip(w)
    <3>1. UNCHANGED <<src, row, mirror, cache, at, view, sess, pend>>
      BY <2>12 DEF ApplySkip, db, server, stream
    <3> QED
      BY <1>0, <3>1, ProgressFrame DEF Behind
  <2> QED
    BY <1>6, <2>1, <2>2, <2>3, <2>4, <2>5, <2>6, <2>7, <2>8, <2>9, <2>10, <2>11, <2>12 DEF Step
<1>7. CASE UNCHANGED vars
  <2>1. UNCHANGED <<src, row, mirror, cache, at, view, sess, pend>>
    BY <1>7 DEF vars, db, server, stream
  <2> QED
    BY <1>0, <2>1, ProgressFrame DEF Behind
<1> QED
  BY <1>1, <1>2, <1>3, <1>4, <1>5, <1>6, <1>7 DEF Next, Server

(* The SQLite mirror never shows progress the sink does not have, also     *)
(* when it is written by a worker whose session is long dead               *)
(* (save_checkpoint).                                                      *)
THEOREM MirrorBehindSinkHolds == Spec => []MirrorBehindSink
<1>1. Init => ProgressOK
  BY LastTxAssumption DEF Init, ProgressOK, Behind, NoCheckpoint
<1>2. ProgressOK => MirrorBehindSink
  BY DEF ProgressOK, Behind, MirrorBehindSink
<1> QED
  BY <1>1, <1>2, ProgressStep, Inductive, PTL DEF Spec

-------------------------------------------------------------------------------
(* Ending blocked.                                                         *)

(* As long as nothing has gone wrong no session was rolled back or killed, *)
(* and no worker is on one of the ways of recovery.                        *)
Undisturbed ==
    faults = 0 =>
        /\ \A s \in Sessions : sess[s] \notin {"aborted", "dead"}
        /\ \A w \in Workers : pc[w] \notin {"blocked", "backoff", "resolve", "replay", "recommit"}

(* apply_inner has no cause to refuse a transaction: the row is the one    *)
(* the writer knows, it covers all in scope up to its cursor, and what was *)
(* observed lies before the transaction.                                   *)
LEMMA NeverRefused ==
    ASSUME IInv, NEW w \in Workers, Applying(w)
    PROVE  ~Refused(w)
<1>1. /\ Live(w) => row = cache[w]
      /\ CheckpointOK(row) /\ at[w] \in Scope
      /\ \A f \in obs[w] : f <= at[w]
  BY DEF IInv, SinkOK, WorkerOK, CacheOK, StreamOK, Live, Applying, InHand
<1>2. ~HistoryDisagrees(row, at[w])
  <2>1. row.phase = "incremental"
    BY DEF IInv, WorkerOK, StreamOK, Applying, InHand, Streaming
  <2> QED
    BY <1>1, <2>1 DEF HistoryDisagrees, CheckpointOK
<1>3. ~AheadOfCursor(obs[w], at[w])
  <2>1. at[w] \in Nat /\ \A f \in obs[w] : f \in Nat
    BY LastTxAssumption DEF IInv, TypeOK, Cursor, Tx
  <2> QED
    BY <1>1, <2>1 DEF AheadOfCursor
<1> QED
  BY <1>1, <1>2, <1>3 DEF Refused

LEMMA UndisturbedStep == IInv /\ Undisturbed /\ [Next]_vars => Undisturbed'
<1> SUFFICES ASSUME IInv, Undisturbed, [Next]_vars, faults' = 0
             PROVE  /\ \A s \in Sessions : sess'[s] \notin {"aborted", "dead"}
                    /\ \A w \in Workers :
                          pc'[w] \notin {"blocked", "backoff", "resolve", "replay", "recommit"}
  BY DEF Undisturbed
<1> DEFINE Quiet == /\ \A s \in Sessions : sess[s] \notin {"aborted", "dead"}
                    /\ \A w \in Workers :
                          pc[w] \notin {"blocked", "backoff", "resolve", "replay", "recommit"}
<1>0. TypeOK /\ ~Fault
  BY DEF IInv, TypeOK, Fault
<1>1. ASSUME NoFault PROVE Quiet
  BY <1>1 DEF NoFault, Undisturbed
<1>e. ASSUME NEW w \in Workers, NEW o \in {"stopped", "failed"}, End(w, o), NoFault PROVE Quiet'
  BY <1>0, <1>1, <1>e DEF End, Goto, Released, TypeOK
<1>2. CASE SourceCommit \/ UNCHANGED vars
  BY <1>1, <1>2 DEF SourceCommit, vars, server, NoFault
<1>3. ASSUME NEW s \in Sessions, Server(s) \/ SessionKill(s) PROVE Quiet'
  BY <1>0, <1>1, <1>3 DEF Server, ServerCommit, ServerAbort, SessionEnd, SessionKill, NoFault, TypeOK
<1>4. ASSUME NEW w \in Workers, Start(w) \/ StopTask(w) \/ Crash(w) PROVE Quiet'
  BY <1>0, <1>1, <1>4 DEF Start, StopTask, Crash, Goto, server, NoFault, TypeOK
<1>5. ASSUME NEW w \in Workers, Step(w) PROVE Quiet'
  <2>1. CASE \/ StopCheck(w) \/ OpenFails(w) \/ SaveFails(w) \/ SnapshotFails(w) \/ StreamFails(w)
    BY <1>0, <1>e, <2>1 DEF StopCheck, OpenFails, SaveFails, SnapshotFails, StreamFails
  <2>2. CASE OpenRefused(w)
    <3>1. NoFault
      BY <2>2 DEF OpenRefused
    <3>2. pc[w] = "open"
      BY <1>1, <2>2, <3>1 DEF OpenRefused
    <3> QED
      BY <1>e, <2>2, <3>1, <3>2 DEF OpenRefused
  <2>3. ASSUME NEW s \in Sessions, Open(w, s) PROVE Quiet'
    BY <1>0, <1>1, <2>3 DEF Open, Acquire, Goto, TypeOK
  <2>4. ASSUME NEW s \in Sessions, Reopen(w, s) \/ Resolve(w, s) PROVE Quiet'
    BY <1>1, <2>4 DEF Reopen, Resolve
  <2>5. CASE CommitAck(w)
    BY <1>0, <1>1, <2>5 DEF CommitAck, AfterCommit, Goto, TypeOK
  <2>6. CASE CommitFails(w)
    <3>1. NoFault /\ sess[conn[w]] \in {"aborted", "dead"}
      BY <1>0, <2>6 DEF CommitFails
    <3>2. conn[w] \in Sessions
      BY <1>0, <2>6 DEF CommitFails, IInv, WorkerOK, ConnOK, Committing, Detached, Ended, TypeOK
    <3> QED
      BY <1>1, <3>1, <3>2
  <2>7. CASE Save(w) \/ StartStream(w)
    BY <1>0, <1>1, <2>7 DEF Save, StartStream, AfterSave, Goto, server, TypeOK
  <2>8. CASE PrepareSnapshot(w) \/ CopySnapshot(w)
    BY <1>0, <1>1, <2>8 DEF PrepareSnapshot, CopySnapshot, SendCommit, Goto, TypeOK
  <2>9. ASSUME NEW t \in Tx, Observe(w, t) \/ Read(w, t) PROVE Quiet'
    BY <1>0, <1>1, <2>9 DEF Observe, Read, Goto, server, TypeOK
  <2>10. CASE Apply(w)
    <3>1. NoFault
      BY <2>10 DEF Apply, SendCommit
    <3>2. pc[w] = "apply"
      BY <1>1, <2>10, <3>1 DEF Apply, Applying
    <3> QED
      BY <1>0, <1>1, <2>10, <3>1, <3>2 DEF Apply, SendCommit, Goto, TypeOK
  <2>11. CASE ApplySkip(w)
    BY <1>0, <1>1, <2>11 DEF ApplySkip, Goto, server, TypeOK
  <2>12. CASE ApplyBlocked(w)
    BY <1>0, <2>12, NeverRefused DEF ApplyBlocked
  <2>13. CASE ApplyRetry(w) \/ ApplyGivesUp(w)
    <3>1. NoFault /\ Broken(w)
      BY <1>0, <2>13 DEF ApplyRetry, ApplyGivesUp, Retryable
    <3> QED
      BY <1>0, <1>1, <3>1 DEF Broken, TypeOK
  <2> QED
    BY <1>5, <2>1, <2>2, <2>3, <2>4, <2>5, <2>6, <2>7, <2>8, <2>9, <2>10, <2>11, <2>12, <2>13 DEF Step
<1> QED
  BY <1>2, <1>3, <1>4, <1>5 DEF Next

(* A task ends blocked, and waits for an operator, only after a fault: the *)
(* refusals of apply_inner and of open are no false alarms.                *)
THEOREM NoSpuriousBlockHolds == Spec => []NoSpuriousBlock
<1>1. Init => Undisturbed
  BY DEF Init, Undisturbed
<1>2. IInv /\ Undisturbed => NoSpuriousBlock
  BY MaxFaultsAssumption DEF IInv, TypeOK, Undisturbed, NoSpuriousBlock
<1> QED
  BY <1>1, <1>2, UndisturbedStep, Inductive, PTL DEF Spec
===============================================================================
