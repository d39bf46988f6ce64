--------------------------- MODULE CheckpointWriter ---------------------------
(***************************************************************************)
(* The row a replication task keeps in the sink's CDC.log_info table and   *)
(* the decisions CheckpointWriter takes from it (crates/mysql_8_0/src/     *)
(* checkpoint.rs; the 5.7, 8.4 and PostgreSQL writers have the same code). *)
(*                                                                         *)
(* Source transactions are numbered 1, 2, ... in commit order: the number  *)
(* of a transaction stands for its commit cursor (binlog file and offset,  *)
(* or LSN) and, in GTID mode, for its GTID.  Position 0 is the start of    *)
(* the log.  Row contents, task identity and binding are left out: they    *)
(* are the same in every run of one task.                                  *)
(***************************************************************************)
EXTENDS Integers

CONSTANTS
    LastTx,     \* the source commits at most this many transactions
    Scope,      \* the transactions whose projection on the task is not empty
    GtidMode    \* TRUE: checkpoint mode "gtid"; FALSE: "binlog"

ASSUME LastTxAssumption == LastTx \in Nat
ASSUME ScopeAssumption == Scope \subseteq 1..LastTx
ASSUME GtidModeAssumption == GtidMode \in BOOLEAN

Tx == 1..LastTx
Cursor == 0..LastTx

Checkpoint == [phase: {"none", "snapshot", "incremental"}, pos: Cursor,
               gtids: SUBSET Tx, last: Cursor, rev: Nat]

(* load() of a task that has no row.                                       *)
NoCheckpoint == [phase |-> "none", pos |-> 0, gtids |-> {}, last |-> 0, rev |-> 0]

(* What the source may leave out of a stream that resumes from cp: a GTID  *)
(* dump skips exactly the given set, a position dump all up to the offset. *)
StartSet(cp) == IF GtidMode THEN cp.gtids ELSE 1..cp.pos
(* Faulty variant: nothing is recognised as already applied.               *)
NeverSkipped(cp, t) == FALSE

(* apply_inner: the transaction is skipped because it is already in the    *)
(* checkpoint.                                                             *)
AlreadyApplied(cp, t) == IF GtidMode THEN t \in cp.gtids ELSE t <= cp.pos

(* apply_inner: "GTID and binlog history disagree".                        *)
HistoryDisagrees(cp, t) == GtidMode /\ t \notin cp.gtids /\ t <= cp.pos
(* Faulty variant: the comparison is the wrong way round.                  *)
BehindCursor(o, t) == \E f \in o : f < t

(* apply_inner: "cannot commit ahead-of-cursor GTID observations".         *)
AheadOfCursor(o, t) == \E f \in o : t < f
(* Faulty variant: the transaction's own GTID is not added to the set.     *)
AdvancedWithoutOwn(cp, o, t) ==
    [phase |-> cp.phase, pos |-> t, gtids |-> IF GtidMode THEN cp.gtids \cup o ELSE cp.gtids,
     last |-> t, rev |-> cp.rev + 1]

(* apply_inner: the row after transaction t, with the filtered             *)
(* transactions o observed since the last commit.                          *)
Advanced(cp, o, t) ==
    [phase |-> cp.phase, pos |-> t,
     gtids |-> IF GtidMode THEN cp.gtids \cup o \cup {t} ELSE cp.gtids,
     last |-> t, rev |-> cp.rev + 1]

(* prepare_snapshot: the marker row of a snapshot at boundary b, inserted  *)
(* or, when an earlier snapshot did not finish, updated.                   *)
Prepared(cp, b) ==
    [phase |-> "snapshot", pos |-> b, gtids |-> IF GtidMode THEN 1..b ELSE {},
     last |-> cp.last, rev |-> IF cp.phase = "none" THEN 0 ELSE cp.rev + 1]

(* copy_snapshot: the marker becomes an incremental checkpoint.            *)
Copied(cp) ==
    [phase |-> "incremental", pos |-> cp.pos, gtids |-> cp.gtids, last |-> cp.last,
     rev |-> cp.rev + 1]
(* Faulty variant: an unacknowledged COMMIT is taken for a success.        *)
AlwaysApplied(cp, t) == "applied"

(* resolve_commit_unknown: what the row says of a transaction whose COMMIT *)
(* was not acknowledged.                                                   *)
Resolution(cp, t) ==
    IF cp.last = t \/ (GtidMode /\ t \in cp.gtids) \/ t < cp.pos THEN "applied"
    ELSE IF cp.pos < t THEN "not_applied"
    ELSE "unprovable"

(* The business effects of the first n source transactions: one for each   *)
(* transaction in scope, none for the others.                              *)
Prefix(n) == [t \in Tx |-> IF t \in Scope /\ t <= n THEN 1 ELSE 0]

(* The effects a checkpoint row claims to be in the sink tables.           *)
Claimed(cp) == Prefix(IF cp.phase = "incremental" THEN cp.pos ELSE 0)
===============================================================================
