------------------------- MODULE PostgresSourceProofs -------------------------
(***************************************************************************)
(* A PostgreSQL source: how its stream is opened when a task starts, and   *)
(* what the stream returns once it is open.  The two share no variable;    *)
(* each has its own specification, and the theorems are about the one or   *)
(* the other.                                                              *)
(***************************************************************************)
EXTENDS PostgresStart, PostgresStream, WellFoundedInduction, TLAPS

-------------------------------------------------------------------------------
(***************************************************************************)
(* Proofs about PostgresStart, for every log, scope and number of          *)
(* interruptions.                                                          *)
(*                                                                         *)
(* The three places that remember progress (the slot, the sink's row, the  *)
(* SQLite mirror) are written at different moments, and a start uses them  *)
(* in another order.  StartInv says how far they may be apart at each      *)
(* point of run().                                                         *)
(***************************************************************************)

(* The slot is the oldest of the three: it exists before the row, and the  *)
(* row before the mirror.                                                  *)
PositionsOrdered ==
    /\ row # Unset => SlotExists /\ slot.confirmed <= row
    /\ mirror # Unset => row # Unset /\ slot.confirmed <= mirror

(* What is in the sink is what the row claims.                             *)
SinkMatchesRow ==
    \A t \in Tx :
        applied[t] = IF t \in Scope /\ row # Unset /\ slot.confirmed < t /\ t <= row THEN 1 ELSE 0

Opened == {"sink", "reopen", "init", "save", "stream", "saving"}

(* The mirror as run() read it is still the mirror while it opens the      *)
(* stream.                                                                 *)
SavedIsMirror == pc \in {"preopen", "sink", "reopen"} => saved = mirror

(* An open stream starts where the row is, or, on the first start, where   *)
(* the slot was created.                                                   *)
OpenedAtRow ==
    /\ pc \in Opened => SlotExists /\ openedAt # Unset
    /\ pc \in {"sink", "init", "save"} => at = openedAt
    /\ pc \in {"sink", "init"} /\ row = Unset /\ saved = Unset => openedAt = slot.confirmed
    /\ pc = "reopen" => row # Unset
    /\ pc = "init" => IF row = Unset THEN saved = Unset ELSE openedAt = row
    /\ pc = "save" => row # Unset /\ openedAt = row

(* No scoped transaction lies between the row and what has been read.      *)
NothingPassedOver ==
    pc \in {"stream", "saving"} => row # Unset /\ \A t \in Scope : t <= at => t <= row

StartInv ==
    /\ StartTypeOK /\ PositionsOrdered /\ SinkMatchesRow /\ SavedIsMirror /\ OpenedAtRow
    /\ NothingPassedOver /\ RefusalIsTransient

-------------------------------------------------------------------------------
(* run() can end at any point, as long as a refusal has its reason.        *)
LEMMA EndsStep ==
    ASSUME StartInv, NEW label \in Ended, Ends(label), faults' \in 0..MaxFaults,
           mirror # Unset => label \in {"stopped", "active"}
    PROVE  StartInv'
<1> USE PgLastTxAssumption, PgMaxFaultsAssumption DEF Ends, Dropped
<1>1. StartTypeOK'
  BY DEF StartInv, StartTypeOK, Cursor, Unset, Labels, Ended, Refusals
<1>2. PositionsOrdered' /\ SinkMatchesRow'
  BY DEF StartInv, PositionsOrdered, SinkMatchesRow, SlotExists, Tx
<1>3. SavedIsMirror' /\ OpenedAtRow' /\ NothingPassedOver' /\ RefusalIsTransient'
  BY DEF SavedIsMirror, OpenedAtRow, NothingPassedOver, RefusalIsTransient, Opened, Ended, Refusals
<1> QED
  BY <1>1, <1>2, <1>3 DEF StartInv

LEMMA StepKeepsStartInv == StartInv /\ [StartNext]_startVars => StartInv'
<1> SUFFICES ASSUME StartInv, [StartNext]_startVars PROVE StartInv'
  OBVIOUS
<1> USE PgLastTxAssumption, PgScopeAssumption, PgMaxFaultsAssumption
    DEF StartInv, StartTypeOK, PositionsOrdered, SinkMatchesRow, SavedIsMirror, OpenedAtRow,
        NothingPassedOver, RefusalIsTransient, Opened, SlotExists, Cursor, Unset, Tx, Labels,
        Ended, Refusals
<1>1. CASE SourceCommit
  BY <1>1 DEF SourceCommit
<1>2. CASE SlotRelease
  BY <1>2 DEF SlotRelease
<1>3. CASE Interrupted
  <2>1. "stopped" \in Ended /\ Ends("stopped") /\ faults' \in 0..MaxFaults
    BY <1>3 DEF Interrupted
  <2> QED
    BY <2>1, EndsStep
<1>4. CASE Start
  BY <1>4 DEF Start
<1>5. CASE CreateSlot
  BY <1>5 DEF CreateSlot
<1>6. CASE OpenSlot
  BY <1>6 DEF OpenSlot, Attach
<1>7. CASE Reopen
  BY <1>7 DEF Reopen, Attach
<1>8. CASE OpenRefused
  <2>1. PICK r \in Refusals : /\ \/ pc = "preopen" /\ r = Refusal(saved, saved = Unset)
                                 \/ pc = "reopen" /\ r = Refusal(row, FALSE)
                              /\ Ends(r)
    BY <1>8 DEF OpenRefused
  <2>2. mirror # Unset => r = "active"
    BY <2>1 DEF Refusal
  <2>3. faults' \in 0..MaxFaults
    BY <1>8 DEF OpenRefused
  <2> QED
    BY <2>1, <2>2, <2>3, EndsStep
<1>9. CASE OpenSink
  <2>1. CASE row = Unset /\ saved # Unset
    BY <1>9, <2>1, EndsStep DEF OpenSink
  <2>2. CASE ~(row = Unset /\ saved # Unset)
    <3>1. StartTypeOK' /\ PositionsOrdered' /\ SinkMatchesRow'
      BY <1>9, <2>2 DEF OpenSink, Dropped
    <3>2. SavedIsMirror' /\ NothingPassedOver' /\ RefusalIsTransient'
      BY <1>9, <2>2 DEF OpenSink, Dropped
    <3>3. OpenedAtRow'
      <4>1. CASE row # Unset /\ row # openedAt
        BY <1>9, <2>2, <4>1 DEF OpenSink, Dropped
      <4>2. CASE ~(row # Unset /\ row # openedAt)
        BY <1>9, <2>2, <4>2 DEF OpenSink, Dropped
      <4> QED
        BY <4>1, <4>2
    <3> QED
      BY <3>1, <3>2, <3>3
  <2> QED
    BY <2>1, <2>2
<1>10. CASE Initialize
  BY <1>10 DEF Initialize
<1>11. CASE SaveCheckpoint
  BY <1>11 DEF SaveCheckpoint
<1>12. CASE Consume
  <2>1. StartTypeOK' /\ SavedIsMirror' /\ OpenedAtRow' /\ RefusalIsTransient'
    BY <1>12 DEF Consume
  <2>2. PositionsOrdered'
    BY <1>12 DEF Consume
  <2>3. SinkMatchesRow'
    <3>1. row # Unset /\ \A t \in Scope : t <= at => t <= row
      BY <1>12 DEF Consume
    <3>2. CASE at + 1 \in Scope /\ row < at + 1
      BY <1>12, <3>1, <3>2 DEF Consume
    <3>3. CASE ~(at + 1 \in Scope /\ row < at + 1)
      BY <1>12, <3>3 DEF Consume
    <3> QED
      BY <3>2, <3>3
  <2>4. NothingPassedOver'
    BY <1>12 DEF Consume
  <2> QED
    BY <2>1, <2>2, <2>3, <2>4
<1>13. CASE StandbyStatus
  BY <1>13 DEF StandbyStatus, Flushed
<1>14. CASE UNCHANGED startVars
  BY <1>14 DEF startVars
<1> QED
  BY <1>1, <1>2, <1>3, <1>4, <1>5, <1>6, <1>7, <1>8, <1>9, <1>10, <1>11, <1>12, <1>13, <1>14
     DEF StartNext

LEMMA StartInvariant == StartSpec => []StartInv
<1>1. StartInit => StartInv
  BY PgLastTxAssumption, PgMaxFaultsAssumption
     DEF StartInit, StartInv, StartTypeOK, PositionsOrdered, SinkMatchesRow, SavedIsMirror, OpenedAtRow,
         NothingPassedOver, RefusalIsTransient, Opened, SlotExists, Cursor, Unset, Tx, Labels,
         Ended, Refusals
<1>2. QED
  BY <1>1, StepKeepsStartInv, PTL DEF StartSpec

-------------------------------------------------------------------------------
(* Whatever start is interrupted, repeated or refused, the sink holds each *)
(* scoped transaction after the slot's first position up to its cursor     *)
(* once, and nothing else (open_postgresql_source, run).                   *)
THEOREM NoGapSinceSlotHolds == StartSpec => []NoGapSinceSlot
<1>1. StartInv => NoGapSinceSlot
  BY DEF StartInv, SinkMatchesRow, NoGapSinceSlot
<1>2. QED
  BY <1>1, StartInvariant, PTL

(* A task with a mirrored cursor can always be started again once the      *)
(* server has released its slot (replication_for_version).                 *)
THEOREM RefusalIsTransientHolds == StartSpec => []RefusalIsTransient
<1>1. StartInv => RefusalIsTransient
  BY DEF StartInv
<1>2. QED
  BY <1>1, StartInvariant, PTL

-------------------------------------------------------------------------------
(***************************************************************************)
(* What a replication stream returns and what its slot keeps, for every    *)
(* number of transactions, definitions, streams and rows.                  *)
(*                                                                         *)
(* The argument: what the decoder holds is the part of the walsender's     *)
(* current transaction that it has been sent; a definition the walsender   *)
(* has announced is the one the catalog has; and the consumer asks for the *)
(* next transaction only when it has kept the last, so everything before   *)
(* the walsender's place is kept, and with it everything before any        *)
(* position that is ever acknowledged.                                     *)
(***************************************************************************)

(* Commit records do not overlap and are in order.                         *)
WalOK ==
    /\ \A i \in 1..Len(wal) : wal[i].commit >= 1 /\ wal[i].end = wal[i].commit + 1
    /\ \A i, j \in 1..Len(wal) : i < j => wal[i].end <= wal[j].commit

(* No position is ahead of the log.                                        *)
PositionsOK ==
    /\ 1 <= confirmed /\ confirmed <= LastEnd
    /\ start <= LastEnd
    /\ acked <= LastEnd

(* The walsender is at a transaction that is not before the start.         *)
PlaceOK ==
    /\ server.tx \in 1..Len(wal) + 1
    /\ server.pos > 0 => server.tx <= Len(wal) /\ server.pos <= Len(Body) + 1
    /\ \A i \in 1..Len(wal) : server.tx <= i => start <= wal[i].commit

(* The decoder holds what it has been sent of the current transaction.     *)
PendingOK ==
    /\ server.pos = 0 => pending = NoPending
    /\ server.pos > 0 => /\ pending.commit = wal[server.tx].commit
                         /\ Len(pending.rows) = server.pos - 1
    /\ \A j \in 1..Len(pending.rows) :
          /\ Body[j].kind = "row"
          /\ pending.rows[j].rel = Body[j].rel
          /\ pending.rows[j].ver = Body[j].ver

(* What was announced is what the catalog has.                             *)
ToldOK == \A r \in Relations : server.told[r] \in {0, catalog[r]}

(* The stream has returned what it was sent.                               *)
Due(i) == i < server.tx /\ start <= wal[i].commit /\ WithRows(i)
ReturnOK(k) ==
    LET i == received[k].tx
        rows == received[k].rows
    IN  /\ i \in 1..Len(wal) /\ Due(i)
        /\ received[k].cursor = wal[i].end
        /\ Len(rows) = Len(wal[i].body)
        /\ \A j \in 1..Len(rows) : rows[j].rel = wal[i].body[j].rel
ReturnedOK ==
    /\ \A k \in 1..Len(received) : ReturnOK(k)
    /\ \A j, k \in 1..Len(received) : j < k => received[j].tx < received[k].tx
    /\ \A i \in 1..Len(wal) : Due(i) => \E k \in 1..Len(received) : received[k].tx = i

StreamOK == status = "open" => PlaceOK /\ PendingOK /\ ToldOK /\ ReturnedOK

(* Rows keep the definition they were written with, also when the stream   *)
(* has failed.                                                             *)
RowsOK ==
    \A k \in 1..Len(received) :
        /\ received[k].tx \in 1..Len(wal)
        /\ Len(received[k].rows) <= Len(wal[received[k].tx].body)
        /\ \A j \in 1..Len(received[k].rows) :
              received[k].rows[j].ver = wal[received[k].tx].body[j].ver

(* Everything before transaction n, or up to position lsn, is kept.        *)
KeptBefore(n) == \A i \in 1..Len(wal) : i < n /\ WithRows(i) => i \in kept
KeptUpTo(lsn) == \A i \in 1..Len(wal) : wal[i].end <= lsn /\ WithRows(i) => i \in kept

SlotOK ==
    /\ KeptUpTo(confirmed)
    /\ KeptUpTo(acked)
    /\ \A n \in kept : KeptBefore(n)
    /\ delivered # 0 => KeptBefore(delivered)
    /\ status = "open" =>
          \A i \in 1..Len(wal) : i < server.tx /\ WithRows(i) => i \in kept \/ i = delivered

IInv == TypeOK /\ WalOK /\ PositionsOK /\ StreamOK /\ RowsOK /\ SlotOK

-------------------------------------------------------------------------------
(* The walsender's messages.                                               *)

LEMMA WalShape ==
  ASSUME TypeOK
  PROVE  /\ Len(wal) \in Nat
         /\ \A i \in 1..Len(wal) : /\ wal[i] \in TxShape
                                  /\ wal[i].commit \in Nat
                                  /\ wal[i].end \in Nat
                                  /\ wal[i].body \in Seq(ItemShape)
                                  /\ Len(wal[i].body) \in Nat
<1>1. wal \in Seq(TxShape)
  BY DEF TypeOK
<1>2. Len(wal) \in Nat /\ \A i \in 1..Len(wal) : wal[i] \in TxShape
  BY <1>1
<1>3. \A t \in TxShape : /\ t.commit \in Nat /\ t.end \in Nat
                         /\ t.body \in Seq(ItemShape) /\ Len(t.body) \in Nat
  BY DEF TxShape
<1>4. QED
  BY <1>2, <1>3

LEMMA ServerFields ==
  ASSUME TypeOK
  PROVE  server.tx \in Nat /\ server.pos \in Nat /\ server.told \in [Relations -> 0..MaxVersion]
BY DEF TypeOK, ServerShape

LEMMA PendingFields ==
  ASSUME TypeOK
  PROVE  /\ pending.commit \in Nat /\ pending.bytes \in Nat
         /\ pending.rows \in Seq(RowShape) /\ Len(pending.rows) \in Nat
BY DEF TypeOK, PendingShape

LEMMA BodyShape ==
  ASSUME TypeOK, Sends
  PROVE  /\ wal[server.tx] \in TxShape
         /\ Body \in Seq(ItemShape)
         /\ \A p \in 1..Len(Body) : Body[p] \in ItemShape
<1>1. server.tx \in 1..Len(wal)
  BY DEF Sends
<1>2. QED
  BY <1>1, WalShape DEF Body

LEMMA MessageKinds ==
  ASSUME TypeOK, Sends
  PROVE  /\ Message = "begin" <=> server.pos = 0
         /\ Message = "commit" <=> server.pos > Len(Body)
         /\ Message \in {"relation", "row", "other"} =>
              /\ server.pos \in 1..Len(Body)
              /\ Item \in ItemShape
         /\ Message = "relation" => Item.kind = "row"
         /\ Message = "row" => Item.kind = "row" /\ server.told[Item.rel] = Item.ver
<1>1. server.pos \in Nat /\ Len(Body) \in Nat
  BY BodyShape, ServerFields
<1>2. CASE server.pos = 0
  BY <1>1, <1>2 DEF Message
<1>3. CASE server.pos > Len(Body)
  BY <1>1, <1>3 DEF Message
<1>4. CASE server.pos \in 1..Len(Body)
  <2>1. Item \in ItemShape
    BY <1>4, BodyShape DEF Item
  <2>2. Item.kind \in {"row", "other"}
    BY <2>1 DEF ItemShape
  <2>3. Message = IF Item.kind = "row" /\ server.told[Item.rel] # Item.ver THEN "relation"
                  ELSE Item.kind
    BY <1>1, <1>4 DEF Message
  <2>4. QED
    BY <1>1, <1>4, <2>1, <2>2, <2>3
<1>5. QED
  BY <1>1, <1>2, <1>3, <1>4

LEMMA ConsumedShape ==
  ASSUME TypeOK, Sends, Consumed
  PROVE  server' \in ServerShape
<1>1. server \in ServerShape
  BY DEF TypeOK
<1>2. CASE Message = "commit"
  <2>1. server' = [server EXCEPT !.tx = @ + 1, !.pos = 0]
    BY <1>2 DEF Consumed
  <2>2. server' = [tx |-> server.tx + 1, pos |-> 0, told |-> server.told]
    BY <1>1, <2>1 DEF ServerShape
  <2>3. QED
    BY <2>2, ServerFields DEF ServerShape
<1>3. CASE Message = "relation"
  <2>1. Item.rel \in Relations /\ Item.ver \in 0..MaxVersion
    BY <1>3, MessageKinds DEF ItemShape
  <2>2. server' = [server EXCEPT !.told[Item.rel] = Item.ver]
    BY <1>3 DEF Consumed
  <2>3. QED
    BY <1>1, <2>1, <2>2 DEF ServerShape
<1>4. CASE Message \notin {"commit", "relation"}
  BY <1>1, <1>4 DEF Consumed, ServerShape
<1>5. QED
  BY <1>2, <1>3, <1>4

LEMMA BufferedShape ==
  ASSUME TypeOK, NEW rows \in Seq(RowShape), Buffered(rows)
  PROVE  /\ pending' \in PendingShape
         /\ pending'.commit = pending.commit
         /\ pending'.rows = rows
<1>1. Bytes \in Nat
  BY PendingFields DEF Bytes
<1>2. pending' = [pending EXCEPT !.bytes = Bytes, !.rows = rows]
  BY DEF Buffered
<1>3. pending' = [commit |-> pending.commit, bytes |-> Bytes, rows |-> rows]
  BY <1>2 DEF TypeOK, PendingShape
<1>4. QED
  BY <1>1, <1>3, PendingFields DEF PendingShape

LEMMA BodiesShape ==
  ASSUME version \in [Relations -> 1..MaxVersion]
  PROVE  Bodies \subseteq Seq(ItemShape)
<1>1. \A r \in Relations : Row(r) \in ItemShape
  BY DEF Row, ItemShape
<1>2. \A r \in Relations : [kind |-> "other", rel |-> r, ver |-> version[r]] \in ItemShape
  BY DEF ItemShape
<1>3. <<>> \in Seq(ItemShape)
  OBVIOUS
<1>4. \A x, y, z \in ItemShape :
         <<x>> \in Seq(ItemShape) /\ <<x, y>> \in Seq(ItemShape) /\ <<x, y, z>> \in Seq(ItemShape)
  OBVIOUS
<1>5. ASSUME NEW b \in Bodies PROVE b \in Seq(ItemShape)
  <2>1. CASE b = <<>>
    BY <1>3, <2>1
  <2>2. CASE \E r \in Relations : b = <<Row(r)>>
    BY <1>1, <1>4, <2>2
  <2>3. CASE \E q, r \in Relations : b = <<Row(q), Row(r)>>
    BY <1>1, <1>4, <2>3
  <2>4. CASE \E r \in Relations : b = <<Row(r), Row(r), Row(r)>>
    BY <1>1, <1>4, <2>4
  <2>5. CASE \E r \in Relations : b = <<[kind |-> "other", rel |-> r, ver |-> version[r]]>>
    BY <1>2, <1>4, <2>5
  <2>6. QED
    BY <1>5, <2>1, <2>2, <2>3, <2>4, <2>5 DEF Bodies
<1>6. QED
  BY <1>5

LEMMA LastEndInNat ==
  ASSUME TypeOK
  PROVE  LastEnd \in Nat
<1>1. wal # <<>> => Len(wal) \in 1..Len(wal)
  BY DEF TypeOK
<1>2. QED
  BY <1>1, WalShape DEF LastEnd

LEMMA ConsumedEffect ==
  ASSUME TypeOK, Sends, Consumed
  PROVE  /\ Message = "commit" => /\ server'.tx = server.tx + 1
                                  /\ server'.pos = 0
                                  /\ server'.told = server.told
         /\ Message = "relation" => /\ server'.tx = server.tx
                                    /\ server'.pos = server.pos
                                    /\ server'.told = [server.told EXCEPT ![Item.rel] = Item.ver]
         /\ Message \in {"begin", "row"} => /\ server'.tx = server.tx
                                            /\ server'.pos = server.pos + 1
                                            /\ server'.told = server.told
<1>1. server \in ServerShape
  BY DEF TypeOK
<1>2. CASE Message = "commit"
  <2>1. server' = [server EXCEPT !.tx = @ + 1, !.pos = 0]
    BY <1>2 DEF Consumed
  <2>2. server'.tx = server.tx + 1 /\ server'.pos = 0 /\ server'.told = server.told
    BY <1>1, <2>1 DEF ServerShape
  <2>3. QED
    BY <1>2, <2>2
<1>3. CASE Message = "relation"
  <2>1. server' = [server EXCEPT !.told[Item.rel] = Item.ver]
    BY <1>3 DEF Consumed
  <2>2. /\ server'.tx = server.tx
        /\ server'.pos = server.pos
        /\ server'.told = [server.told EXCEPT ![Item.rel] = Item.ver]
    BY <1>1, <2>1 DEF ServerShape
  <2>3. QED
    BY <1>3, <2>2
<1>4. CASE Message \in {"begin", "row"}
  <2>1. server' = [server EXCEPT !.pos = @ + 1]
    BY <1>4 DEF Consumed
  <2>2. server'.tx = server.tx /\ server'.pos = server.pos + 1 /\ server'.told = server.told
    BY <1>1, <2>1 DEF ServerShape
  <2>3. QED
    BY <1>4, <2>2
<1>5. QED
  BY <1>2, <1>3, <1>4

-------------------------------------------------------------------------------
(* The first transaction from a position.                                  *)

Below == {p \in Nat \X Nat : p[1] < p[2]}

LEMMA LeastExists ==
  ASSUME NEW S \in SUBSET Nat, S # {}
  PROVE  \E m \in S : \A k \in S : m <= k
<1>1. IsWellFoundedOn(Below, Nat)
  BY NatLessThanWellFounded DEF OpToRel, Below
<1>2. PICK m \in S : \A k \in S : ~ (<<k, m>> \in Below)
  BY <1>1, WFMin
<1>3. ASSUME NEW k \in S, k < m PROVE FALSE
  <2>1. <<k, m>> \in Nat \X Nat /\ <<k, m>>[1] < <<k, m>>[2]
    BY <1>3
  <2>2. QED
    BY <1>2, <2>1 DEF Below
<1>4. QED
  BY <1>3, <1>2

LEMMA FirstFromFound ==
  ASSUME TypeOK, NEW lsn \in Nat
  PROVE  /\ FirstFrom(lsn) \in 1..Len(wal) + 1
         /\ \A j \in 1..FirstFrom(lsn) - 1 : wal[j].commit < lsn
         /\ FirstFrom(lsn) <= Len(wal) => wal[FirstFrom(lsn)].commit >= lsn
<1> DEFINE S == {i \in 1..Len(wal) + 1 : i <= Len(wal) => wal[i].commit >= lsn}
<1>1. Len(wal) \in Nat /\ \A i \in 1..Len(wal) : wal[i].commit \in Nat
  BY WalShape
<1>2. S \in SUBSET Nat /\ S # {}
  <2>1. Len(wal) + 1 \in S
    BY <1>1
  <2>2. QED
    BY <2>1
<1>3. PICK m \in S : \A k \in S : m <= k
  BY <1>2, LeastExists
<1>4. \A j \in 1..m - 1 : wal[j].commit < lsn
  <2> SUFFICES ASSUME NEW j \in 1..m - 1, ~(wal[j].commit < lsn) PROVE FALSE
    OBVIOUS
  <2>1. j \in 1..Len(wal)
    BY <1>1
  <2>2. j \in S
    BY <1>1, <2>1
  <2>3. QED
    BY <1>1, <1>3, <2>2
<1>5. m \in 1..Len(wal) + 1 /\ (m <= Len(wal) => wal[m].commit >= lsn)
  OBVIOUS
<1>6. QED
  BY <1>4, <1>5 DEF FirstFrom

LEMMA LastKeptFound ==
  ASSUME TypeOK, kept # {}
  PROVE  \E n \in kept : LastKept = wal[n].end /\ \A j \in kept : j <= n
<1> DEFINE D == {Len(wal) - k : k \in kept}
<1>1. Len(wal) \in Nat /\ \A k \in kept : k \in 1..Len(wal)
  BY DEF TypeOK
<1>2. \A k \in kept : Len(wal) - k \in Nat
  BY <1>1
<1>3. D \in SUBSET Nat /\ D # {}
  BY <1>2
<1>4. PICK d \in D : \A e \in D : d <= e
  BY <1>3, LeastExists
<1>5. PICK n \in kept : d = Len(wal) - n
  OBVIOUS
<1>6. \A j \in kept : j <= n
  <2> SUFFICES ASSUME NEW j \in kept PROVE j <= n
    OBVIOUS
  <2>1. Len(wal) - n <= Len(wal) - j
    BY <1>4, <1>5
  <2>2. QED
    BY <1>1, <2>1
<1> DEFINE m == CHOOSE i \in kept : \A j \in kept : j <= i
<1>7. m \in kept /\ \A j \in kept : j <= m
  BY <1>6
<1>8. LastKept = wal[m].end
  BY DEF LastKept
<1>9. QED
  BY <1>7, <1>8

-------------------------------------------------------------------------------
LEMMA StreamTypeStep == TypeOK /\ [Next]_vars => TypeOK'
<1> SUFFICES ASSUME TypeOK, [Next]_vars PROVE TypeOK'
  OBVIOUS
<1> USE PgBoundsAssumption, PgLimitsAssumption
<1>1. ASSUME NEW body \in Bodies, SourceCommits(body) PROVE TypeOK'
  <2>1. PICK gap \in Gaps :
          wal' = Append(wal, [commit |-> LastEnd + gap, end |-> LastEnd + gap + 1, body |-> body])
    BY <1>1 DEF SourceCommits
  <2>2. [commit |-> LastEnd + gap, end |-> LastEnd + gap + 1, body |-> body] \in TxShape
    <3>1. LastEnd \in Nat /\ gap \in Nat
      BY LastEndInNat, GapsAssumption
    <3>2. body \in Seq(ItemShape)
      BY BodiesShape DEF TypeOK
    <3>3. QED
      BY <3>1, <3>2 DEF TxShape
  <2>3. wal' \in Seq(TxShape) /\ Len(wal') = Len(wal) + 1 /\ Len(wal) \in Nat
    BY <2>1, <2>2 DEF TypeOK
  <2>4. delivered \in 0..Len(wal') /\ kept \subseteq 1..Len(wal')
    BY <2>3 DEF TypeOK
  <2>5. QED
    BY <1>1, <2>3, <2>4 DEF TypeOK, SourceCommits, decoder, consumer
<1>2. ASSUME NEW r \in Relations, SourceAlters(r) PROVE TypeOK'
  <2>1. version' \in [Relations -> 1..MaxVersion]
    BY <1>2 DEF TypeOK, SourceAlters
  <2>2. QED
    BY <1>2, <2>1 DEF TypeOK, SourceAlters, decoder, consumer
<1>3. CASE Open
  <2>1. PICK lsn \in {confirmed, LastKept} :
           /\ lsn >= confirmed
           /\ start' = lsn
           /\ server' = [Nothing EXCEPT !.tx = FirstFrom(lsn)]
    BY <1>3 DEF Open
  <2>2. lsn \in Nat
    <3>1. LastKept \in Nat
      <4>1. CASE kept = {}
        BY <4>1 DEF LastKept
      <4>2. CASE kept # {}
        <5>1. PICK n \in kept : LastKept = wal[n].end
          BY <4>2, LastKeptFound
        <5>2. n \in 1..Len(wal)
          BY DEF TypeOK
        <5>3. QED
          BY <5>1, <5>2, WalShape
      <4>3. QED
        BY <4>1, <4>2
    <3>2. QED
      BY <3>1, <2>1 DEF TypeOK
  <2>3. FirstFrom(lsn) \in Nat
    <3>1. FirstFrom(lsn) \in 1..Len(wal) + 1
      BY <2>2, FirstFromFound
    <3>2. QED
      BY <3>1, WalShape
  <2>4. server' \in ServerShape
    BY <2>1, <2>3 DEF Nothing, ServerShape
  <2>5. NoPending \in PendingShape /\ Len(NoPending.rows) = 0
    BY DEF NoPending, PendingShape
  <2>6. received' \in Seq(ReturnShape)
    BY <1>3 DEF Open
  <2>7. catalog' \in [Relations -> 1..MaxVersion] /\ catalog' \in [Relations -> 0..MaxVersion]
    <3>1. catalog' = version /\ version \in [Relations -> 1..MaxVersion]
      BY <1>3 DEF Open, TypeOK
    <3>2. QED
      BY <3>1
  <2>8. opens' \in 0..MaxOpens
    <3>1. opens \in 0..MaxOpens /\ opens < MaxOpens /\ opens' = opens + 1
      BY <1>3 DEF Open, TypeOK
    <3>2. QED
      BY <3>1, PgBoundsAssumption
  <2>9. /\ UNCHANGED <<wal, version, confirmed, kept>>
        /\ status' = "open" /\ acked' = 0 /\ delivered' = 0 /\ seen' = {}
        /\ pending' = NoPending /\ previous' = 0
    BY <1>3 DEF Open, source
  <2>10. delivered' \in 0..Len(wal')
    BY <2>9, WalShape
  <2>11. pending' \in PendingShape /\ Len(pending'.rows) <= MaxRows
    BY <2>5, <2>9, PgLimitsAssumption
  <2>12. /\ wal' \in Seq(TxShape) /\ version' \in [Relations -> 1..MaxVersion]
         /\ confirmed' \in Nat /\ kept' \subseteq 1..Len(wal')
    BY <2>9 DEF TypeOK
  <2>13. /\ start' \in Nat /\ status' \in {"closed", "open", "failed"}
         /\ acked' \in Nat /\ seen' \subseteq Relations /\ previous' \in Nat
    BY <2>1, <2>2, <2>9
  <2>14. QED
    BY <2>4, <2>6, <2>7, <2>8, <2>10, <2>11, <2>12, <2>13 DEF TypeOK
<1>4. CASE Begin
  <2>1. Sends /\ Consumed
    BY <1>4 DEF Begin, Reads
  <2>2. wal[server.tx].commit \in Nat
    BY <2>1, BodyShape DEF TxShape
  <2>3. pending' \in PendingShape /\ Len(pending'.rows) = 0
    BY <1>4, <2>2 DEF Begin, PendingShape
  <2>4. QED
    BY <1>4, <2>1, <2>3, ConsumedShape DEF TypeOK, Begin, source, consumer
<1>5. CASE Relation
  <2>1. Sends /\ Consumed /\ Item.rel \in Relations
    BY <1>5, MessageKinds DEF Relation, Reads, ItemShape
  <2>2. /\ pending' \in PendingShape
        /\ pending'.rows = pending.rows
    BY <1>5, BufferedShape, PendingFields DEF Relation
  <2>3. QED
    BY <1>5, <2>1, <2>2, ConsumedShape DEF TypeOK, Relation, source, consumer
<1>6. CASE RowRead
  <2>1. Sends /\ Consumed /\ Item.rel \in Relations
    BY <1>6, MessageKinds DEF RowRead, Reads, ItemShape
  <2>2. [rel |-> Item.rel, ver |-> catalog[Item.rel]] \in RowShape
    BY <1>6, <2>1 DEF TypeOK, RowRead, Reads, Asked, RowShape
  <2>3. /\ pending' \in PendingShape
        /\ pending'.rows = Append(pending.rows, [rel |-> Item.rel, ver |-> catalog[Item.rel]])
    <3>1. Append(pending.rows, [rel |-> Item.rel, ver |-> catalog[Item.rel]]) \in Seq(RowShape)
      BY <2>2, PendingFields
    <3>2. QED
      BY <1>6, <3>1, BufferedShape DEF RowRead
  <2>4. Len(pending'.rows) <= MaxRows
    BY <1>6, <2>2, <2>3, PendingFields DEF RowRead, RowAccepted
  <2>5. QED
    BY <1>6, <2>1, <2>3, <2>4, ConsumedShape DEF TypeOK, RowRead, source, consumer
<1>7. CASE Commit
  <2>1. Sends /\ Consumed /\ server.tx \in 1..Len(wal)
    BY <1>7 DEF Commit, Reads, Sends
  <2>2. wal[server.tx].end \in Nat
    BY <2>1, BodyShape DEF TxShape
  <2>3. [tx |-> server.tx, rows |-> pending.rows, cursor |-> wal[server.tx].end]
          \in ReturnShape
    BY <2>1, <2>2, PendingFields, ServerFields DEF ReturnShape
  <2>4. /\ received' \in Seq(ReturnShape)
        /\ delivered' \in 0..Len(wal)
    <3>1. CASE pending.rows = <<>>
      BY <1>7, <3>1 DEF TypeOK, Commit
    <3>2. CASE pending.rows # <<>>
      <4>1. /\ delivered' = server.tx
            /\ received' = Append(received, [tx |-> server.tx, rows |-> pending.rows,
                                             cursor |-> wal[server.tx].end])
        BY <1>7, <3>2 DEF Commit
      <4>2. received \in Seq(ReturnShape)
        BY DEF TypeOK
      <4>3. QED
        BY <2>1, <2>3, <4>1, <4>2
    <3>3. QED
      BY <3>1, <3>2
  <2>5. NoPending \in PendingShape /\ Len(NoPending.rows) = 0
    BY DEF NoPending, PendingShape
  <2>6. server' \in ServerShape
    BY <2>1, ConsumedShape
  <2>7. /\ previous' \in Nat
        /\ pending' \in PendingShape /\ Len(pending'.rows) <= MaxRows
    BY <1>7, <2>2, <2>5, PgLimitsAssumption DEF Commit
  <2>8. UNCHANGED <<wal, version, confirmed, start, status, catalog, seen, acked, kept, opens>>
    BY <1>7 DEF Commit, source
  <2>9. QED
    BY <2>4, <2>6, <2>7, <2>8 DEF TypeOK
<1>8. CASE Fails \/ Refused
  <2>1. server' \in ServerShape
    BY <1>8, ConsumedShape DEF Fails, Refused, TypeOK
  <2>2. status' = "failed"
    BY <1>8 DEF Fails, Refused, Poisoned
  <2>3. UNCHANGED <<source, confirmed, start, decoder, consumer, received, opens>>
    BY <1>8 DEF Fails, Refused
  <2>4. QED
    BY <2>1, <2>2, <2>3 DEF TypeOK, source, decoder, consumer
<1>9. CASE Close
  BY <1>9 DEF TypeOK, Close, source, decoder, consumer
<1>10. CASE Keep
  BY <1>10 DEF TypeOK, Keep, source, decoder
<1>11. CASE Acknowledge
  <2>1. delivered \in 1..Len(wal)
    BY <1>11 DEF TypeOK, Acknowledge
  <2>2. wal[delivered].end \in Nat
    BY <2>1, WalShape
  <2>3. QED
    BY <1>11, <2>2 DEF TypeOK, Acknowledge, Acknowledged, source, decoder
<1>12. CASE Feedback
  BY <1>12 DEF TypeOK, Feedback, source, decoder, consumer
<1>13. CASE UNCHANGED vars
  BY <1>13 DEF TypeOK, vars, source, decoder, consumer
<1>14. QED
  BY <1>1, <1>2, <1>3, <1>4, <1>5, <1>6, <1>7, <1>8, <1>9, <1>10, <1>11, <1>12, <1>13 DEF Next

-------------------------------------------------------------------------------
(* The log.                                                                *)

LEMMA LogGrows ==
  ASSUME TypeOK, NEW body \in Bodies, SourceCommits(body)
  PROVE  /\ Len(wal') = Len(wal) + 1
         /\ \A i \in 1..Len(wal) : wal'[i] = wal[i]
         /\ \A i \in 1..Len(wal) : WithRows(i)' <=> WithRows(i)
         /\ wal'[Len(wal')].commit \in Nat
         /\ wal'[Len(wal')].commit >= LastEnd
         /\ wal'[Len(wal')].end = wal'[Len(wal')].commit + 1
         /\ LastEnd' = wal'[Len(wal')].end
<1>1. PICK gap \in Gaps :
        wal' = Append(wal, [commit |-> LastEnd + gap, end |-> LastEnd + gap + 1, body |-> body])
  BY DEF SourceCommits
<1>2. LastEnd \in Nat /\ gap \in Nat /\ Len(wal) \in Nat
  BY LastEndInNat, GapsAssumption, WalShape
<1> DEFINE t == [commit |-> LastEnd + gap, end |-> LastEnd + gap + 1, body |-> body]
<1>3. wal \in Seq(TxShape)
  BY DEF TypeOK
<1>4. /\ Len(wal') = Len(wal) + 1
      /\ \A i \in 1..Len(wal) : wal'[i] = wal[i]
      /\ wal'[Len(wal) + 1] = t
  BY <1>1, <1>3
<1>5. t.commit = LastEnd + gap /\ t.end = LastEnd + gap + 1
  OBVIOUS
<1>6. wal' # <<>>
  BY <1>2, <1>4
<1>7. \A i \in 1..Len(wal) : WithRows(i)' <=> WithRows(i)
  BY <1>4 DEF WithRows
<1>8. QED
  BY <1>2, <1>4, <1>5, <1>6, <1>7 DEF LastEnd

LEMMA EndsBehind ==
  ASSUME TypeOK, WalOK, NEW i \in 1..Len(wal)
  PROVE  wal[i].end <= LastEnd
<1>1. Len(wal) \in Nat /\ Len(wal) \in 1..Len(wal) /\ wal # <<>>
  BY WalShape
<1>2. LastEnd = wal[Len(wal)].end
  BY <1>1 DEF LastEnd
<1>3. wal[i].end \in Nat /\ wal[Len(wal)].commit \in Nat /\ wal[Len(wal)].end \in Nat
  BY <1>1, WalShape
<1>4. i = Len(wal) \/ i < Len(wal)
  BY <1>1
<1>5. wal[Len(wal)].end = wal[Len(wal)].commit + 1
  BY <1>1 DEF WalOK
<1>6. i < Len(wal) => wal[i].end <= wal[Len(wal)].commit
  BY <1>1 DEF WalOK
<1>7. QED
  BY <1>2, <1>3, <1>4, <1>5, <1>6

(* What Open chooses from.                                                 *)
LEMMA StartChosen ==
  ASSUME TypeOK, WalOK, PositionsOK, Open
  PROVE  /\ start' \in Nat
         /\ \/ start' = confirmed
            \/ \E n \in kept : start' = wal[n].end /\ \A j \in kept : j <= n
         /\ server'.tx = FirstFrom(start')
         /\ server'.pos = 0
         /\ server'.told = [r \in Relations |-> 0]
<1>1. PICK lsn \in {confirmed, LastKept} :
         /\ lsn >= confirmed
         /\ start' = lsn
         /\ server' = [Nothing EXCEPT !.tx = FirstFrom(lsn)]
  BY DEF Open
<1>2. /\ server'.tx = FirstFrom(start')
      /\ server'.pos = 0
      /\ server'.told = [r \in Relations |-> 0]
  BY <1>1 DEF Nothing
<1>3. start' \in Nat
  BY StreamTypeStep DEF Next, TypeOK
<1>4. CASE lsn = LastKept /\ kept = {}
  BY <1>1, <1>4 DEF LastKept, PositionsOK, TypeOK
<1>5. CASE lsn = LastKept /\ kept # {}
  BY <1>1, <1>2, <1>3, <1>5, LastKeptFound
<1>6. QED
  BY <1>1, <1>2, <1>3, <1>4, <1>5

LEMMA LogStep ==
  TypeOK /\ WalOK /\ PositionsOK /\ [Next]_vars => WalOK' /\ PositionsOK'
<1> SUFFICES ASSUME TypeOK, WalOK, PositionsOK, [Next]_vars PROVE WalOK' /\ PositionsOK'
  OBVIOUS
<1>a. confirmed \in Nat /\ start \in Nat /\ acked \in Nat /\ LastEnd \in Nat
  BY LastEndInNat DEF TypeOK
<1>1. ASSUME NEW body \in Bodies, SourceCommits(body) PROVE WalOK' /\ PositionsOK'
  <2>1. /\ Len(wal') = Len(wal) + 1
        /\ \A i \in 1..Len(wal) : wal'[i] = wal[i]
        /\ wal'[Len(wal')].commit \in Nat
        /\ wal'[Len(wal')].commit >= LastEnd
        /\ wal'[Len(wal')].end = wal'[Len(wal')].commit + 1
        /\ LastEnd' = wal'[Len(wal')].end
    BY <1>1, LogGrows
  <2>2. UNCHANGED <<confirmed, start, acked>>
    BY <1>1 DEF SourceCommits, consumer
  <2>3. PositionsOK'
    BY <1>a, <2>1, <2>2 DEF PositionsOK
  <2>4. Len(wal) \in Nat /\ LastEnd >= 1
    BY <1>a, WalShape DEF PositionsOK
  <2>5. \A i \in 1..Len(wal') : wal'[i].commit >= 1 /\ wal'[i].end = wal'[i].commit + 1
    <3> SUFFICES ASSUME NEW i \in 1..Len(wal')
                 PROVE  wal'[i].commit >= 1 /\ wal'[i].end = wal'[i].commit + 1
      OBVIOUS
    <3>1. i \in 1..Len(wal) \/ i = Len(wal')
      BY <2>1, <2>4
    <3>2. QED
      BY <1>a, <2>1, <2>4, <3>1 DEF WalOK
  <2>6. \A i, j \in 1..Len(wal') : i < j => wal'[i].end <= wal'[j].commit
    <3> SUFFICES ASSUME NEW i \in 1..Len(wal'), NEW j \in 1..Len(wal'), i < j
                 PROVE  wal'[i].end <= wal'[j].commit
      OBVIOUS
    <3>1. i \in 1..Len(wal) /\ (j \in 1..Len(wal) \/ j = Len(wal'))
      BY <2>1, <2>4
    <3>2. wal[i].end <= LastEnd /\ wal[i].end \in Nat
      BY <3>1, EndsBehind, WalShape
    <3>3. QED
      BY <1>a, <2>1, <3>1, <3>2 DEF WalOK
  <2>7. QED
    BY <2>3, <2>5, <2>6 DEF WalOK
<1>2. CASE Open
  <2>1. UNCHANGED <<wal, confirmed>> /\ acked' = 0
    BY <1>2 DEF Open, source
  <2>2. start' <= LastEnd
    <3>1. CASE start' = confirmed
      BY <3>1 DEF PositionsOK
    <3>2. CASE \E n \in kept : start' = wal[n].end
      BY <3>2, EndsBehind DEF TypeOK
    <3>3. QED
      BY <1>2, <3>1, <3>2, StartChosen
  <2>3. QED
    BY <1>a, <2>1, <2>2 DEF WalOK, PositionsOK, LastEnd
<1>3. CASE Acknowledge
  <2>1. UNCHANGED <<wal, confirmed, start>> /\ acked' = wal[delivered].end
    BY <1>3 DEF Acknowledge, Acknowledged, source
  <2>2. wal[delivered].end <= LastEnd
    BY <1>3, EndsBehind DEF Acknowledge, TypeOK
  <2>3. QED
    BY <2>1, <2>2 DEF WalOK, PositionsOK, LastEnd
<1>4. CASE Feedback
  <2>1. UNCHANGED <<wal, acked, start>> /\ confirmed' = acked /\ acked > confirmed
    BY <1>4 DEF Feedback, source, consumer
  <2>2. QED
    BY <1>a, <2>1 DEF WalOK, PositionsOK, LastEnd
<1>5. CASE UNCHANGED <<wal, confirmed, start, acked>>
  BY <1>5 DEF WalOK, PositionsOK, LastEnd
<1>6. ASSUME NEW r \in Relations, SourceAlters(r) PROVE UNCHANGED <<wal, confirmed, start, acked>>
  BY <1>6 DEF SourceAlters, consumer
<1>7. ASSUME Begin \/ Relation \/ RowRead \/ Commit \/ Fails \/ Refused \/ Close \/ Keep
      PROVE  UNCHANGED <<wal, confirmed, start, acked>>
  BY <1>7 DEF Begin, Relation, RowRead, Commit, Fails, Refused, Close, Keep, source, consumer
<1>8. ASSUME UNCHANGED vars PROVE UNCHANGED <<wal, confirmed, start, acked>>
  BY <1>8 DEF vars, source, consumer
<1>9. QED
  BY <1>1, <1>2, <1>3, <1>4, <1>5, <1>6, <1>7, <1>8 DEF Next

-------------------------------------------------------------------------------
(* The stream.                                                             *)

LEMMA ReturnedFrame ==
  ASSUME ReturnedOK, UNCHANGED <<wal, start, received, server.tx>>
  PROVE  ReturnedOK'
BY DEF ReturnedOK, ReturnOK, Due, WithRows

(* COMMIT returns the transaction when it has rows.                        *)
LEMMA ReturnedAtCommit ==
  ASSUME TypeOK, status = "open", PlaceOK, PendingOK, ReturnedOK, Commit
  PROVE  ReturnedOK'
<1>t. PICK t : t = server.tx
  OBVIOUS
<1> DEFINE item == [tx |-> t, rows |-> pending.rows, cursor |-> wal[t].end]
<1>1. /\ Sends /\ Consumed /\ Message = "commit"
      /\ UNCHANGED <<wal, start>>
  BY DEF Commit, Reads, source
<1>2. server'.tx = t + 1 /\ server.pos > Len(Body)
  BY <1>1, <1>t, ConsumedEffect, MessageKinds
<1>3. t \in 1..Len(wal) /\ t \in Nat /\ Len(Body) \in Nat /\ server.pos \in Nat
  BY <1>1, <1>t, BodyShape, ServerFields DEF Sends
<1>4. Len(pending.rows) = Len(Body)
  BY <1>2, <1>3 DEF PlaceOK, PendingOK
<1>5. start <= wal[t].commit
  BY <1>3, <1>t DEF PlaceOK
<1>6. WithRows(t) <=> pending.rows # <<>>
  <2>1. pending.rows # <<>> <=> 1 <= Len(pending.rows)
    BY PendingFields
  <2>2. DOMAIN Body = 1..Len(Body)
    BY <1>1, BodyShape
  <2>3. \A j \in 1..Len(Body) : Body[j].kind = "row"
    BY <1>4 DEF PendingOK
  <2>4. (\E k \in DOMAIN Body : Body[k].kind = "row") <=> 1 <= Len(Body)
    BY <1>3, <2>2, <2>3
  <2>5. QED
    BY <1>4, <1>t, <2>1, <2>4 DEF WithRows, Body
<1>7. \A i \in 1..Len(wal) : Due(i)' <=> Due(i) \/ (i = t /\ WithRows(t))
  <2>1. \A i \in 1..Len(wal) : WithRows(i)' <=> WithRows(i)
    BY <1>1 DEF WithRows
  <2>2. \A i \in 1..Len(wal) : i < t + 1 <=> i < t \/ i = t
    BY <1>3, WalShape
  <2>3. QED
    BY <1>1, <1>2, <1>5, <1>t, <2>1, <2>2 DEF Due
<1>8. Len(received) \in Nat
  BY DEF TypeOK
<1>9. CASE pending.rows = <<>>
  <2>1. received' = received
    BY <1>9 DEF Commit
  <2>2. \A i \in 1..Len(wal) : Due(i)' <=> Due(i)
    BY <1>6, <1>7, <1>9
  <2>3. \A k \in 1..Len(received) : ReturnOK(k)'
    BY <1>1, <2>1, <2>2 DEF ReturnedOK, ReturnOK
  <2>4. QED
    BY <1>1, <2>1, <2>2, <2>3 DEF ReturnedOK
<1>10. CASE pending.rows # <<>>
  <2>1. received' = Append(received, item)
    BY <1>10, <1>t DEF Commit
  <2>2. /\ Len(received') = Len(received) + 1
        /\ \A k \in 1..Len(received) : received'[k] = received[k]
        /\ received'[Len(received) + 1] = item
    BY <2>1 DEF TypeOK
  <2>3. \A k \in 1..Len(received) : ReturnOK(k)'
    <3> SUFFICES ASSUME NEW k \in 1..Len(received) PROVE ReturnOK(k)'
      OBVIOUS
    <3>1. received'[k] = received[k] /\ ReturnOK(k)
      BY <2>2 DEF ReturnedOK
    <3>2. \A i \in 1..Len(wal) : Due(i) => Due(i)'
      BY <1>7
    <3>3. QED
      BY <1>1, <3>1, <3>2 DEF ReturnOK
  <2>4. \A m \in {Len(received')} : ReturnOK(m)'
    <3> SUFFICES ASSUME NEW m, m = Len(received') PROVE ReturnOK(m)'
      OBVIOUS
    <3>1. received'[Len(received')] = item
      BY <2>2
    <3>2. item.tx = t /\ item.rows = pending.rows /\ item.cursor = wal[t].end
      OBVIOUS
    <3>3. Due(t)'
      BY <1>3, <1>6, <1>7, <1>10
    <3>4. \A j \in 1..Len(pending.rows) : pending.rows[j].rel = wal[t].body[j].rel
      BY <1>t DEF PendingOK, Body
    <3>5. Len(pending.rows) = Len(wal[t].body)
      BY <1>4, <1>t DEF Body
    <3> HIDE DEF item
    <3>6. /\ received'[m].tx = t
          /\ received'[m].rows = pending.rows
          /\ received'[m].cursor = wal[t].end
      BY <3>1, <3>2
    <3>7. QED
      BY <1>1, <1>3, <3>3, <3>4, <3>5, <3>6 DEF ReturnOK
  <2>5. \A j, k \in 1..Len(received') : j < k => received'[j].tx < received'[k].tx
    <3> SUFFICES ASSUME NEW j \in 1..Len(received'), NEW k \in 1..Len(received'), j < k
                 PROVE  received'[j].tx < received'[k].tx
      OBVIOUS
    <3>1. j \in 1..Len(received) /\ (k \in 1..Len(received) \/ k = Len(received) + 1)
      BY <1>8, <2>2
    <3>2. received[j].tx < t
      BY <1>t, <3>1 DEF ReturnedOK, ReturnOK, Due
    <3>3. QED
      BY <2>2, <3>1, <3>2 DEF ReturnedOK
  <2>6. \A i \in 1..Len(wal) : Due(i)' => \E k \in 1..Len(received') : received'[k].tx = i
    <3> SUFFICES ASSUME NEW i \in 1..Len(wal), Due(i)'
                 PROVE  \E k \in 1..Len(received') : received'[k].tx = i
      OBVIOUS
    <3>1. CASE Due(i)
      <4>1. PICK k \in 1..Len(received) : received[k].tx = i
        BY <3>1 DEF ReturnedOK
      <4>2. k \in 1..Len(received') /\ received'[k].tx = i
        BY <1>8, <2>2, <4>1
      <4>3. QED
        BY <4>2
    <3>2. CASE i = t
      <4>1. Len(received) + 1 \in 1..Len(received') /\ received'[Len(received) + 1].tx = t
        BY <1>8, <2>2
      <4>2. QED
        BY <3>2, <4>1
    <3>3. QED
      BY <1>7, <3>1, <3>2
  <2>7. \A k \in 1..Len(received') : ReturnOK(k)'
    <3> SUFFICES ASSUME NEW k \in 1..Len(received') PROVE ReturnOK(k)'
      OBVIOUS
    <3>1. k \in 1..Len(received) \/ k = Len(received')
      BY <1>8, <2>2
    <3>2. QED
      BY <2>3, <2>4, <3>1
  <2>8. QED
    BY <1>1, <2>5, <2>6, <2>7 DEF ReturnedOK
<1>11. QED
  BY <1>9, <1>10

(* A new transaction is after everything that has been sent.               *)
LEMMA StreamSeesNewLog ==
  ASSUME IInv, status = "open", NEW body \in Bodies, SourceCommits(body)
  PROVE  PlaceOK' /\ PendingOK' /\ ToldOK' /\ ReturnedOK'
<1>1. /\ Len(wal') = Len(wal) + 1
      /\ \A i \in 1..Len(wal) : wal'[i] = wal[i]
      /\ \A i \in 1..Len(wal) : WithRows(i)' <=> WithRows(i)
      /\ wal'[Len(wal')].commit \in Nat
      /\ wal'[Len(wal')].commit >= LastEnd
  BY LogGrows DEF IInv
<1>2. UNCHANGED <<server, start, catalog, pending, received>>
  BY DEF SourceCommits, decoder
<1>3. PlaceOK /\ PendingOK /\ ToldOK /\ ReturnedOK /\ TypeOK /\ PositionsOK
  BY DEF IInv, StreamOK
<1>4. Len(wal) \in Nat /\ server.tx \in Nat /\ server.pos \in Nat /\ start \in Nat /\ LastEnd \in Nat
  BY <1>3, WalShape, ServerFields, LastEndInNat DEF TypeOK
<1>5. server.pos > 0 => server.tx \in 1..Len(wal) /\ Body' = Body
  BY <1>1, <1>2, <1>3, <1>4 DEF PlaceOK, Body
<1>6. PlaceOK'
  <2>1. server.tx \in 1..Len(wal') + 1
    BY <1>1, <1>3, <1>4 DEF PlaceOK
  <2>2. server.pos > 0 => server.tx <= Len(wal') /\ server.pos <= Len(Body') + 1
    BY <1>1, <1>3, <1>4, <1>5 DEF PlaceOK
  <2>3. \A i \in 1..Len(wal') : server.tx <= i => start <= wal'[i].commit
    <3> SUFFICES ASSUME NEW i \in 1..Len(wal'), server.tx <= i PROVE start <= wal'[i].commit
      OBVIOUS
    <3>1. i \in 1..Len(wal) \/ i = Len(wal')
      BY <1>1, <1>4
    <3>2. CASE i = Len(wal')
      BY <1>1, <1>3, <1>4, <3>2 DEF PositionsOK
    <3>3. CASE i \in 1..Len(wal)
      BY <1>1, <1>3, <3>3 DEF PlaceOK
    <3>4. QED
      BY <3>1, <3>2, <3>3
  <2>4. QED
    BY <1>2, <2>1, <2>2, <2>3 DEF PlaceOK
<1>7. PendingOK'
  <2>1. CASE server.pos = 0
    BY <1>2, <1>3, <1>4, <2>1 DEF PendingOK, NoPending
  <2>2. CASE server.pos > 0
    BY <1>1, <1>2, <1>3, <1>4, <1>5, <2>2 DEF PendingOK
  <2>3. QED
    BY <1>4, <2>1, <2>2
<1>8. ToldOK'
  BY <1>2, <1>3 DEF ToldOK
<1>9. \A i \in 1..Len(wal) : Due(i)' <=> Due(i)
  BY <1>1, <1>2 DEF Due
<1>10. \A k \in 1..Len(received) : ReturnOK(k)'
  <2> SUFFICES ASSUME NEW k \in 1..Len(received) PROVE ReturnOK(k)'
    OBVIOUS
  <2>1. ReturnOK(k) /\ received'[k] = received[k]
    BY <1>2, <1>3 DEF ReturnedOK
  <2>2. received[k].tx \in 1..Len(wal) /\ received[k].tx \in 1..Len(wal')
    BY <1>1, <1>4, <2>1 DEF ReturnOK
  <2>3. wal'[received[k].tx] = wal[received[k].tx]
    BY <1>1, <2>2
  <2>4. QED
    BY <1>9, <2>1, <2>2, <2>3 DEF ReturnOK
<1>11. \A i \in 1..Len(wal') : Due(i)' => \E k \in 1..Len(received) : received[k].tx = i
  <2> SUFFICES ASSUME NEW i \in 1..Len(wal'), Due(i)'
               PROVE  \E k \in 1..Len(received) : received[k].tx = i
    OBVIOUS
  <2>1. i \in 1..Len(wal) \/ i = Len(wal) + 1
    BY <1>1, <1>4
  <2>2. i \in 1..Len(wal)
    <3>1. \A n : n = Len(wal) + 1 => ~Due(n)'
      BY <1>1, <1>2, <1>3, <1>4 DEF Due, PlaceOK
    <3>2. QED
      BY <2>1, <3>1
  <2>3. QED
    BY <1>3, <1>9, <2>2 DEF ReturnedOK
<1>12. QED
  BY <1>2, <1>3, <1>6, <1>7, <1>8, <1>10, <1>11 DEF ReturnedOK

LEMMA StreamStep == IInv /\ [Next]_vars => StreamOK'
<1> SUFFICES ASSUME IInv, [Next]_vars PROVE StreamOK'
  OBVIOUS
<1>0. TypeOK /\ WalOK /\ PositionsOK /\ StreamOK
  BY DEF IInv
<1>n. /\ Len(wal) \in Nat /\ server.tx \in Nat /\ server.pos \in Nat
      /\ server.told \in [Relations -> 0..MaxVersion]
  BY <1>0, WalShape, ServerFields
<1>1. ASSUME NEW body \in Bodies, SourceCommits(body) PROVE StreamOK'
  <2>1. status' = status
    BY <1>1 DEF SourceCommits
  <2>2. QED
    BY <1>1, <2>1, StreamSeesNewLog DEF StreamOK
<1>2. CASE Open
  <2>1. /\ start' \in Nat
        /\ server'.tx = FirstFrom(start')
        /\ server'.pos = 0
        /\ server'.told = [r \in Relations |-> 0]
    BY <1>0, <1>2, StartChosen
  <2>2. wal' = wal /\ pending' = NoPending /\ received' = <<>>
    BY <1>2 DEF Open, source
  <2>3. PICK s : s = start'
    OBVIOUS
  <2>4. /\ FirstFrom(s) \in 1..Len(wal) + 1
        /\ \A j \in 1..FirstFrom(s) - 1 : wal[j].commit < s
        /\ FirstFrom(s) <= Len(wal) => wal[FirstFrom(s)].commit >= s
    BY <1>0, <2>1, <2>3, FirstFromFound
  <2>5. \A i \in 1..Len(wal) : server'.tx <= i => s <= wal[i].commit
    <3> SUFFICES ASSUME NEW i \in 1..Len(wal), server'.tx <= i PROVE s <= wal[i].commit
      OBVIOUS
    <3> DEFINE f == FirstFrom(s)
    <3>1. f \in 1..Len(wal) /\ f <= i /\ wal[f].commit >= s
      BY <1>n, <2>1, <2>3, <2>4
    <3>2. /\ wal[f].commit \in Nat /\ wal[f].end \in Nat /\ wal[i].commit \in Nat /\ s \in Nat
          /\ wal[f].end = wal[f].commit + 1
      BY <1>0, <2>1, <2>3, <3>1, WalShape DEF WalOK
    <3>3. f = i \/ wal[f].end <= wal[i].commit
      BY <1>0, <1>n, <3>1 DEF WalOK
    <3> HIDE DEF f
    <3>4. QED
      BY <3>1, <3>2, <3>3
  <2>6. PlaceOK'
    BY <2>1, <2>2, <2>3, <2>4, <2>5 DEF PlaceOK
  <2>7. PendingOK'
    BY <2>1, <2>2 DEF PendingOK, NoPending
  <2>8. ToldOK'
    BY <2>1 DEF ToldOK
  <2>9. ReturnedOK'
    <3>1. \A i \in 1..Len(wal) : ~Due(i)'
      <4> SUFFICES ASSUME NEW i \in 1..Len(wal), i < FirstFrom(s) PROVE ~(s <= wal[i].commit)
        BY <2>1, <2>2, <2>3 DEF Due
      <4>1. wal[i].commit < s
        BY <1>n, <2>4
      <4>2. wal[i].commit \in Nat /\ s \in Nat
        BY <1>0, <2>1, <2>3, WalShape
      <4>3. QED
        BY <4>1, <4>2
    <3>2. Len(received') = 0
      BY <2>2
    <3>3. QED
      BY <2>2, <3>1, <3>2 DEF ReturnedOK
  <2>10. QED
    BY <2>6, <2>7, <2>8, <2>9 DEF StreamOK
<1>3. CASE Begin
  <2>1. /\ status = "open" /\ Sends /\ Consumed /\ Message = "begin"
        /\ pending' = [commit |-> wal[server.tx].commit, bytes |-> 1, rows |-> <<>>]
        /\ UNCHANGED <<wal, start, catalog, received>>
    BY <1>3 DEF Begin, Reads, Asked, source
  <2>2. PlaceOK /\ PendingOK /\ ToldOK /\ ReturnedOK
    BY <1>0, <2>1 DEF StreamOK
  <2>3. server'.tx = server.tx /\ server'.pos = 1 /\ server'.told = server.told
    BY <1>0, <1>n, <2>1, ConsumedEffect, MessageKinds
  <2>4. Len(Body) \in Nat /\ Body' = Body /\ server.tx <= Len(wal)
    BY <1>0, <1>n, <2>1, <2>3, BodyShape DEF Body, Sends
  <2>5. PlaceOK'
    BY <2>1, <2>2, <2>3, <2>4 DEF PlaceOK
  <2>6. PendingOK'
    BY <2>1, <2>3 DEF PendingOK
  <2>7. ToldOK'
    BY <2>1, <2>2, <2>3 DEF ToldOK
  <2>8. ReturnedOK'
    BY <2>1, <2>2, <2>3, ReturnedFrame
  <2>9. QED
    BY <2>5, <2>6, <2>7, <2>8 DEF StreamOK
<1>4. CASE Relation
  <2>1. /\ status = "open" /\ Sends /\ Consumed /\ Message = "relation"
        /\ Item.ver = catalog[Item.rel]
        /\ Buffered(pending.rows)
        /\ UNCHANGED <<wal, start, catalog, received>>
    BY <1>4 DEF Relation, RelationAccepted, Reads, Asked, source
  <2>2. PlaceOK /\ PendingOK /\ ToldOK /\ ReturnedOK
    BY <1>0, <2>1 DEF StreamOK
  <2>3. /\ server'.tx = server.tx /\ server'.pos = server.pos
        /\ server'.told = [server.told EXCEPT ![Item.rel] = Item.ver]
    BY <1>0, <2>1, ConsumedEffect
  <2>4. pending'.rows = pending.rows /\ pending'.commit = pending.commit
    BY <1>0, <2>1, BufferedShape, PendingFields
  <2>5. Body' = Body /\ server.pos > 0
    BY <1>0, <2>1, <2>3, MessageKinds DEF Body
  <2>6. PlaceOK'
    BY <2>1, <2>2, <2>3, <2>5 DEF PlaceOK
  <2>7. PendingOK'
    BY <2>1, <2>2, <2>3, <2>4, <2>5 DEF PendingOK
  <2>8. ToldOK'
    BY <1>n, <2>1, <2>2, <2>3 DEF ToldOK
  <2>9. ReturnedOK'
    BY <2>1, <2>2, <2>3, ReturnedFrame
  <2>10. QED
    BY <2>6, <2>7, <2>8, <2>9 DEF StreamOK
<1>5. CASE RowRead
  <2> DEFINE entry == [rel |-> Item.rel, ver |-> catalog[Item.rel]]
  <2>1. /\ status = "open" /\ Sends /\ Consumed /\ Message = "row"
        /\ Buffered(Append(pending.rows, entry))
        /\ UNCHANGED <<wal, start, catalog, received>>
    BY <1>5 DEF RowRead, Reads, Asked, source
  <2>2. PlaceOK /\ PendingOK /\ ToldOK /\ ReturnedOK
    BY <1>0, <2>1 DEF StreamOK
  <2>3. server'.tx = server.tx /\ server'.pos = server.pos + 1 /\ server'.told = server.told
    BY <1>0, <2>1, ConsumedEffect
  <2>4. /\ server.pos \in 1..Len(Body) /\ Item \in ItemShape
        /\ Item.kind = "row" /\ server.told[Item.rel] = Item.ver
    BY <1>0, <2>1, MessageKinds
  <2>5. Item.rel \in Relations /\ Item.ver \in 1..MaxVersion
    BY <2>4 DEF ItemShape
  <2>6. catalog[Item.rel] = Item.ver
    BY <2>2, <2>4, <2>5 DEF ToldOK
  <2>7. entry \in RowShape
    BY <2>5, <2>6 DEF RowShape
  <2>8. pending.rows \in Seq(RowShape) /\ Len(pending.rows) \in Nat
    BY <1>0, PendingFields
  <2>9. Append(pending.rows, entry) \in Seq(RowShape)
    BY <2>7, <2>8
  <2>10. pending'.rows = Append(pending.rows, entry) /\ pending'.commit = pending.commit
    BY <1>0, <2>1, <2>9, BufferedShape
  <2>11. /\ Len(pending'.rows) = Len(pending.rows) + 1
         /\ \A j \in 1..Len(pending.rows) : pending'.rows[j] = pending.rows[j]
         /\ pending'.rows[Len(pending.rows) + 1] = entry
    BY <2>8, <2>10
  <2>12. Body' = Body /\ Len(Body) \in Nat /\ Len(pending.rows) + 1 = server.pos
    <3>1. Body' = Body
      BY <2>1, <2>3 DEF Body
    <3>2. Len(Body) \in Nat
      BY <1>0, <2>1, BodyShape
    <3>3. Len(pending.rows) = server.pos - 1
      BY <2>2, <2>4, <3>2 DEF PendingOK
    <3>4. QED
      BY <1>n, <3>1, <3>2, <3>3
  <2>13. PlaceOK'
    BY <1>n, <2>1, <2>2, <2>3, <2>4, <2>12 DEF PlaceOK
  <2>14. \A j \in 1..Len(pending'.rows) :
            /\ Body[j].kind = "row"
            /\ pending'.rows[j].rel = Body[j].rel
            /\ pending'.rows[j].ver = Body[j].ver
    <3> SUFFICES ASSUME NEW j \in 1..Len(pending'.rows)
                 PROVE  /\ Body[j].kind = "row"
                        /\ pending'.rows[j].rel = Body[j].rel
                        /\ pending'.rows[j].ver = Body[j].ver
      OBVIOUS
    <3>1. j \in 1..Len(pending.rows) \/ j = server.pos
      BY <2>8, <2>11, <2>12
    <3>2. CASE j \in 1..Len(pending.rows)
      BY <2>2, <2>11, <3>2 DEF PendingOK
    <3>3. CASE j = server.pos
      <4>1. pending'.rows[j] = entry
        BY <2>11, <2>12, <3>3
      <4>2. entry.rel = Item.rel /\ entry.ver = Item.ver
        BY <2>6
      <4> HIDE DEF entry
      <4>3. QED
        BY <2>4, <3>3, <4>1, <4>2 DEF Item
    <3>4. QED
      BY <3>1, <3>2, <3>3
  <2>15. PendingOK'
    <3>1. server'.pos > 0 /\ Len(pending'.rows) = server'.pos - 1
      BY <1>n, <2>3, <2>11, <2>12
    <3>2. pending'.commit = wal'[server'.tx].commit
      BY <2>1, <2>2, <2>3, <2>4, <2>10, <2>12 DEF PendingOK
    <3>3. QED
      BY <2>12, <2>14, <3>1, <3>2 DEF PendingOK
  <2>16. ToldOK'
    BY <2>1, <2>2, <2>3 DEF ToldOK
  <2>17. ReturnedOK'
    BY <2>1, <2>2, <2>3, ReturnedFrame
  <2>18. QED
    BY <2>13, <2>15, <2>16, <2>17 DEF StreamOK
<1>6. CASE Commit
  <2>1. /\ status = "open" /\ Sends /\ Consumed /\ Message = "commit"
        /\ pending' = NoPending
        /\ UNCHANGED <<wal, start, catalog>>
    BY <1>6 DEF Commit, Reads, Asked, source
  <2>2. PlaceOK /\ PendingOK /\ ToldOK /\ ReturnedOK
    BY <1>0, <2>1 DEF StreamOK
  <2>3. server'.tx = server.tx + 1 /\ server'.pos = 0 /\ server'.told = server.told
    BY <1>0, <2>1, ConsumedEffect
  <2>4. server.tx \in 1..Len(wal)
    BY <2>1 DEF Sends
  <2>5. PlaceOK'
    BY <1>n, <2>1, <2>2, <2>3, <2>4 DEF PlaceOK
  <2>6. PendingOK'
    <3>1. Len(pending'.rows) = 0 /\ ~(server'.pos > 0)
      BY <2>1, <2>3 DEF NoPending
    <3>2. QED
      BY <2>1, <2>3, <3>1 DEF PendingOK
  <2>7. ToldOK'
    BY <2>1, <2>2, <2>3 DEF ToldOK
  <2>8. ReturnedOK'
    BY <1>0, <1>6, <2>1, <2>2, ReturnedAtCommit
  <2>9. QED
    BY <2>5, <2>6, <2>7, <2>8 DEF StreamOK
<1>7. CASE Fails \/ Refused \/ Close
  BY <1>7 DEF Fails, Refused, Close, Poisoned, StreamOK
<1>8. CASE UNCHANGED <<wal, server, start, status, catalog, pending, received>>
  <2> SUFFICES ASSUME status = "open" PROVE PlaceOK' /\ PendingOK' /\ ToldOK' /\ ReturnedOK'
    BY <1>8 DEF StreamOK
  <2>1. PlaceOK /\ PendingOK /\ ToldOK /\ ReturnedOK
    BY <1>0 DEF StreamOK
  <2>2. Body' = Body
    BY <1>8 DEF Body
  <2>3. ReturnedOK'
    BY <1>8, <2>1, ReturnedFrame
  <2>4. QED
    BY <1>8, <2>1, <2>2, <2>3 DEF PlaceOK, PendingOK, ToldOK
<1>9. ASSUME NEW r \in Relations, SourceAlters(r)
      PROVE  UNCHANGED <<wal, server, start, status, catalog, pending, received>>
  BY <1>9 DEF SourceAlters, decoder
<1>10. ASSUME Keep \/ Acknowledge \/ Feedback \/ UNCHANGED vars
       PROVE  UNCHANGED <<wal, server, start, status, catalog, pending, received>>
  BY <1>10 DEF Keep, Acknowledge, Feedback, vars, source, decoder
<1>11. QED
  BY <1>1, <1>2, <1>3, <1>4, <1>5, <1>6, <1>7, <1>8, <1>9, <1>10 DEF Next

(* The rows of a returned transaction are those the decoder held.          *)
LEMMA RowsStep == IInv /\ [Next]_vars => RowsOK'
<1> SUFFICES ASSUME IInv, [Next]_vars PROVE RowsOK'
  OBVIOUS
<1>0. TypeOK /\ StreamOK /\ RowsOK /\ Len(wal) \in Nat
  BY WalShape DEF IInv
<1>1. ASSUME NEW body \in Bodies, SourceCommits(body) PROVE RowsOK'
  <2>1. /\ Len(wal') = Len(wal) + 1
        /\ \A i \in 1..Len(wal) : wal'[i] = wal[i]
    BY <1>0, <1>1, LogGrows
  <2>2. received' = received
    BY <1>1 DEF SourceCommits
  <2>3. 1..Len(wal) \subseteq 1..Len(wal')
    BY <1>0, <2>1
  <2>4. SUFFICES ASSUME NEW k \in 1..Len(received')
                 PROVE  /\ received'[k].tx \in 1..Len(wal')
                        /\ Len(received'[k].rows) <= Len(wal'[received'[k].tx].body)
                        /\ \A j \in 1..Len(received'[k].rows) :
                              received'[k].rows[j].ver = wal'[received'[k].tx].body[j].ver
    BY DEF RowsOK
  <2>5. /\ received[k].tx \in 1..Len(wal)
        /\ Len(received[k].rows) <= Len(wal[received[k].tx].body)
        /\ \A j \in 1..Len(received[k].rows) :
              received[k].rows[j].ver = wal[received[k].tx].body[j].ver
    BY <1>0, <2>2, <2>4 DEF RowsOK
  <2>6. wal'[received[k].tx] = wal[received[k].tx]
    BY <2>1, <2>5
  <2>7. QED
    BY <2>2, <2>3, <2>5, <2>6
<1>2. CASE Open
  <2>1. Len(received') = 0
    BY <1>2 DEF Open
  <2>2. QED
    BY <2>1 DEF RowsOK
<1>3. CASE Commit
  <2>1. status = "open" /\ Sends /\ Message = "commit" /\ wal' = wal
    BY <1>3 DEF Commit, Reads, Asked, source
  <2>2. PlaceOK /\ PendingOK
    BY <1>0, <2>1 DEF StreamOK
  <2>3. server.pos > Len(Body) /\ Len(Body) \in Nat /\ server.pos \in Nat
    BY <1>0, <2>1, MessageKinds, BodyShape, ServerFields
  <2>4. Len(pending.rows) = Len(Body)
    BY <2>2, <2>3 DEF PlaceOK, PendingOK
  <2>5. CASE received' = received
    BY <1>0, <2>1, <2>5 DEF RowsOK
  <2>6. CASE received' = Append(received, [tx |-> server.tx, rows |-> pending.rows,
                                           cursor |-> wal[server.tx].end])
    <3> DEFINE item == [tx |-> server.tx, rows |-> pending.rows, cursor |-> wal[server.tx].end]
    <3>1. /\ Len(received) \in Nat
          /\ Len(received') = Len(received) + 1
          /\ \A k \in 1..Len(received) : received'[k] = received[k]
          /\ received'[Len(received) + 1] = item
      BY <1>0, <2>6 DEF TypeOK
    <3>2. item.tx = server.tx /\ item.rows = pending.rows
      OBVIOUS
    <3> HIDE DEF item
    <3>3. SUFFICES ASSUME NEW k \in 1..Len(received')
                   PROVE  /\ received'[k].tx \in 1..Len(wal)
                          /\ Len(received'[k].rows) <= Len(wal[received'[k].tx].body)
                          /\ \A j \in 1..Len(received'[k].rows) :
                                received'[k].rows[j].ver = wal[received'[k].tx].body[j].ver
      BY <2>1 DEF RowsOK
    <3>4. CASE k \in 1..Len(received)
      BY <1>0, <3>1, <3>4 DEF RowsOK
    <3>5. CASE k = Len(received) + 1
      <4>1. received'[k].tx = server.tx /\ received'[k].rows = pending.rows
        BY <3>1, <3>2, <3>5
      <4>2. server.tx \in 1..Len(wal)
        BY <2>1 DEF Sends
      <4>3. Len(pending.rows) <= Len(Body)
        BY <2>3, <2>4
      <4>4. QED
        BY <2>2, <4>1, <4>2, <4>3 DEF PendingOK, Body
    <3>6. QED
      BY <3>1, <3>4, <3>5
  <2>7. QED
    BY <1>3, <2>5, <2>6 DEF Commit
<1>4. CASE UNCHANGED <<wal, received>>
  BY <1>0, <1>4 DEF RowsOK
<1>5. ASSUME NEW r \in Relations, SourceAlters(r) PROVE UNCHANGED <<wal, received>>
  BY <1>5 DEF SourceAlters
<1>6. ASSUME \/ Begin \/ Relation \/ RowRead \/ Fails \/ Refused \/ Close \/ Keep \/ Acknowledge
             \/ Feedback \/ UNCHANGED vars
      PROVE  UNCHANGED <<wal, received>>
  BY <1>6 DEF Begin, Relation, RowRead, Fails, Refused, Close, Keep, Acknowledge, Feedback, vars,
              source
<1>7. QED
  BY <1>1, <1>2, <1>3, <1>4, <1>5, <1>6 DEF Next

-------------------------------------------------------------------------------
(* The slot.                                                               *)

(* The end of a kept transaction has only kept ones before it.             *)
LEMMA KeptEnds ==
  ASSUME TypeOK, WalOK, NEW n \in 1..Len(wal), n \in kept, KeptBefore(n)
  PROVE  KeptUpTo(wal[n].end)
<1> SUFFICES ASSUME NEW i \in 1..Len(wal), wal[i].end <= wal[n].end, WithRows(i) PROVE i \in kept
  BY DEF KeptUpTo
<1>1. /\ wal[i].end \in Nat /\ wal[n].end \in Nat
      /\ wal[i].end = wal[i].commit + 1 /\ wal[i].commit \in Nat
      /\ i \in Nat /\ n \in Nat
  BY WalShape DEF WalOK
<1>2. n < i => wal[n].end <= wal[i].commit
  BY DEF WalOK
<1>3. i < n \/ i = n
  BY <1>1, <1>2
<1>4. QED
  BY <1>3 DEF KeptBefore

LEMMA SlotFrame ==
  ASSUME SlotOK, UNCHANGED <<wal, confirmed, acked, kept, delivered>>,
         status' = "open" => status = "open" /\ server'.tx = server.tx
  PROVE  SlotOK'
BY DEF SlotOK, KeptUpTo, KeptBefore, WithRows

LEMMA SlotStep == IInv /\ [Next]_vars => SlotOK'
<1> SUFFICES ASSUME IInv, [Next]_vars PROVE SlotOK'
  OBVIOUS
<1>0. /\ TypeOK /\ WalOK /\ PositionsOK /\ StreamOK /\ SlotOK
      /\ Len(wal) \in Nat /\ server.tx \in Nat
      /\ kept \subseteq 1..Len(wal)
      /\ confirmed \in Nat /\ acked \in Nat /\ LastEnd \in Nat
  BY WalShape, ServerFields, LastEndInNat DEF IInv, TypeOK
<1>1. ASSUME NEW body \in Bodies, SourceCommits(body) PROVE SlotOK'
  <2>1. /\ Len(wal') = Len(wal) + 1
        /\ \A i \in 1..Len(wal) : wal'[i] = wal[i]
        /\ \A i \in 1..Len(wal) : WithRows(i)' <=> WithRows(i)
        /\ wal'[Len(wal')].commit \in Nat
        /\ wal'[Len(wal')].commit >= LastEnd
        /\ wal'[Len(wal')].end = wal'[Len(wal')].commit + 1
    BY <1>0, <1>1, LogGrows
  <2>2. UNCHANGED <<confirmed, acked, kept, delivered, status, server>>
    BY <1>1 DEF SourceCommits, consumer
  <2>3. \A i \in 1..Len(wal') : i \in 1..Len(wal) \/ i = Len(wal')
    BY <1>0, <2>1
  <2>4. wal'[Len(wal')].end > confirmed /\ wal'[Len(wal')].end > acked
    BY <1>0, <2>1 DEF PositionsOK
  <2>5. KeptUpTo(confirmed)' /\ KeptUpTo(acked)'
    <3>1. \A lsn \in {confirmed, acked} : \A i \in 1..Len(wal') :
             wal'[i].end <= lsn => i \in 1..Len(wal)
      BY <1>0, <2>1, <2>3, <2>4
    <3>2. QED
      BY <1>0, <2>1, <2>2, <3>1 DEF SlotOK, KeptUpTo
  <2>6. \A n \in kept : KeptBefore(n)'
    <3>1. \A n \in kept : \A i \in 1..Len(wal') : i < n => i \in 1..Len(wal)
      BY <1>0, <2>1
    <3>2. QED
      BY <1>0, <2>1, <2>2, <3>1 DEF SlotOK, KeptBefore
  <2>7. delivered # 0 => KeptBefore(delivered)'
    <3>1. \A i \in 1..Len(wal') : i < delivered => i \in 1..Len(wal)
      BY <1>0, <2>1 DEF TypeOK
    <3>2. QED
      BY <1>0, <2>1, <2>2, <3>1 DEF SlotOK, KeptBefore
  <2>8. status = "open" =>
           \A i \in 1..Len(wal') : i < server.tx /\ WithRows(i)' => i \in kept \/ i = delivered
    <3>1. status = "open" => \A i \in 1..Len(wal') : i < server.tx => i \in 1..Len(wal)
      BY <1>0, <2>1 DEF StreamOK, PlaceOK
    <3>2. QED
      BY <1>0, <2>1, <3>1 DEF SlotOK
  <2>9. QED
    BY <2>2, <2>5, <2>6, <2>7, <2>8 DEF SlotOK
<1>2. CASE Open
  <2>1. /\ UNCHANGED <<wal, confirmed, kept>>
        /\ acked' = 0 /\ delivered' = 0
    BY <1>2 DEF Open, source
  <2>2. PICK s : s = start'
    OBVIOUS
  <2>3. /\ s \in Nat
        /\ s = confirmed \/ \E n \in kept : s = wal[n].end
        /\ server'.tx = FirstFrom(s)
    BY <1>0, <1>2, <2>2, StartChosen
  <2>4. KeptUpTo(s)
    <3>1. CASE s = confirmed
      BY <1>0, <3>1 DEF SlotOK
    <3>2. CASE \E n \in kept : s = wal[n].end
      BY <1>0, <3>2, KeptEnds DEF SlotOK
    <3>3. QED
      BY <2>3, <3>1, <3>2
  <2>5. \A i \in 1..Len(wal) : i < FirstFrom(s) /\ WithRows(i) => i \in kept
    <3> SUFFICES ASSUME NEW i \in 1..Len(wal), i < FirstFrom(s), WithRows(i) PROVE i \in kept
      OBVIOUS
    <3>1. FirstFrom(s) \in Nat /\ \A j \in 1..FirstFrom(s) - 1 : wal[j].commit < s
      <4>1. /\ FirstFrom(s) \in 1..Len(wal) + 1
            /\ \A j \in 1..FirstFrom(s) - 1 : wal[j].commit < s
        BY <1>0, <2>3, FirstFromFound
      <4>2. QED
        BY <1>0, <4>1
    <3>2. wal[i].commit < s
      BY <1>0, <3>1
    <3>3. wal[i].commit \in Nat /\ wal[i].end = wal[i].commit + 1
      BY <1>0, WalShape DEF WalOK
    <3>4. wal[i].end <= s
      BY <2>3, <3>2, <3>3
    <3>5. QED
      BY <2>4, <3>4 DEF KeptUpTo
  <2>6. KeptUpTo(acked)'
    <3>1. \A i \in 1..Len(wal) : ~(wal[i].end <= 0)
      BY <1>0, WalShape DEF WalOK
    <3>2. QED
      BY <2>1, <3>1 DEF KeptUpTo
  <2>7. KeptUpTo(confirmed)' /\ \A n \in kept : KeptBefore(n)'
    BY <1>0, <2>1 DEF SlotOK, KeptUpTo, KeptBefore, WithRows
  <2>8. \A i \in 1..Len(wal) : WithRows(i)' <=> WithRows(i)
    BY <2>1 DEF WithRows
  <2>9. QED
    BY <2>1, <2>3, <2>5, <2>6, <2>7, <2>8 DEF SlotOK
<1>3. CASE Commit
  <2>1. /\ status = "open" /\ delivered \in kept \cup {0}
        /\ Sends /\ Consumed /\ Message = "commit"
        /\ UNCHANGED <<wal, confirmed, acked, kept>>
    BY <1>3 DEF Commit, Reads, Asked, source
  <2>2. server'.tx = server.tx + 1
    BY <1>0, <2>1, ConsumedEffect
  <2>3. KeptBefore(server.tx)
    BY <1>0, <2>1 DEF SlotOK, KeptBefore
  <2>4. /\ KeptUpTo(confirmed)' /\ KeptUpTo(acked)' /\ \A n \in kept : KeptBefore(n)'
        /\ \A i \in 1..Len(wal) : WithRows(i)' <=> WithRows(i)
    BY <1>0, <2>1 DEF SlotOK, KeptUpTo, KeptBefore, WithRows
  <2>5. delivered' = server.tx \/ (delivered' = delivered /\ ~WithRows(server.tx))
    <3>1. CASE pending.rows # <<>>
      BY <1>3, <3>1 DEF Commit
    <3>2. CASE pending.rows = <<>>
      <4>1. PlaceOK /\ PendingOK /\ server.tx \in 1..Len(wal)
        BY <1>0, <2>1 DEF StreamOK, Sends
      <4>2. server.pos > Len(Body) /\ Len(Body) \in Nat /\ server.pos \in Nat
        BY <1>0, <2>1, MessageKinds, BodyShape, ServerFields
      <4>3. Len(Body) = Len(pending.rows)
        BY <4>1, <4>2 DEF PlaceOK, PendingOK
      <4>4. DOMAIN Body = {}
        BY <1>0, <2>1, <3>2, <4>2, <4>3, BodyShape
      <4>5. QED
        BY <1>3, <3>2, <4>4 DEF Commit, WithRows, Body
    <3>3. QED
      BY <3>1, <3>2
  <2>6. delivered' # 0 => KeptBefore(delivered)'
    <3>1. PICK d : d = delivered'
      OBVIOUS
    <3>2. d # 0 => KeptBefore(d)
      BY <1>0, <2>3, <2>5, <3>1 DEF SlotOK
    <3>3. QED
      BY <2>1, <2>4, <3>1, <3>2 DEF KeptBefore
  <2>7. \A i \in 1..Len(wal) : i < server'.tx /\ WithRows(i) => i \in kept \/ i = delivered'
    <3> SUFFICES ASSUME NEW i \in 1..Len(wal), i < server.tx + 1, WithRows(i)
                 PROVE  i \in kept \/ i = delivered'
      BY <2>2
    <3>1. i < server.tx \/ i = server.tx
      BY <1>0
    <3>2. QED
      BY <2>3, <2>5, <3>1 DEF KeptBefore
  <2>8. QED
    BY <2>1, <2>4, <2>6, <2>7 DEF SlotOK
<1>4. CASE Keep
  <2>1. /\ delivered # 0 /\ kept' = kept \cup {delivered}
        /\ UNCHANGED <<wal, confirmed, acked, delivered, status, server>>
    BY <1>4 DEF Keep, source
  <2>2. \A n : KeptBefore(n) => KeptBefore(n)'
    BY <2>1 DEF KeptBefore, WithRows
  <2>3. \A n \in kept' : KeptBefore(n)'
    BY <1>0, <2>1, <2>2 DEF SlotOK
  <2>4. QED
    BY <1>0, <2>1, <2>2, <2>3 DEF SlotOK, KeptUpTo, WithRows
<1>5. CASE Acknowledge
  <2>1. /\ delivered \in kept /\ acked' = wal[delivered].end
        /\ UNCHANGED <<wal, confirmed, kept, delivered, status, server>>
    BY <1>5 DEF Acknowledge, Acknowledged, source
  <2>2. KeptUpTo(wal[delivered].end)
    BY <1>0, <2>1, KeptEnds DEF SlotOK
  <2>3. QED
    BY <1>0, <2>1, <2>2 DEF SlotOK, KeptUpTo, KeptBefore, WithRows
<1>6. CASE Feedback
  <2>1. confirmed' = acked /\ UNCHANGED <<wal, acked, kept, delivered, status, server>>
    BY <1>6 DEF Feedback, source, consumer
  <2>2. QED
    BY <1>0, <2>1 DEF SlotOK, KeptUpTo, KeptBefore, WithRows
<1>7. ASSUME NEW r \in Relations, SourceAlters(r) PROVE SlotOK'
  <2>1. UNCHANGED <<wal, confirmed, acked, kept, delivered, status, server>>
    BY <1>7 DEF SourceAlters, consumer
  <2>2. QED
    BY <1>0, <2>1, SlotFrame
<1>8. CASE Begin \/ Relation \/ RowRead
  <2>1. UNCHANGED <<wal, confirmed, acked, kept, delivered, status>>
    BY <1>8 DEF Begin, Relation, RowRead, source, consumer
  <2>2. Sends /\ Consumed /\ Message \in {"begin", "relation", "row"}
    BY <1>8 DEF Begin, Relation, RowRead, Reads
  <2>3. server'.tx = server.tx
    BY <1>0, <2>2, ConsumedEffect
  <2>4. QED
    BY <1>0, <2>1, <2>3, SlotFrame
<1>9. CASE Fails \/ Refused \/ Close
  <2>1. UNCHANGED <<wal, confirmed, acked, kept, delivered>> /\ status' # "open"
    BY <1>9 DEF Fails, Refused, Close, Poisoned, source, consumer
  <2>2. QED
    BY <1>0, <2>1, SlotFrame
<1>10. CASE UNCHANGED vars
  <2>1. UNCHANGED <<wal, confirmed, acked, kept, delivered, status, server>>
    BY <1>10 DEF vars, source, consumer
  <2>2. QED
    BY <1>0, <2>1, SlotFrame
<1>11. QED
  BY <1>1, <1>2, <1>3, <1>4, <1>5, <1>6, <1>7, <1>8, <1>9, <1>10 DEF Next

-------------------------------------------------------------------------------
LEMMA StreamInvariant == Spec => []IInv
<1>1. Init => IInv
  <2> SUFFICES ASSUME Init PROVE IInv
    OBVIOUS
  <2>1. wal = <<>> /\ Len(wal) = 0 /\ received = <<>> /\ Len(received) = 0 /\ kept = {}
    BY DEF Init
  <2>2. TypeOK
    <3>1. wal \in Seq(TxShape) /\ received \in Seq(ReturnShape)
      BY <2>1
    <3>2. server \in ServerShape
      BY PgBoundsAssumption DEF Init, Nothing, ServerShape
    <3>3. pending \in PendingShape /\ Len(pending.rows) = 0
      BY DEF Init, NoPending, PendingShape
    <3>4. QED
      BY <2>1, <3>1, <3>2, <3>3, PgBoundsAssumption, PgLimitsAssumption DEF Init, TypeOK
  <2>3. LastEnd = 1
    BY <2>1 DEF LastEnd
  <2>4. PositionsOK
    BY <2>3 DEF PositionsOK, Init
  <2>5. WalOK /\ RowsOK /\ SlotOK /\ StreamOK
    BY <2>1 DEF Init, WalOK, RowsOK, SlotOK, StreamOK, KeptUpTo
  <2>6. QED
    BY <2>2, <2>4, <2>5 DEF IInv
<1>2. IInv /\ [Next]_vars => IInv'
  BY StreamTypeStep, LogStep, StreamStep, RowsStep, SlotStep DEF IInv
<1>3. QED
  BY <1>1, <1>2, PTL DEF Spec

(* What was sent from the start on, in terms of positions.                 *)
LEMMA CompleteIsBefore ==
  ASSUME TypeOK, WalOK, NEW i \in 1..Len(wal)
  PROVE  i \in Complete <=> i < server.tx /\ start <= wal[i].commit
<1> DEFINE f == FirstFrom(start)
<1>1. start \in Nat /\ Len(wal) \in Nat /\ wal[i].commit \in Nat
  BY WalShape DEF TypeOK
<1>2. /\ f \in 1..Len(wal) + 1
      /\ \A j \in 1..f - 1 : wal[j].commit < start
      /\ f <= Len(wal) => wal[f].commit >= start
  BY <1>1, FirstFromFound
<1>3. f <= i => start <= wal[i].commit
  <2> SUFFICES ASSUME f <= i PROVE start <= wal[i].commit
    OBVIOUS
  <2> HIDE DEF f
  <2>1. f \in 1..Len(wal) /\ (f = i \/ f < i)
    BY <1>1, <1>2
  <2>2. wal[f].commit \in Nat /\ wal[f].end = wal[f].commit + 1
    BY <2>1, WalShape DEF WalOK
  <2>3. f < i => wal[f].end <= wal[i].commit
    BY <2>1 DEF WalOK
  <2>4. QED
    BY <1>1, <1>2, <2>1, <2>2, <2>3
<1>4. ~(f <= i) => wal[i].commit < start
  BY <1>1, <1>2
<1>5. QED
  BY <1>1, <1>3, <1>4 DEF Complete

(* push and next_transaction: a stream that has not failed has returned    *)
(* the transactions with rows that it was sent from its start on, all of   *)
(* them, in commit order, whole, each with its own cursor.                 *)
THEOREM WholeTransactionsHolds == Spec => []WholeTransactions
<1>1. IInv => WholeTransactions
  <2> SUFFICES ASSUME IInv, status = "open"
               PROVE  /\ \A k \in 1..Len(received) :
                            LET i == received[k].tx
                                rows == received[k].rows
                            IN  /\ i \in Complete /\ WithRows(i)
                                /\ received[k].cursor = wal[i].end
                                /\ Len(rows) = Len(wal[i].body)
                                /\ \A j \in 1..Len(rows) : rows[j].rel = wal[i].body[j].rel
                      /\ \A j, k \in 1..Len(received) : j < k => received[j].tx < received[k].tx
                      /\ \A i \in Complete : WithRows(i) =>
                            \E k \in 1..Len(received) : received[k].tx = i
    BY DEF WholeTransactions
  <2>1. TypeOK /\ WalOK /\ ReturnedOK
    BY DEF IInv, StreamOK
  <2>2. \A i \in 1..Len(wal) : Due(i) <=> i \in Complete /\ WithRows(i)
    BY <2>1, CompleteIsBefore DEF Due
  <2>3. Complete \subseteq 1..Len(wal)
    BY DEF Complete
  <2>4. QED
    BY <2>1, <2>2, <2>3 DEF ReturnedOK, ReturnOK
<1>2. QED
  BY <1>1, StreamInvariant, PTL

(* The Relation branch of push: a row is never decoded with a definition   *)
(* other than the one its table had when the row was written.              *)
THEOREM RowsMatchDefinitionHolds == Spec => []RowsMatchDefinition
<1>1. IInv => RowsMatchDefinition
  BY DEF IInv, RowsOK, RowsMatchDefinition
<1>2. QED
  BY <1>1, StreamInvariant, PTL

(* acknowledge and feedback: the slot holds every transaction with rows    *)
(* that the consumer has not made durable, over any number of failures and *)
(* of streams opened again.                                                *)
THEOREM SlotKeepsUnkeptHolds == Spec => []SlotKeepsUnkept
<1>1. IInv => SlotKeepsUnkept
  BY DEF IInv, SlotOK, KeptUpTo, SlotKeepsUnkept
<1>2. QED
  BY <1>1, StreamInvariant, PTL

===============================================================================
