------------------------- MODULE SourceSnapshotProofs -------------------------
(***************************************************************************)
(* The read view of a snapshot that is used is the source's state at its   *)
(* boundary, for every number of tables, keys and commits.                 *)
(*                                                                         *)
(* The argument: as long as the lock is really held nothing commits, so    *)
(* the position, the view and the definitions cannot drift apart; UNLOCK   *)
(* succeeds only if it was held to the end; and from then on the metadata  *)
(* locks keep the definitions of all tables as the view has them.          *)
(*                                                                         *)
(* The scan copies every row of the view once, for every table size and    *)
(* batch size: what is copied is at each moment exactly the rows up to the *)
(* place of the scan (table_index, last_key), and a batch shorter than its *)
(* limit is all the rest of its table.                                     *)
(***************************************************************************)
EXTENDS SourceSnapshot, FiniteSetTheorems, WellFoundedInduction, TLAPS

(* While the lock is held the boundary and the view are current.           *)
HeldIsCurrent ==
    lock = "held" =>
        /\ pc \in {"status", "pin", "unlock"} => boundary = commits
        /\ pc \in {"pin", "unlock"} => view.at = commits /\ view.schema = schema

(* From the last LIMIT 0 query to the end of the scan all tables are       *)
(* pinned.                                                                 *)
PinsKept == pc \in {"unlock"} \cup Scanning => pins = Table

(* Once the lock is confirmed the definitions are those of the view.       *)
Pinned ==
    /\ pc \in Scanning => view.schema = schema
    /\ pc \in Scanning \cup {"copied"} => boundary = view.at
    /\ pc \in {"scan", "copied"} => columns = view.schema

IInv == HeldIsCurrent /\ PinsKept /\ Pinned

(* The induction: no step of the source, of the lock or of the reader      *)
(* breaks IInv.                                                            *)
LEMMA StepKeepsIInv == IInv /\ [Next]_vars => IInv'
<1> SUFFICES ASSUME IInv, [Next]_vars PROVE IInv'
  OBVIOUS
<1> USE DEF IInv, HeldIsCurrent, PinsKept, Pinned, Scanning, Initialising
<1>1. ASSUME NEW t \in Table, NEW k \in Key, SourceWrite(t, k) PROVE IInv'
  BY <1>1 DEF SourceWrite, Commits, reader
<1>2. ASSUME NEW t \in Table, SourceAlter(t) PROVE IInv'
  BY <1>2 DEF SourceAlter, Commits, reader
<1>3. CASE LockExpires
  BY <1>3 DEF LockExpires, source, reader
<1>4. CASE AcquireLock
  BY <1>4 DEF AcquireLock, source, reader
<1>5. CASE ReadStatus
  BY <1>5 DEF ReadStatus, source
<1>6. CASE OpenView
  BY <1>6 DEF OpenView, source
<1>7. ASSUME NEW t \in Table, PinTable(t) PROVE IInv'
  <2>1. t = LastTable => pins' = Table
    BY <1>7, LastTableAssumption DEF PinTable, Table
  <2>2. /\ pc = "pin"
        /\ pc' = IF t = LastTable THEN "unlock" ELSE "pin"
        /\ UNCHANGED <<source, lock, reader>>
    BY <1>7 DEF PinTable
  <2>3. QED
    BY <2>1, <2>2 DEF source, reader
<1>8. CASE ReleaseLock
  BY <1>8 DEF ReleaseLock, source, reader
<1>9. CASE LoadColumns
  BY <1>9 DEF LoadColumns, source
<1>10. CASE Fails
  BY <1>10 DEF Fails, source
<1>11. CASE Restart
  BY <1>11 DEF Restart, source
<1>12. CASE NextBatch
  <2>1. UNCHANGED <<source, lock, pins, pc, boundary, view, columns>>
    BY <1>12 DEF NextBatch
  <2>2. QED
    BY <2>1 DEF source
<1>13. CASE ScanEnds
  BY <1>13 DEF ScanEnds, source, reader
<1>14. CASE UNCHANGED vars
  BY <1>14 DEF vars, source, reader
<1>15. QED
  BY <1>1, <1>2, <1>3, <1>4, <1>5, <1>6, <1>7, <1>8, <1>9, <1>10, <1>11, <1>12, <1>13, <1>14
     DEF Next, Reader

LEMMA InvariantHolds == Spec => []IInv
<1>1. Init => IInv
  BY DEF Init, IInv, HeldIsCurrent, PinsKept, Pinned, Scanning
<1>2. QED
  BY <1>1, StepKeepsIInv, PTL DEF Spec

(* snapshot(): whatever commits, alters a table or ends the connection     *)
(* with the lock, a snapshot that is scanned shows the source at its       *)
(* boundary.                                                               *)
THEOREM BoundaryIsViewHolds == Spec => []BoundaryIsView
<1>1. IInv => BoundaryIsView
  BY DEF IInv, Pinned, BoundaryIsView
<1>2. QED
  BY <1>1, InvariantHolds, PTL

(* load_columns, which runs after the unlock, sees the definitions the     *)
(* read view has.                                                          *)
THEOREM ColumnsMatchViewHolds == Spec => []ColumnsMatchView
<1>1. IInv => ColumnsMatchView
  BY DEF IInv, Pinned, ColumnsMatchView
<1>2. QED
  BY <1>1, InvariantHolds, PTL

-------------------------------------------------------------------------------
(* Least and greatest elements of sets of numbers.                         *)

Below == {p \in Nat \X Nat : p[1] < p[2]}

LEMMA LeastExists ==
  ASSUME NEW S \in SUBSET Nat, S # {}
  PROVE  \E m \in S : \A k \in S : m <= k
<1>1. IsWellFoundedOn(Below, Nat)
  BY NatLessThanWellFounded DEF OpToRel, Below
<1>2. PICK m \in S : \A k \in S : ~ (<<k, m>> \in Below)
  BY <1>1, WFMin
<1>3. ASSUME NEW k \in S, k < m PROVE FALSE
  <2>1. <<k, m>> \in Nat \X Nat /\ <<k, m>>[1] < <<k, m>>[2]
    BY <1>3
  <2>2. QED
    BY <1>2, <2>1 DEF Below
<1>4. QED
  BY <1>3, <1>2

LEMMA GreatestExists ==
  ASSUME NEW n \in Nat, NEW S \in SUBSET (0..n), S # {}
  PROVE  \E m \in S : \A k \in S : k <= m
<1> DEFINE D == {n - k : k \in S}
<1>1. D \in SUBSET Nat /\ D # {}
  <2>1. \A k \in S : k \in Int /\ 0 <= k /\ k <= n
    OBVIOUS
  <2>2. \A k \in S : n - k \in Nat
    BY <2>1
  <2>3. QED
    BY <2>2
<1>2. PICK d \in D : \A e \in D : d <= e
  BY <1>1, LeastExists
<1>3. PICK m \in S : d = n - m
  OBVIOUS
<1>4. ASSUME NEW k \in S PROVE k <= m
  <2>1. n - k \in D
    OBVIOUS
  <2>2. n - m <= n - k
    BY <2>1, <1>2, <1>3
  <2>3. QED
    BY <2>2
<1>5. QED
  BY <1>4

-------------------------------------------------------------------------------
(* What one query of next_batch returns.                                   *)

(* The rows of the scanned table that are still to come.                   *)
Rest == {k \in view.rows[table] : last < k}

LEMMA BatchInRest == Batch \subseteq Rest
  BY DEF Batch, Rest

LEMMA RestFinite ==
  ASSUME TypeOK, table \in Table, NEW S \in SUBSET Rest
  PROVE  /\ S \in SUBSET Key
         /\ S \in SUBSET Nat
         /\ S \in SUBSET (0..LastKey)
         /\ IsFiniteSet(S)
         /\ Cardinality(S) \in Nat
<1>1. S \in SUBSET Key
  BY DEF TypeOK, Contents, Rest
<1>2. IsFiniteSet(Key)
  BY FS_Interval, LastKeyAssumption DEF Key
<1>3. IsFiniteSet(S)
  BY <1>1, <1>2, FS_Subset
<1>4. QED
  BY <1>1, <1>3, FS_CardinalityType, LastKeyAssumption DEF Key

(* ORDER BY key LIMIT n returns the lowest of the remaining keys.          *)
LEMMA BatchIsPrefix ==
  ASSUME TypeOK, table \in Table, NEW k \in Batch, NEW j \in Rest, j < k
  PROVE  j \in Batch
<1> DEFINE Under(x) == {i \in Rest : i < x}
<1>1. Under(j) \in SUBSET Under(k)
  <2>1. k \in Rest
    BY BatchInRest
  <2>2. Rest \in SUBSET Nat
    BY RestFinite
  <2>3. \A i \in Rest : i < j => i < k
    BY <2>1, <2>2
  <2>4. QED
    BY <2>3
<1>2. /\ IsFiniteSet(Under(k))
      /\ Cardinality(Under(k)) \in Nat
      /\ Cardinality(Under(j)) \in Nat
  BY RestFinite
<1>3. Cardinality(Under(j)) <= Cardinality(Under(k))
  BY <1>1, <1>2, FS_Subset
<1>4. Cardinality(Under(k)) < BatchRows
  BY DEF Batch, Rest
<1>5. Cardinality(Under(j)) < BatchRows
  BY <1>2, <1>3, <1>4, BatchRowsAssumption
<1>6. QED
  BY <1>5 DEF Batch, Rest

(* A batch below the limit is the rest of the table.                       *)
LEMMA ShortBatchIsRest ==
  ASSUME TypeOK, table \in Table, LastInTable(Batch)
  PROVE  Batch = Rest
<1> SUFFICES ASSUME Rest \ Batch # {} PROVE FALSE
  BY BatchInRest
<1>1. Rest \ Batch \in SUBSET Nat
  BY RestFinite
<1>2. PICK k \in Rest \ Batch : \A i \in Rest \ Batch : k <= i
  BY <1>1, LeastExists
<1> DEFINE Under == {i \in Rest : i < k}
<1>3. Under \in SUBSET Batch
  <2>1. Rest \in SUBSET Nat
    BY RestFinite
  <2>2. \A i \in Rest : i < k => i \in Batch
    BY <1>2, <2>1
  <2>3. QED
    BY <2>2
<1>4. /\ IsFiniteSet(Batch)
      /\ Cardinality(Batch) \in Nat
      /\ Cardinality(Under) \in Nat
  <2>1. Batch \in SUBSET Rest /\ Under \in SUBSET Rest
    BY BatchInRest
  <2>2. QED
    BY <2>1, RestFinite
<1>5. Cardinality(Under) <= Cardinality(Batch)
  BY <1>3, <1>4, FS_Subset
<1>6. Cardinality(Under) < BatchRows
  BY <1>4, <1>5, BatchRowsAssumption DEF LastInTable
<1>7. k \in Batch
  BY <1>6 DEF Batch, Rest
<1>8. QED
  BY <1>7

(* A batch at the limit has a last key, from which the next query goes on. *)
LEMMA FullBatchHasHighest ==
  ASSUME TypeOK, table \in Table, ~LastInTable(Batch)
  PROVE  /\ Highest(Batch) \in Batch
         /\ \A j \in Batch : j <= Highest(Batch)
<1>1. Batch \in SUBSET Rest
  BY BatchInRest
<1>2. Batch \in SUBSET (0..LastKey) /\ Cardinality(Batch) \in Nat
  BY <1>1, RestFinite
<1>3. Batch # {}
  <2>1. Cardinality(Batch) # 0
    BY <1>2, BatchRowsAssumption DEF LastInTable
  <2>2. QED
    BY <2>1, FS_EmptySet
<1>4. \E m \in Batch : \A k \in Batch : k <= m
  BY <1>2, <1>3, GreatestExists, LastKeyAssumption
<1>5. QED
  BY <1>4 DEF Highest

-------------------------------------------------------------------------------
(* The scan.                                                               *)

(* The scan is past row k of table t.                                      *)
Through(t, k) ==
    /\ k \in view.rows[t]
    /\ t < table \/ (t = table /\ k <= last)

(* Outside the scan nothing is copied and it has not begun; in the scan    *)
(* what is copied is what it is past, once; it ends past the last table.   *)
ScanOK ==
    /\ pc \notin {"scan", "copied"} => copied = Nothing
    /\ pc \notin {"scan", "copied", "failed"} => table = 1 /\ last = 0
    /\ pc \in {"scan", "copied"} =>
          \A t \in Table, k \in Key : copied[t][k] = IF Through(t, k) THEN 1 ELSE 0
    /\ pc = "copied" => table = LastTable + 1

(* A definition changes at most once per commit.                           *)
Altered == \A t \in Table : schema[t] <= commits

ScanInv == TypeOK /\ Altered /\ ScanOK

LEMMA ScanTypeStep == TypeOK /\ Altered /\ [Next]_vars => TypeOK' /\ Altered'
<1> SUFFICES ASSUME TypeOK, Altered, [Next]_vars PROVE TypeOK' /\ Altered'
  OBVIOUS
<1> USE LastTableAssumption, LastKeyAssumption, MaxCommitsAssumption
    DEF TypeOK, Altered, Contents, Definitions, Scanning, Initialising
<1>1. ASSUME NEW t \in Table, NEW k \in Key, SourceWrite(t, k) PROVE TypeOK' /\ Altered'
  BY <1>1 DEF SourceWrite, Commits, reader
<1>2. ASSUME NEW t \in Table, SourceAlter(t) PROVE TypeOK' /\ Altered'
  BY <1>2 DEF SourceAlter, Commits, reader
<1>3. CASE LockExpires
  BY <1>3 DEF LockExpires, source, reader
<1>4. CASE AcquireLock
  BY <1>4 DEF AcquireLock, source, reader
<1>5. CASE ReadStatus
  BY <1>5 DEF ReadStatus, source
<1>6. CASE OpenView
  BY <1>6 DEF OpenView, source
<1>7. ASSUME NEW t \in Table, PinTable(t) PROVE TypeOK' /\ Altered'
  BY <1>7 DEF PinTable, source, reader
<1>8. CASE ReleaseLock
  BY <1>8 DEF ReleaseLock, source, reader
<1>9. CASE LoadColumns
  BY <1>9 DEF LoadColumns, source
<1>10. CASE Fails
  BY <1>10 DEF Fails, source, Nothing
<1>11. CASE Restart
  BY <1>11 DEF Restart, source, NoView, Fresh, Table
<1>12. CASE NextBatch
  <2>1. copied' \in [Table -> [Key -> Nat]]
    BY <1>12 DEF NextBatch
  <2>2. table' \in 1..LastTable + 1
    BY <1>12 DEF NextBatch, Table
  <2>3. last' \in 0..LastKey
    <3>1. CASE LastInTable(Batch)
      BY <3>1, <1>12 DEF NextBatch
    <3>2. CASE ~LastInTable(Batch)
      <4>1. Highest(Batch) \in Key
        <5>1. Highest(Batch) \in Batch
          BY <1>12, <3>2, FullBatchHasHighest DEF NextBatch
        <5>2. Batch \subseteq Key
          BY <1>12, BatchInRest, RestFinite DEF NextBatch
        <5>3. QED
          BY <5>1, <5>2
      <4>2. QED
        BY <4>1, <3>2, <1>12 DEF NextBatch, Key
    <3>3. QED
      BY <3>1, <3>2
  <2>4. UNCHANGED <<source, lock, pins, pc, boundary, view, columns>>
    BY <1>12 DEF NextBatch
  <2>5. QED
    BY <2>1, <2>2, <2>3, <2>4 DEF source
<1>13. CASE ScanEnds
  BY <1>13 DEF ScanEnds, source, reader
<1>14. CASE UNCHANGED vars
  BY <1>14 DEF vars, source, reader
<1>15. QED
  BY <1>1, <1>2, <1>3, <1>4, <1>5, <1>6, <1>7, <1>8, <1>9, <1>10, <1>11, <1>12, <1>13, <1>14
     DEF Next, Reader

(* A batch moves the scan exactly past the rows it holds.                  *)
LEMMA BatchMoves ==
  ASSUME TypeOK, NextBatch, NEW t \in Table, NEW k \in Key
  PROVE  /\ Through(t, k)' <=> Through(t, k) \/ (t = table /\ k \in Batch)
         /\ ~(Through(t, k) /\ t = table /\ k \in Batch)
<1>1. /\ table \in Table
      /\ view' = view
      /\ table' = IF LastInTable(Batch) THEN table + 1 ELSE table
      /\ last' = IF LastInTable(Batch) THEN 0 ELSE Highest(Batch)
  BY DEF NextBatch
<1>2. t \in Nat /\ table \in Nat /\ k \in Nat \ {0} /\ last \in Nat
  BY <1>1, LastTableAssumption, LastKeyAssumption DEF Table, Key, TypeOK
<1>3. k \in Batch => k \in view.rows[table] /\ last < k
  BY BatchInRest DEF Rest
<1>4. CASE LastInTable(Batch)
  <2>1. k \in Batch <=> k \in view.rows[table] /\ last < k
    BY <1>1, <1>4, ShortBatchIsRest DEF Rest
  <2>2. table' = table + 1 /\ last' = 0
    BY <1>1, <1>4
  <2>3. QED
    BY <1>1, <1>2, <2>1, <2>2 DEF Through
<1>5. CASE ~LastInTable(Batch)
  <2>1. /\ Highest(Batch) \in Batch
        /\ \A j \in Batch : j <= Highest(Batch)
    BY <1>1, <1>5, FullBatchHasHighest
  <2>2. Highest(Batch) \in Nat /\ last < Highest(Batch)
    <3>1. Highest(Batch) \in Rest
      BY <2>1, BatchInRest
    <3>2. Rest \in SUBSET Nat
      BY <1>1, RestFinite
    <3>3. QED
      BY <3>1, <3>2 DEF Rest
  <2>3. k \in view.rows[table] /\ last < k => (k \in Batch <=> k <= Highest(Batch))
    <3>1. k \in Rest /\ k < Highest(Batch) => k \in Batch
      BY <1>1, <2>1, BatchIsPrefix
    <3>2. k <= Highest(Batch) => k < Highest(Batch) \/ k = Highest(Batch)
      BY <1>2, <2>2
    <3>3. QED
      BY <2>1, <3>1, <3>2 DEF Rest
  <2>4. table' = table /\ last' = Highest(Batch)
    BY <1>1, <1>5
  <2>5. QED
    BY <1>1, <1>2, <1>3, <2>2, <2>3, <2>4 DEF Through
<1>6. QED
  BY <1>4, <1>5

LEMMA ScanStep == ScanInv /\ [Next]_vars => ScanOK'
<1> SUFFICES ASSUME ScanInv, [Next]_vars PROVE ScanOK'
  OBVIOUS
<1>0. TypeOK /\ ScanOK
  BY DEF ScanInv
<1> USE DEF ScanOK, Through
<1>1. ASSUME NEW t \in Table, NEW k \in Key, SourceWrite(t, k) PROVE ScanOK'
  BY <1>0, <1>1 DEF SourceWrite, reader
<1>2. ASSUME NEW t \in Table, SourceAlter(t) PROVE ScanOK'
  BY <1>0, <1>2 DEF SourceAlter, reader
<1>3. CASE LockExpires
  BY <1>0, <1>3 DEF LockExpires, reader
<1>4. CASE AcquireLock
  BY <1>0, <1>4 DEF AcquireLock, reader
<1>5. CASE ReadStatus
  BY <1>0, <1>5 DEF ReadStatus
<1>6. CASE OpenView
  BY <1>0, <1>6 DEF OpenView
<1>7. ASSUME NEW t \in Table, PinTable(t) PROVE ScanOK'
  BY <1>0, <1>7 DEF PinTable, reader
<1>8. CASE ReleaseLock
  BY <1>0, <1>8 DEF ReleaseLock, reader
<1>9. CASE LoadColumns
  <2>1. \A t \in Table, k \in Key : ~(t < 1 \/ (t = 1 /\ k <= 0))
    BY DEF Table, Key
  <2>2. \A t \in Table, k \in Key : copied'[t][k] = 0 /\ ~Through(t, k)'
    BY <1>0, <1>9, <2>1 DEF LoadColumns, Nothing
  <2>3. QED
    BY <2>2, <1>9 DEF LoadColumns
<1>10. CASE Fails
  BY <1>0, <1>10 DEF Fails, Scanning, Initialising
<1>11. CASE Restart
  BY <1>0, <1>11 DEF Restart
<1>12. CASE NextBatch
  <2>1. \A t \in Table, k \in Key :
           copied'[t][k] = IF t = table /\ k \in Batch THEN copied[t][k] + 1 ELSE copied[t][k]
    BY <1>0, <1>12 DEF NextBatch, TypeOK
  <2>2. \A t \in Table, k \in Key : copied[t][k] = IF Through(t, k) THEN 1 ELSE 0
    BY <1>0, <1>12 DEF NextBatch
  <2>3. \A t \in Table, k \in Key :
           /\ Through(t, k)' <=> Through(t, k) \/ (t = table /\ k \in Batch)
           /\ ~(Through(t, k) /\ t = table /\ k \in Batch)
    BY <1>0, <1>12, BatchMoves
  <2>4. \A t \in Table, k \in Key : copied'[t][k] = IF Through(t, k)' THEN 1 ELSE 0
    <3> HIDE DEF Through
    <3>1. QED
      BY <2>1, <2>2, <2>3
  <2>5. pc = "scan" /\ pc' = "scan"
    BY <1>12 DEF NextBatch
  <2>6. QED
    BY <2>4, <2>5
<1>13. CASE ScanEnds
  BY <1>0, <1>13 DEF ScanEnds, reader
<1>14. CASE UNCHANGED vars
  BY <1>0, <1>14 DEF vars, reader
<1>15. QED
  BY <1>1, <1>2, <1>3, <1>4, <1>5, <1>6, <1>7, <1>8, <1>9, <1>10, <1>11, <1>12, <1>13, <1>14
     DEF Next, Reader

LEMMA ScanInvariant == Spec => []ScanInv
<1>1. Init => ScanInv
  BY LastTableAssumption, LastKeyAssumption, MaxCommitsAssumption
     DEF Init, ScanInv, TypeOK, Altered, ScanOK, Contents, Definitions, Initialising, Nothing,
         Fresh, NoView, Table
<1>2. ScanInv /\ [Next]_vars => ScanInv'
  BY ScanTypeStep, ScanStep DEF ScanInv
<1>3. QED
  BY <1>1, <1>2, PTL DEF Spec

(* next_batch: whatever the sizes of the tables and of the batches, a copy *)
(* that commits holds every row of the read view once and no other.        *)
THEOREM ScanCompleteHolds == Spec => []ScanComplete
<1>1. ScanInv => ScanComplete
  <2> SUFFICES ASSUME ScanInv, pc = "copied", NEW t \in Table
               PROVE  copied[t] = [k \in Key |-> IF k \in view.rows[t] THEN 1 ELSE 0]
    BY DEF ScanComplete
  <2>1. t < table
    BY LastTableAssumption DEF ScanInv, ScanOK, Table
  <2>2. \A k \in Key : copied[t][k] = IF k \in view.rows[t] THEN 1 ELSE 0
    BY <2>1, LastTableAssumption DEF ScanInv, ScanOK, Through, Table
  <2>3. copied[t] \in [Key -> Nat]
    BY DEF ScanInv, TypeOK
  <2>4. QED
    BY <2>2, <2>3
<1>2. QED
  BY <1>1, ScanInvariant, PTL
===============================================================================
