--------------------------- MODULE SinkApplyProofs ---------------------------
(***************************************************************************)
(* What a sink has committed, for every table, every transaction and       *)
(* whatever other clients of the sink do.                                  *)
(*                                                                         *)
(* The argument: a statement that is accepted has the effect of its change *)
(* on a row that was where the change expects it, and its first touch of a *)
(* row keeps what undo needs; so what is committed stays, and the pages    *)
(* are what the statements so far make of it.  Others write only rows the  *)
(* transaction has not named: such a write might have come before the      *)
(* transaction, and it changes nothing that was compared.  In a sink that  *)
(* is left alone the pages follow the source's own tables, where every     *)
(* change applies.                                                         *)
(***************************************************************************)
EXTENDS SinkApply, FiniteSetTheorems, WellFoundedInduction, TLAPS

-------------------------------------------------------------------------------
(* The invariant.                                                          *)

Undos == UNION {[held -> Values \cup {Absent}] : held \in SUBSET Keys}
Shape == [copy : BOOLEAN, changes : Seq(Changes), at : Nat, undo : Undos]

Typed ==
    /\ route.source \in {"mysql", "postgresql"} /\ route.sink \in {"mysql", "postgresql"}
    /\ route.carrier \in BOOLEAN /\ route.generated \in BOOLEAN
    /\ route.generated => route.source = "mysql"
    /\ base \in Mirror!Tables /\ rows \in Mirror!Tables
    /\ waiting \in Seq(Seq(Changes))
    /\ phase \in {"snapshot", "incremental"}
    /\ schema \in Definitions
    /\ made \in 0..MaxChanges /\ others \in 0..MaxOthers /\ refused \in BOOLEAN
    /\ tx = NoTx \/ tx \in Shape

(* The change names the row of key k.                                      *)
Names(c, k) == k = c.key \/ k = c.newKey

(* An open transaction: its tables are checked before its first statement, *)
(* what it has changed is locked, and a copy has only added rows.          *)
Open ==
    tx # NoTx =>
        /\ tx.at <= Len(tx.changes) + 1
        /\ IF tx.copy
           THEN phase = "snapshot" /\ \A i \in 1..Len(tx.changes) : tx.changes[i].op = "insert"
           ELSE phase = "incremental" /\ waiting # << >> /\ tx.changes = Head(waiting)
        /\ tx.at = 0 => tx.undo = << >>
        /\ tx.at > 0 => schema \notin {"trigger", "engine"}
        /\ \A i \in 1..tx.at - 1, k \in Keys : Names(tx.changes[i], k) => k \in DOMAIN tx.undo
        /\ tx.copy => \A k \in DOMAIN tx.undo : tx.undo[k] = Absent

(* during[i] is the table after i of the changes; e says that the column   *)
(* keeps what is written to it.                                            *)
Path(during, changes, n, e) ==
    \A i \in 1..n :
        /\ Mirror!Applicable(during[i - 1], changes[i])
        /\ \E v \in IF e THEN {changes[i].value} ELSE Values :
              during[i] = Mirror!Effect(during[i - 1], changes[i], v)

Exact == route.carrier \/ schema # "lossy"

(* Whatever others have written meanwhile, the pages are what the          *)
(* statements so far make of what is committed.                            *)
Progress ==
    tx # NoTx /\ ~ tx.copy /\ tx.at > 0 =>
        \E during \in [0..tx.at - 1 -> Mirror!Tables] :
            /\ during[0] = Committed
            /\ during[tx.at - 1] = rows
            /\ Path(during, tx.changes, tx.at - 1, Exact)

Compared(k, v) ==
    /\ k \in DOMAIN rows
    /\ route.carrier => rows[k] = v
    /\ route.sink = "postgresql" /\ route.generated =>
           Generated(schema, rows[k]) = Generated("plain", v)

(* What a statement left is as it was compared until the next statement    *)
(* that names the row.                                                     *)
Verified ==
    tx # NoTx /\ ~ tx.copy =>
        \A i \in 1..tx.at - 1 :
            /\ tx.changes[i].op # "delete" /\ ~ tx.changes[i].keeps
            /\ \A j \in i + 1..tx.at - 1 : ~ Names(tx.changes[j], tx.changes[i].newKey)
            => Compared(tx.changes[i].newKey, tx.changes[i].value)

IInv == Typed /\ Open /\ Progress /\ Verified

(* The changes, each of which applies, lead from table t to table u; and   *)
(* so do the transactions.                                                 *)
Walk(during, changes, n) ==
    \A i \in 1..n :
        /\ Mirror!Applicable(during[i - 1], changes[i])
        /\ during[i] = Mirror!Effect(during[i - 1], changes[i], changes[i].value)

Leads(t, changes, u) ==
    \E during \in [0..Len(changes) -> Mirror!Tables] :
        during[0] = t /\ during[Len(changes)] = u /\ Walk(during, changes, Len(changes))

Chain(t, transactions, u) ==
    \E d \in [0..Len(transactions) -> Mirror!Tables] :
        /\ d[0] = t /\ d[Len(transactions)] = u
        /\ \A i \in 1..Len(transactions) : Leads(d[i - 1], transactions[i], d[i])

Unkept(changes) == \A i \in 1..Len(changes) : ~ changes[i].keeps

(* The copy under way has the first rows of what the source held at its    *)
(* read view; what waits has happened since.                               *)
CopyUnderWay ==
    \E t \in Mirror!Tables : \E keys \in Ascending(t) :
        /\ tx.changes = CopyOf(t, keys)
        /\ rows = [k \in {keys[j] : j \in 1..tx.at - 1} |-> t[k]]
        /\ Chain(t, waiting, base)

(* A sink that nobody else touches.                                        *)
Alone ==
    others = 0 =>
        /\ schema = "plain" /\ refused = FALSE
        /\ phase = "incremental" => Chain(Committed, waiting, base)
        /\ phase = "snapshot" /\ tx = NoTx => DOMAIN rows = {}
        /\ phase = "snapshot" /\ tx # NoTx => CopyUnderWay
        /\ route.generated => \A i \in 1..Len(waiting) : Unkept(waiting[i])

-------------------------------------------------------------------------------
(* Tables.                                                                 *)

(* A function from keys to values is a table.                              *)
LEMMA TableIntro ==
    ASSUME NEW f, NEW D \in SUBSET Keys, f \in [D -> Values]
    PROVE  f \in Mirror!Tables
BY DEF Mirror!Tables

(* What a table holds.                                                     *)
LEMMA TableElim ==
    ASSUME NEW f \in Mirror!Tables
    PROVE  /\ DOMAIN f \subseteq Keys
           /\ f \in [DOMAIN f -> Values]
           /\ \A k \in DOMAIN f : f[k] \in Values /\ f[k] \in Nat /\ f[k] # Absent
BY SinkAssumption DEF Mirror!Tables, Absent

(* The empty table.                                                        *)
LEMMA EmptyTable == << >> \in Mirror!Tables
<1>1. << >> \in [{} -> Values]
    OBVIOUS
<1>. QED BY <1>1, TableIntro

(* Putting rows in and taking them out keeps a table a table.              *)
LEMMA PutTable ==
    ASSUME NEW f \in Mirror!Tables, NEW k \in Keys, NEW v \in Values
    PROVE  Mirror!Put(f, k, v) \in Mirror!Tables
<1>1. Mirror!Put(f, k, v) \in [DOMAIN f \cup {k} -> Values]
    BY TableElim DEF Mirror!Put
<1>. QED BY <1>1, TableElim, TableIntro

(* Part of a table is a table.                                             *)
LEMMA RestrictTable ==
    ASSUME NEW f \in Mirror!Tables, NEW D \in SUBSET DOMAIN f
    PROVE  Restrict(f, D) \in Mirror!Tables
<1>1. Restrict(f, D) \in [D -> Values]
    BY TableElim DEF Restrict
<1>. QED BY <1>1, TableElim, TableIntro

-------------------------------------------------------------------------------
(* Changes, and the statements planned for them.                           *)

Below == {pair \in Nat \X Nat : pair[1] < pair[2]}

(* A set of natural numbers that is not empty has a least one.             *)
LEMMA LeastExists ==
    ASSUME NEW S \in SUBSET Nat, S # {}
    PROVE  \E m \in S : \A k \in S : m <= k
<1>1. IsWellFoundedOn(Below, Nat)
    BY NatLessThanWellFounded DEF OpToRel, Below
<1>2. PICK m \in S : \A k \in S : ~ (<<k, m>> \in Below)
    BY <1>1, WFMin
<1>3. ASSUME NEW k \in S, k < m PROVE FALSE
  <2>1. <<k, m>> \in Nat \X Nat /\ <<k, m>>[1] < <<k, m>>[2]
    BY <1>3
  <2>. QED BY <1>2, <2>1 DEF Below
<1>. QED BY <1>3

(* What a lossy column stores is a value.                                  *)
LEMMA LeastValue == Least \in Values
<1>1. \E m \in Values : \A k \in Values : m <= k
    BY SinkAssumption, LeastExists
<1>. QED BY <1>1 DEF Least

(* The parts of a change.                                                  *)
LEMMA ChangeFields ==
    ASSUME NEW c \in Changes
    PROVE  /\ c.op \in {"insert", "delete", "update"}
           /\ c.key \in Keys /\ c.newKey \in Keys
           /\ c.value \in Values /\ c.keeps \in BOOLEAN
           /\ c.op # "update" => c.newKey = c.key /\ ~ c.keeps
<1>. DEFINE Goal ==
           /\ c.op \in {"insert", "delete", "update"}
           /\ c.key \in Keys /\ c.newKey \in Keys
           /\ c.value \in Values /\ c.keeps \in BOOLEAN
           /\ c.op # "update" => c.newKey = c.key /\ ~ c.keeps
<1>1. ASSUME NEW k \in Keys, NEW v \in Values, c = Change("insert", k, k, v, FALSE) PROVE Goal
    BY <1>1 DEF Change
<1>2. ASSUME NEW k \in Keys, c = Change("delete", k, k, Least, FALSE) PROVE Goal
    BY <1>2, LeastValue DEF Change
<1>3. ASSUME NEW k \in Keys, NEW n \in Keys, NEW v \in Values, NEW b \in BOOLEAN,
             c = Change("update", k, n, v, b)
      PROVE  Goal
    BY <1>3 DEF Change
<1>4. \/ \E k \in Keys, v \in Values : c = Change("insert", k, k, v, FALSE)
      \/ \E k \in Keys : c = Change("delete", k, k, Least, FALSE)
      \/ \E k \in Keys, n \in Keys, v \in Values : c = Change("update", k, n, v, FALSE)
      \/ \E k \in Keys, n \in Keys : c = Change("update", k, n, Least, TRUE)
    BY SMT DEF Changes, Change
<1>. HIDE DEF Goal
<1>5. Goal
    BY <1>1, <1>2, <1>3, <1>4, LeastValue, Zenon
<1>. QED BY <1>5 DEF Goal

(* The columns a statement sets: the key, and the value unless it is kept. *)
LEMMA WrittenColumns ==
    ASSUME NEW c \in Changes, NEW sets, sets = Writable(AfterImage(c))
    PROVE  /\ sets.key = c.newKey
           /\ "value" \in DOMAIN sets <=> ~ c.keeps
           /\ ~ c.keeps => sets.value = c.value
<1>1. c.newKey # Absent /\ c.value # Absent
    BY ChangeFields, SinkAssumption DEF Absent
<1>. DEFINE image == AfterImage(c)
            columns == {column \in DOMAIN image : image[column] # Absent}
<1>2. DOMAIN image = {"key", "value"} /\ image["key"] = c.newKey
      /\ image["value"] = IF c.keeps THEN Absent ELSE c.value
    BY DEF AfterImage
<1>3. columns = IF c.keeps THEN {"key"} ELSE {"key", "value"}
  <2>. HIDE DEF image
  <2>. QED BY <1>1, <1>2
<1>4. sets = [column \in columns |-> image[column]]
    BY DEF Writable, Restrict
<1>. HIDE DEF image, columns
<1>5. DOMAIN sets = columns /\ sets["key"] = image["key"]
      /\ (~ c.keeps => sets["value"] = image["value"])
    BY <1>3, <1>4
<1>. QED BY <1>2, <1>3, <1>5

(* Both sinks plan the statement and the probe of the change.              *)
LEMMA StatementOf ==
    ASSUME NEW c \in Changes, tx.copy = FALSE, route.sink \in {"mysql", "postgresql"}
    PROVE  /\ Planned(c).statement.op = c.op
           /\ Planned(c).statement.where = c.key
           /\ c.op # "delete" => Planned(c).statement.sets = Writable(AfterImage(c))
           /\ Planned(c).probe = IF c.op = "insert" THEN {} ELSE {c.key}
<1>1. CASE route.sink = "mysql"
  <2>1. Planned(c) = MySqlPlanned(c)
    BY <1>1 DEF Planned
  <2>. QED BY <2>1 DEF MySqlPlanned, MySqlWriteChange, MySqlProbe
<1>2. CASE route.sink = "postgresql"
  <2>1. Planned(c) = PgPlanned(c)
    BY <1>2 DEF Planned
  <2>. QED BY <2>1 DEF PgPlanned, PgRenderChange, PgProbe
<1>. QED BY <1>1, <1>2

(* A row of the copy is inserted.                                          *)
LEMMA InsertOf ==
    ASSUME NEW c \in Changes, tx.copy = TRUE
    PROVE  /\ Planned(c).statement.op = "insert"
           /\ Planned(c).statement.where = c.key
           /\ Planned(c).statement.sets = Writable(AfterImage(c))
<1>1. Planned(c) = SnapshotSql(c)
    BY DEF Planned
<1>. QED BY <1>1 DEF SnapshotSql

-------------------------------------------------------------------------------
(* What a statement that is accepted has done.                             *)

(* What both sinks have checked when a statement is accepted.              *)
LEMMA AcceptedChecks ==
    ASSUME tx.copy = FALSE, route.sink \in {"mysql", "postgresql"},
           NEW c, Accepted(c),
           NEW after, after = Executed(Planned(c).statement)
    PROVE  /\ Planned(c).probe \subseteq DOMAIN rows
           /\ ~ Duplicate(Planned(c).statement)
           /\ ~ Complains(Planned(c).statement)
           /\ \A look \in Planned(c).readbacks :
                 look.key \in DOMAIN after /\ after[look.key] = look.value
           /\ route.sink = "postgresql" => \A look \in Planned(c).verification :
                 look.key \in DOMAIN after /\ Generated(schema, after[look.key]) = look.value
<1>1. CASE route.sink = "mysql"
  <2>1. MySqlExecutes(Planned(c))
    BY <1>1 DEF Accepted
  <2>. QED BY <1>1, <2>1 DEF MySqlExecutes, MySqlReadsBack
<1>2. CASE route.sink = "postgresql"
  <2>1. PgExecutes(Planned(c))
    BY <1>2 DEF Accepted
  <2>. QED BY <2>1 DEF PgExecutes, PgReadsBack
<1>. QED BY <1>1, <1>2

(* What is looked at after a statement that writes the value.              *)
LEMMA Reads ==
    ASSUME tx.copy = FALSE, route.sink \in {"mysql", "postgresql"},
           NEW c \in Changes, c.op # "delete", ~ c.keeps
    PROVE  /\ route.carrier => Look(c.newKey, c.value) \in Planned(c).readbacks
           /\ route.sink = "postgresql" /\ route.generated =>
                  Look(c.newKey, Generated("plain", c.value)) \in Planned(c).verification
<1>1. AfterImage(c).value # Absent
    BY ChangeFields, SinkAssumption DEF AfterImage, Absent
<1>2. CASE route.sink = "mysql"
  <2>1. Planned(c) = MySqlPlanned(c)
    BY <1>2 DEF Planned
  <2>. QED BY <1>1, <1>2, <2>1 DEF MySqlPlanned, MySqlReadbacks
<1>3. CASE route.sink = "postgresql"
  <2>1. Planned(c) = PgPlanned(c)
    BY <1>3 DEF Planned
  <2>. QED BY <1>1, <2>1 DEF PgPlanned, PgCarrierReadbacks, PgVerification
<1>. QED BY <1>2, <1>3

(* What the column stores of a value is a value.                           *)
LEMMA StoredValue ==
    ASSUME NEW v \in Values
    PROVE  StoredAs(v) \in Values
BY LeastValue DEF StoredAs

(* The statement has the change's effect where there is a row to change.   *)
LEMMA ExecutedEffect ==
    ASSUME Typed, tx.copy = FALSE, NEW c \in Changes, c.op # "insert" => c.key \in DOMAIN rows
    PROVE  Executed(Planned(c).statement) = Mirror!Effect(rows, c, StoredAs(c.value))
<1>. DEFINE s == Planned(c).statement
<1>1. /\ s.op = c.op /\ s.where = c.key
      /\ c.op # "delete" => s.sets = Writable(AfterImage(c))
    BY StatementOf DEF Typed
<1>2. c.op # "delete" =>
        /\ s.sets.key = c.newKey
        /\ "value" \in DOMAIN s.sets <=> ~ c.keeps
        /\ ~ c.keeps => s.sets.value = c.value
    BY <1>1, WrittenColumns
<1>. HIDE DEF s
<1>3. CASE c.op = "delete"
    BY <1>1, <1>3 DEF Executed, Mirror!Effect, Restrict, Mirror!Restrict, s
<1>4. CASE c.op # "delete" /\ c.keeps
  <2>1. c.op = "update" /\ c.key \in DOMAIN rows
    BY <1>4, ChangeFields
  <2>. QED BY <1>1, <1>2, <1>4, <2>1 DEF Executed, Mirror!Effect, Restrict, Mirror!Restrict, s
<1>5. CASE c.op # "delete" /\ ~ c.keeps
  <2>1. ~ (s.op = "delete" \/ (s.op = "update" /\ s.where \notin DOMAIN rows))
    BY <1>1, <1>5
  <2>. QED BY <1>1, <1>2, <1>5, <2>1 DEF Executed, Mirror!Effect, Restrict, Mirror!Restrict, s
<1>. QED BY <1>3, <1>4, <1>5

(* What is accepted applies, and has its effect.                           *)
LEMMA AcceptedEffect ==
    ASSUME Typed, tx.copy = FALSE, NEW c \in Changes, Accepted(c)
    PROVE  /\ Mirror!Applicable(rows, c)
           /\ Executed(Planned(c).statement) = Mirror!Effect(rows, c, StoredAs(c.value))
<1>. DEFINE s == Planned(c).statement
<1>1. /\ s.op = c.op /\ s.where = c.key
      /\ c.op # "delete" => s.sets = Writable(AfterImage(c))
      /\ Planned(c).probe = IF c.op = "insert" THEN {} ELSE {c.key}
    BY StatementOf DEF Typed
<1>2. c.op # "delete" => s.sets.key = c.newKey
    BY <1>1, WrittenColumns
<1>3. Planned(c).probe \subseteq DOMAIN rows /\ ~ Duplicate(s)
    BY AcceptedChecks DEF Typed
<1>. HIDE DEF s
<1>4. Mirror!Applicable(rows, c)
    BY <1>1, <1>2, <1>3, ChangeFields DEF Mirror!Applicable, Duplicate
<1>5. Executed(Planned(c).statement) = Mirror!Effect(rows, c, StoredAs(c.value))
    BY <1>1, <1>3, ExecutedEffect
<1>. QED BY <1>4, <1>5

(* The value of an effect that writes one.                                 *)
LEMMA EffectValue ==
    ASSUME NEW t, NEW c, c.op # "delete", ~ c.keeps, NEW v
    PROVE  /\ c.newKey \in DOMAIN Mirror!Effect(t, c, v)
           /\ Mirror!Effect(t, c, v)[c.newKey] = v
BY DEF Mirror!Effect, Mirror!Put

(* A delete, and an update that keeps the value, store none.               *)
LEMMA EffectAnyValue ==
    ASSUME NEW t, NEW c \in Changes, Mirror!Applicable(t, c), c.op = "delete" \/ c.keeps, NEW v, NEW w
    PROVE  Mirror!Effect(t, c, v) = Mirror!Effect(t, c, w)
BY ChangeFields DEF Mirror!Effect, Mirror!Applicable

(* What was compared.                                                      *)
LEMMA AcceptedVerified ==
    ASSUME Typed, tx.copy = FALSE, NEW c \in Changes, Accepted(c), c.op # "delete", ~ c.keeps,
           NEW after, after = Executed(Planned(c).statement)
    PROVE  /\ c.newKey \in DOMAIN after
           /\ route.carrier => after[c.newKey] = c.value
           /\ route.sink = "postgresql" /\ route.generated =>
                  Generated(schema, after[c.newKey]) = Generated("plain", c.value)
<1>1. c.newKey \in DOMAIN after
  <2>1. after = Mirror!Effect(rows, c, StoredAs(c.value))
    BY AcceptedEffect
  <2>2. c.newKey \in DOMAIN Mirror!Effect(rows, c, StoredAs(c.value))
    BY EffectValue
  <2>. QED BY <2>1, <2>2
<1>2. ASSUME route.carrier PROVE after[c.newKey] = c.value
  <2>1. Look(c.newKey, c.value) \in Planned(c).readbacks
    BY <1>2, Reads DEF Typed
  <2>2. after[Look(c.newKey, c.value).key] = Look(c.newKey, c.value).value
    BY <2>1, AcceptedChecks DEF Typed
  <2>. QED BY <2>2 DEF Look
<1>3. ASSUME route.sink = "postgresql", route.generated
      PROVE  Generated(schema, after[c.newKey]) = Generated("plain", c.value)
  <2>. DEFINE look == Look(c.newKey, Generated("plain", c.value))
  <2>1. look \in Planned(c).verification
    BY <1>3, Reads DEF Typed
  <2>2. look.key = c.newKey /\ look.value = Generated("plain", c.value)
    BY DEF Look
  <2>. HIDE DEF look
  <2>3. \A l \in Planned(c).verification :
          l.key \in DOMAIN after /\ Generated(schema, after[l.key]) = l.value
    BY <1>3, AcceptedChecks
  <2>. QED BY <2>1, <2>2, <2>3
<1>. QED BY <1>1, <1>2, <1>3

(* A value the column does not keep is one that is not compared.           *)
LEMMA AcceptedStorable ==
    ASSUME Typed, tx.copy = FALSE, NEW c \in Changes, Accepted(c),
           schema \notin {"trigger", "engine"}
    PROVE  \E v \in Mirror!Storable(c) :
              Executed(Planned(c).statement) = Mirror!Effect(rows, c, v)
<1>. DEFINE after == Executed(Planned(c).statement)
<1>1. Mirror!Applicable(rows, c) /\ after = Mirror!Effect(rows, c, StoredAs(c.value))
    BY AcceptedEffect
<1>2. c.value \in Values /\ StoredAs(c.value) \in Values
    BY ChangeFields, StoredValue
<1>3. CASE c.op = "delete" \/ c.keeps
  <2>1. c.value \in Mirror!Storable(c)
    BY <1>2 DEF Mirror!Storable
  <2>2. after = Mirror!Effect(rows, c, c.value)
    BY <1>1, <1>3, EffectAnyValue
  <2>. QED BY <2>1, <2>2
<1>4. CASE c.op # "delete" /\ ~ c.keeps /\ ~ (route.carrier \/ schema # "lossy")
  <2>1. StoredAs(c.value) \in Mirror!Storable(c)
    BY <1>2, <1>4 DEF Mirror!Storable
  <2>. QED BY <1>1, <2>1
<1>5. CASE c.op # "delete" /\ ~ c.keeps /\ (route.carrier \/ schema # "lossy")
  <2>1. StoredAs(c.value) = c.value
    <3>1. CASE route.carrier
      <4>1. after[c.newKey] = c.value
        BY <1>5, <3>1, AcceptedVerified
      <4>2. Mirror!Effect(rows, c, StoredAs(c.value))[c.newKey] = StoredAs(c.value)
        BY <1>5, EffectValue
      <4>. QED BY <1>1, <4>1, <4>2
    <3>2. CASE schema # "lossy"
      <4>1. ~ Complains(Planned(c).statement)
        BY AcceptedChecks DEF Typed
      <4>2. Planned(c).statement.sets = Writable(AfterImage(c))
        BY <1>5, StatementOf DEF Typed
      <4>3. schema = "narrow" => c.value = Least
        BY <1>5, <4>1, <4>2, WrittenColumns DEF Complains
      <4>. QED BY <3>2, <4>3 DEF StoredAs
    <3>. QED BY <1>5, <3>1, <3>2
  <2>2. c.value \in Mirror!Storable(c)
    BY <1>5 DEF Mirror!Storable
  <2>. QED BY <1>1, <2>1, <2>2
<1>. QED BY <1>3, <1>4, <1>5

-------------------------------------------------------------------------------
(* Effects, other clients' writes and undo, on tables.                     *)

(* The row of key k set to v, or taken out.                                *)
Adjust(f, k, v) ==
    [j \in (DOMAIN f \ {k}) \cup (IF v = Absent THEN {} ELSE {k}) |-> IF j = k THEN v ELSE f[j]]

(* The effect of a change on a table is a table.                           *)
LEMMA EffectTable ==
    ASSUME NEW f \in Mirror!Tables, NEW c \in Changes, NEW v \in Values
    PROVE  Mirror!Effect(f, c, v) \in Mirror!Tables
<1>. DEFINE rest == Restrict(f, DOMAIN f \ {c.key})
            value == IF c.keeps /\ c.key \in DOMAIN f THEN f[c.key] ELSE v
<1>1. rest \in Mirror!Tables
    BY RestrictTable
<1>2. value \in Values /\ c.newKey \in Keys
    BY TableElim, ChangeFields
<1>3. Mirror!Put(rest, c.newKey, value) \in Mirror!Tables
  <2>. HIDE DEF rest, value
  <2>. QED BY <1>1, <1>2, PutTable
<1>4. Mirror!Effect(f, c, v) = IF c.op = "delete" THEN rest ELSE Mirror!Put(rest, c.newKey, value)
    BY DEF Mirror!Effect, Mirror!Restrict, Restrict
<1>. QED BY <1>1, <1>3, <1>4

(* A change leaves the rows it does not name alone.                        *)
LEMMA EffectElsewhere ==
    ASSUME NEW f, NEW c, NEW v, NEW k, ~ Names(c, k)
    PROVE  /\ k \in DOMAIN Mirror!Effect(f, c, v) <=> k \in DOMAIN f
           /\ k \in DOMAIN f => Mirror!Effect(f, c, v)[k] = f[k]
BY DEF Mirror!Effect, Mirror!Put, Mirror!Restrict, Names

(* A table with one row set or taken out is a table.                       *)
LEMMA AdjustTable ==
    ASSUME NEW f \in Mirror!Tables, NEW k \in Keys, NEW v \in Values \cup {Absent}
    PROVE  Adjust(f, k, v) \in Mirror!Tables
<1>. DEFINE D == (DOMAIN f \ {k}) \cup (IF v = Absent THEN {} ELSE {k})
<1>1. Adjust(f, k, v) \in [D -> Values]
    BY TableElim DEF Adjust
<1>2. D \in SUBSET Keys
    BY TableElim
<1>. QED BY <1>1, <1>2, TableIntro

(* The other rows stay.                                                    *)
LEMMA AdjustElsewhere ==
    ASSUME NEW f, NEW k, NEW v, NEW j, j # k
    PROVE  /\ j \in DOMAIN Adjust(f, k, v) <=> j \in DOMAIN f
           /\ j \in DOMAIN f => Adjust(f, k, v)[j] = f[j]
BY DEF Adjust

(* Adjust is determined by the row it sets and the rows it leaves.         *)
LEMMA AdjustIs ==
    ASSUME NEW f, NEW k, NEW v, NEW g, g = [j \in DOMAIN g |-> g[j]],
           \A j : j # k => (j \in DOMAIN g <=> j \in DOMAIN f) /\ (j \in DOMAIN f => g[j] = f[j]),
           k \in DOMAIN g <=> v # Absent,
           v # Absent => g[k] = v
    PROVE  g = Adjust(f, k, v)
<1>. DEFINE D == (DOMAIN f \ {k}) \cup (IF v = Absent THEN {} ELSE {k})
<1>1. ASSUME NEW j PROVE j \in DOMAIN g <=> j \in D
    BY DEF Absent
<1>2. DOMAIN g = D
    BY <1>1
<1>3. \A j \in D : g[j] = IF j = k THEN v ELSE f[j]
    OBVIOUS
<1>4. Adjust(f, k, v) = [j \in D |-> IF j = k THEN v ELSE f[j]]
    BY DEF Adjust
<1>. HIDE DEF D
<1>. QED BY <1>2, <1>3, <1>4

(* A write to a row the change does not name comes before or after it.     *)
LEMMA AdjustApplicable ==
    ASSUME NEW f, NEW c, NEW k, NEW v, ~ Names(c, k), Mirror!Applicable(f, c)
    PROVE  Mirror!Applicable(Adjust(f, k, v), c)
BY AdjustElsewhere DEF Mirror!Applicable, Names

(* A write to another row commutes with the change.                        *)
LEMMA AdjustEffect ==
    ASSUME NEW f, NEW c, NEW k, NEW v, NEW w, ~ Names(c, k)
    PROVE  Mirror!Effect(Adjust(f, k, v), c, w) = Adjust(Mirror!Effect(f, c, w), k, v)
<1>. DEFINE g == Adjust(f, k, v)
<1>1. \A j : j # k => (j \in DOMAIN g <=> j \in DOMAIN f) /\ (j \in DOMAIN f => g[j] = f[j])
    BY AdjustElsewhere
<1>2. /\ k \in DOMAIN g <=> v # Absent
      /\ v # Absent => g[k] = v
    BY DEF Adjust
<1>3. c.key # k /\ c.newKey # k
    BY DEF Names
<1>. HIDE DEF g
<1>4. CASE c.op = "delete"
  <2>1. Mirror!Effect(g, c, w) = [j \in DOMAIN g \ {c.key} |-> g[j]]
    BY <1>4 DEF Mirror!Effect, Mirror!Restrict
  <2>2. Mirror!Effect(f, c, w) = [j \in DOMAIN f \ {c.key} |-> f[j]]
    BY <1>4 DEF Mirror!Effect, Mirror!Restrict
  <2>. DEFINE e == Mirror!Effect(f, c, w)
              h == Mirror!Effect(g, c, w)
  <2>3. h = [j \in DOMAIN h |-> h[j]]
    BY <2>1
  <2>4. \A j : j # k => (j \in DOMAIN h <=> j \in DOMAIN e) /\ (j \in DOMAIN e => h[j] = e[j])
    BY <1>1, <2>1, <2>2
  <2>5. (k \in DOMAIN h <=> v # Absent) /\ (v # Absent => h[k] = v)
    BY <1>2, <1>3, <2>1
  <2>. HIDE DEF e, h
  <2>6. h = Adjust(e, k, v)
    BY <2>3, <2>4, <2>5, AdjustIs
  <2>. QED BY <2>6 DEF e, h, g
<1>5. CASE c.op # "delete"
  <2>. DEFINE new == IF c.keeps /\ c.key \in DOMAIN f THEN f[c.key] ELSE w
  <2>1. new = IF c.keeps /\ c.key \in DOMAIN g THEN g[c.key] ELSE w
    BY <1>1, <1>3
  <2>2. Mirror!Effect(g, c, w) = [j \in (DOMAIN g \ {c.key}) \cup {c.newKey} |->
                                    IF j = c.newKey THEN new ELSE g[j]]
    BY <1>5, <2>1 DEF Mirror!Effect, Mirror!Restrict, Mirror!Put
  <2>3. Mirror!Effect(f, c, w) = [j \in (DOMAIN f \ {c.key}) \cup {c.newKey} |->
                                    IF j = c.newKey THEN new ELSE f[j]]
    BY <1>5 DEF Mirror!Effect, Mirror!Restrict, Mirror!Put
  <2>. HIDE DEF new
  <2>. DEFINE e == Mirror!Effect(f, c, w)
              h == Mirror!Effect(g, c, w)
  <2>4. h = [j \in DOMAIN h |-> h[j]]
    BY <2>2
  <2>5. \A j : j # k => (j \in DOMAIN h <=> j \in DOMAIN e) /\ (j \in DOMAIN e => h[j] = e[j])
    BY <1>1, <2>2, <2>3
  <2>6. (k \in DOMAIN h <=> v # Absent) /\ (v # Absent => h[k] = v)
    BY <1>2, <1>3, <2>2
  <2>. HIDE DEF e, h
  <2>7. h = Adjust(e, k, v)
    BY <2>4, <2>5, <2>6, AdjustIs
  <2>. QED BY <2>7 DEF e, h, g
<1>. QED BY <1>4, <1>5 DEF g

(* What undo keeps.                                                        *)
LEMMA UndoElim ==
    ASSUME NEW u \in Undos
    PROVE  DOMAIN u \subseteq Keys /\ \A k \in DOMAIN u : u[k] \in Values \cup {Absent}
BY DEF Undos

(* Undoing leaves a table.                                                 *)
LEMMA UndoneTable ==
    ASSUME NEW f \in Mirror!Tables, NEW u \in Undos
    PROVE  Undone(f, u) \in Mirror!Tables
<1>. DEFINE D == (DOMAIN f \ DOMAIN u) \cup {j \in DOMAIN u : u[j] # Absent}
<1>1. Undone(f, u) \in [D -> Values]
    BY TableElim, UndoElim DEF Undone
<1>2. D \in SUBSET Keys
    BY TableElim, UndoElim
<1>. QED BY <1>1, <1>2, TableIntro

(* Undoing nothing changes nothing.                                        *)
LEMMA UndoneNothing ==
    ASSUME NEW f \in Mirror!Tables, NEW u, u = << >>
    PROVE  Undone(f, u) = f
<1>1. DOMAIN u = {}
    OBVIOUS
<1>2. f = [k \in DOMAIN f |-> f[k]]
    BY TableElim
<1>3. Undone(f, u) = [k \in DOMAIN f |-> f[k]]
    BY <1>1 DEF Undone
<1>. QED BY <1>2, <1>3

(* A write to a row that is not locked survives the undo.                  *)
LEMMA AdjustUndone ==
    ASSUME NEW f, NEW u, NEW k, k \notin DOMAIN u, NEW v
    PROVE  Undone(Adjust(f, k, v), u) = Adjust(Undone(f, u), k, v)
<1>. DEFINE g == Adjust(f, k, v)
<1>1. \A j : j # k => (j \in DOMAIN g <=> j \in DOMAIN f) /\ (j \in DOMAIN f => g[j] = f[j])
    BY AdjustElsewhere
<1>2. /\ k \in DOMAIN g <=> v # Absent
      /\ v # Absent => g[k] = v
    BY DEF Adjust
<1>. HIDE DEF g
<1>3. Undone(g, u) = Adjust(Undone(f, u), k, v)
    BY <1>1, <1>2 DEF Undone, Adjust
<1>. QED BY <1>3 DEF g

(* The first touch of a row keeps what it was.                             *)
LEMMA TouchedUndo ==
    ASSUME rows \in Mirror!Tables, tx.undo \in Undos, NEW S \in SUBSET Keys
    PROVE  Touch(S) \in Undos /\ DOMAIN Touch(S) = DOMAIN tx.undo \cup S
<1>1. Touch(S) \in [DOMAIN tx.undo \cup S -> Values \cup {Absent}]
    BY TableElim, UndoElim DEF Touch
<1>2. DOMAIN tx.undo \cup S \in SUBSET Keys
    BY UndoElim
<1>. QED BY <1>1, <1>2 DEF Undos

(* Undoing a statement gives what undoing without it gave.                 *)
LEMMA UndoneTouched ==
    ASSUME rows \in Mirror!Tables, tx.undo \in Undos, NEW S, NEW after,
           \A k : k \notin S =>
               (k \in DOMAIN after <=> k \in DOMAIN rows) /\ (k \in DOMAIN rows => after[k] = rows[k])
    PROVE  Undone(after, Touch(S)) = Undone(rows, tx.undo)
<1>. DEFINE u == tx.undo
            t == Touch(S)
<1>1. DOMAIN t = DOMAIN u \cup S
    BY DEF Touch
<1>2. \A k \in DOMAIN u : t[k] = u[k]
    BY DEF Touch
<1>3. \A k \in S \ DOMAIN u : t[k] = IF k \in DOMAIN rows THEN rows[k] ELSE Absent
    BY DEF Touch
<1>4. \A k \in DOMAIN rows : rows[k] # Absent
    BY TableElim
<1>. HIDE DEF u, t
<1>. DEFINE A == (DOMAIN after \ DOMAIN t) \cup {j \in DOMAIN t : t[j] # Absent}
            B == (DOMAIN rows \ DOMAIN u) \cup {j \in DOMAIN u : u[j] # Absent}
<1>5. ASSUME NEW k PROVE k \in A <=> k \in B
    BY <1>1, <1>2, <1>3, <1>4
<1>6. ASSUME NEW k \in A
      PROVE  (IF k \in DOMAIN t THEN t[k] ELSE after[k]) = (IF k \in DOMAIN u THEN u[k] ELSE rows[k])
    BY <1>1, <1>2, <1>3
<1>7. A = B
    BY <1>5
<1>8. Undone(after, t) = [k \in A |-> IF k \in DOMAIN t THEN t[k] ELSE after[k]]
    BY DEF Undone
<1>9. Undone(rows, u) = [k \in B |-> IF k \in DOMAIN u THEN u[k] ELSE rows[k]]
    BY DEF Undone
<1>. HIDE DEF A, B
<1>10. Undone(after, t) = Undone(rows, u)
    BY <1>6, <1>7, <1>8, <1>9
<1>. QED BY <1>10 DEF t, u

-------------------------------------------------------------------------------
(* The source's table.                                                     *)

(* A function that satisfies the equation of Made is the one Made takes.   *)
LEMMA MadeIs ==
    ASSUME NEW t, NEW changes, NEW n \in Nat, NEW d, d[0] = t,
           \A i \in 1..n : d[i] = Mirror!Effect(d[i - 1], changes[i], changes[i].value)
    PROVE  Made(t, changes, n) = d[n]
<1>. DEFINE after[i \in 0..n] ==
            IF i = 0 THEN t ELSE Mirror!Effect(after[i - 1], changes[i], changes[i].value)
            g == [i \in 0..n |-> d[i]]
<1>1. g = [i \in 0..n |-> IF i = 0 THEN t
                          ELSE Mirror!Effect(g[i - 1], changes[i], changes[i].value)]
    OBVIOUS
<1>2. after = [i \in 0..n |-> IF i = 0 THEN t
                              ELSE Mirror!Effect(after[i - 1], changes[i], changes[i].value)]
  <2>. HIDE DEF g
  <2>. QED BY <1>1
<1>3. Made(t, changes, n) = after[n]
    BY DEF Made
<1>. HIDE DEF after
<1>4. \A i \in 0..n : after[i] = d[i]
  <2>. DEFINE S == {i \in 0..n : after[i] # d[i]}
  <2>. SUFFICES ASSUME S # {} PROVE FALSE
    OBVIOUS
  <2>1. PICK m \in S : \A k \in S : m <= k
    <3>1. S \in SUBSET Nat
      OBVIOUS
    <3>. HIDE DEF S
    <3>. QED BY <3>1, LeastExists
  <2>2. m # 0
    BY <1>2
  <2>3. m - 1 \in 0..n /\ m - 1 \notin S /\ m \in 1..n
    BY <2>1, <2>2
  <2>4. after[m] = Mirror!Effect(after[m - 1], changes[m], changes[m].value)
    BY <1>2, <2>2
  <2>5. d[m] = Mirror!Effect(d[m - 1], changes[m], changes[m].value)
    BY <2>3
  <2>. QED BY <2>3, <2>4, <2>5
<1>. QED BY <1>3, <1>4

(* Made of one change.                                                     *)
LEMMA MadeOne ==
    ASSUME NEW t, NEW c
    PROVE  Made(t, <<c>>, 1) = Mirror!Effect(t, c, c.value)
<1>. DEFINE d == [i \in 0..1 |-> IF i = 0 THEN t ELSE Mirror!Effect(t, c, c.value)]
<1>1. d[0] = t /\ d[1] = Mirror!Effect(t, c, c.value)
    OBVIOUS
<1>. HIDE DEF d
<1>2. PICK changes : changes = <<c>>
    OBVIOUS
<1>3. changes[1] = c
    BY <1>2
<1>4. \A i \in 1..1 : d[i] = Mirror!Effect(d[i - 1], changes[i], changes[i].value)
    BY <1>1, <1>3
<1>5. Made(t, changes, 1) = d[1]
    BY <1>1, <1>4, MadeIs
<1>. QED BY <1>1, <1>2, <1>5

(* Made of two changes.                                                    *)
LEMMA MadeTwo ==
    ASSUME NEW t, NEW c, NEW e
    PROVE  Made(t, <<c, e>>, 2) = Mirror!Effect(Mirror!Effect(t, c, c.value), e, e.value)
<1>. DEFINE d == [i \in 0..2 |-> IF i = 0 THEN t ELSE IF i = 1 THEN Mirror!Effect(t, c, c.value)
                                 ELSE Mirror!Effect(Mirror!Effect(t, c, c.value), e, e.value)]
<1>1. d[0] = t /\ d[1] = Mirror!Effect(t, c, c.value) /\ d[2] = Mirror!Effect(d[1], e, e.value)
    OBVIOUS
<1>. HIDE DEF d
<1>2. PICK changes : changes = <<c, e>>
    OBVIOUS
<1>3. changes[1] = c /\ changes[2] = e
    BY <1>2
<1>4. ASSUME NEW i \in 1..2 PROVE d[i] = Mirror!Effect(d[i - 1], changes[i], changes[i].value)
  <2>1. i = 1 \/ i = 2
    OBVIOUS
  <2>. QED BY <1>1, <1>3, <2>1
<1>5. Made(t, changes, 2) = d[2]
    BY <1>1, <1>4, MadeIs
<1>. QED BY <1>1, <1>2, <1>5

-------------------------------------------------------------------------------
(* The invariant holds initially, and every action keeps it.               *)

(* The parts of an open transaction.                                       *)
LEMMA TxFields ==
    ASSUME Typed, tx # NoTx
    PROVE  /\ tx.copy \in BOOLEAN /\ tx.changes \in Seq(Changes)
           /\ tx.at \in Nat /\ tx.undo \in Undos
           /\ tx = [copy |-> tx.copy, changes |-> tx.changes, at |-> tx.at, undo |-> tx.undo]
BY DEF Typed, Shape

(* A transaction begins with nothing to undo.                              *)
LEMMA EmptyUndo == << >> \in Undos
<1>1. << >> \in [{} -> Values \cup {Absent}]
    OBVIOUS
<1>. QED BY <1>1 DEF Undos

(* A transaction that begins.                                              *)
LEMMA Begins ==
    ASSUME NEW copy \in BOOLEAN, NEW changes \in Seq(Changes), NEW t, t = Begin(copy, changes)
    PROVE  /\ t \in Shape /\ t # NoTx
           /\ t.copy = copy /\ t.changes = changes /\ t.at = 0 /\ t.undo = << >>
BY EmptyUndo DEF Begin, Shape, NoTx

(* What is committed is a table.                                           *)
LEMMA CommittedTable ==
    ASSUME Typed
    PROVE  Committed \in Mirror!Tables
BY TxFields, UndoneTable DEF Committed, Typed

(* Before the first statement the pages are what is committed.             *)
LEMMA CommittedIsRows ==
    ASSUME Typed, Open, tx = NoTx \/ tx.at = 0
    PROVE  Committed = rows
<1>1. CASE tx = NoTx
    BY <1>1 DEF Committed
<1>2. CASE tx # NoTx
  <2>1. tx.undo = << >>
    BY <1>2 DEF Open
  <2>2. Undone(rows, tx.undo) = rows
    BY <2>1, UndoneNothing DEF Typed
  <2>. QED BY <2>2 DEF Committed
<1>. QED BY <1>1, <1>2

(* The invariant holds in the initial states.                              *)
LEMMA InitInv == Init => IInv
<1>. SUFFICES ASSUME Init PROVE IInv
    OBVIOUS
<1>1. base \in Mirror!Tables
    BY SinkAssumption DEF Init, Mirror!Tables
<1>2. rows \in Mirror!Tables
    BY <1>1, EmptyTable DEF Init
<1>3. Typed
  <2>1. 0 \in 0..MaxChanges /\ 0 \in 0..MaxOthers
    BY SinkAssumption
  <2>2. /\ route.source \in {"mysql", "postgresql"} /\ route.sink \in {"mysql", "postgresql"}
        /\ route.carrier \in BOOLEAN /\ route.generated \in BOOLEAN
        /\ route.generated => route.source = "mysql"
    BY DEF Init
  <2>3. /\ waiting \in Seq(Seq(Changes)) /\ schema \in Definitions
        /\ phase \in {"snapshot", "incremental"}
        /\ made \in 0..MaxChanges /\ others \in 0..MaxOthers
    BY <2>1 DEF Init, Definitions
  <2>4. refused \in BOOLEAN /\ tx = NoTx
    BY DEF Init
  <2>. QED BY <1>1, <1>2, <2>2, <2>3, <2>4 DEF Typed
<1>. QED BY <1>3 DEF Init, IInv, Open, Progress, Verified

(* What only concerns the source or the queue.                             *)
LEMMA SameWork ==
    ASSUME Progress, Verified, UNCHANGED <<route, rows, tx, schema>>
    PROVE  Progress' /\ Verified' /\ Committed' = Committed
<1>1. Committed' = Committed
    BY DEF Committed
<1>2. Progress'
    BY <1>1 DEF Progress, Path, Exact
<1>3. Verified'
    BY DEF Verified, Compared, Generated, Names
<1>. QED BY <1>1, <1>2, <1>3

(* A transaction of one change that applies.                               *)
LEMMA LeadsOne ==
    ASSUME NEW t \in Mirror!Tables, NEW c \in Changes, Mirror!Applicable(t, c),
           NEW changes, changes = <<c>>
    PROVE  Leads(t, changes, Mirror!Effect(t, c, c.value))
<1>. DEFINE u == Mirror!Effect(t, c, c.value)
            d == [i \in 0..1 |-> IF i = 0 THEN t ELSE u]
<1>1. u \in Mirror!Tables
    BY ChangeFields, EffectTable
<1>2. d \in [0..1 -> Mirror!Tables] /\ d[0] = t /\ d[1] = u
    BY <1>1
<1>3. Len(changes) = 1 /\ changes[1] = c
    OBVIOUS
<1>4. Walk(d, changes, 1)
  <2>. HIDE DEF d
  <2>. QED BY <1>2, <1>3 DEF Walk
<1>. HIDE DEF d
<1>. QED BY <1>2, <1>3, <1>4 DEF Leads

(* A transaction of two changes that apply one after the other.            *)
LEMMA LeadsTwo ==
    ASSUME NEW t \in Mirror!Tables, NEW c \in Changes, Mirror!Applicable(t, c),
           NEW first, first = Mirror!Effect(t, c, c.value),
           NEW e \in Changes, Mirror!Applicable(first, e),
           NEW changes, changes = <<c, e>>
    PROVE  Leads(t, changes, Mirror!Effect(first, e, e.value))
<1>. DEFINE u == Mirror!Effect(first, e, e.value)
            d == [i \in 0..2 |-> IF i = 0 THEN t ELSE IF i = 1 THEN first ELSE u]
<1>1. first \in Mirror!Tables /\ u \in Mirror!Tables
    BY ChangeFields, EffectTable
<1>2. d \in [0..2 -> Mirror!Tables] /\ d[0] = t /\ d[1] = first /\ d[2] = u
    BY <1>1
<1>3. Len(changes) = 2 /\ changes[1] = c /\ changes[2] = e
    OBVIOUS
<1>. HIDE DEF d
<1>4. Walk(d, changes, 2)
  <2>1. ASSUME NEW i \in 1..2
        PROVE  /\ Mirror!Applicable(d[i - 1], changes[i])
               /\ d[i] = Mirror!Effect(d[i - 1], changes[i], changes[i].value)
    <3>1. i = 1 \/ i = 2
      OBVIOUS
    <3>. QED BY <1>2, <1>3, <3>1
  <2>. QED BY <2>1 DEF Walk
<1>. QED BY <1>2, <1>3, <1>4 DEF Leads

(* What the source commits applies to its table and makes the next.        *)
LEMMA SourceCommitLeads ==
    ASSUME Typed, SourceCommit
    PROVE  \E changes \in Seq(Changes) :
              /\ Leads(base, changes, base')
              /\ base' \in Mirror!Tables
              /\ made' \in 0..MaxChanges
              /\ route.source = "mysql" => Unkept(changes)
              /\ waiting' = IF phase = "snapshot" /\ ~ Copying THEN waiting
                            ELSE Append(waiting, changes)
<1>1. PICK c \in {d \in Changes : Logs(base, d)} :
          \E changes \in {<<c>>} \cup {<<c, d>> : d \in {e \in Changes : Logs(Made(base, <<c>>, 1), e)}} :
              /\ made' = made + Len(changes)
              /\ made' <= MaxChanges
              /\ base' = Made(base, changes, Len(changes))
              /\ waiting' = IF phase = "snapshot" /\ ~ Copying THEN waiting ELSE Append(waiting, changes)
    BY Zenon DEF SourceCommit
<1>2. PICK changes \in {<<c>>} \cup {<<c, d>> : d \in {e \in Changes : Logs(Made(base, <<c>>, 1), e)}} :
              /\ made' = made + Len(changes)
              /\ made' <= MaxChanges
              /\ base' = Made(base, changes, Len(changes))
              /\ waiting' = IF phase = "snapshot" /\ ~ Copying THEN waiting ELSE Append(waiting, changes)
    BY <1>1
<1>3. PICK first : first = Mirror!Effect(base, c, c.value)
    OBVIOUS
<1>4. c \in Changes /\ Mirror!Applicable(base, c) /\ (route.source = "mysql" => ~ c.keeps)
    BY <1>1 DEF Logs
<1>5. first \in Mirror!Tables
    BY <1>3, <1>4, ChangeFields, EffectTable DEF Typed
<1>6. CASE changes = <<c>>
  <2>1. changes \in Seq(Changes) /\ Len(changes) = 1 /\ changes[1] = c
    BY <1>4, <1>6
  <2>2. base' = first
    BY <1>2, <1>3, <1>6, <2>1, MadeOne
  <2>3. Leads(base, changes, base')
    BY <1>3, <1>4, <1>6, <2>2, LeadsOne DEF Typed
  <2>4. made' \in 0..MaxChanges
    BY <1>2, <2>1, SinkAssumption DEF Typed
  <2>5. route.source = "mysql" => Unkept(changes)
    BY <1>4, <2>1 DEF Unkept
  <2>. QED BY <1>2, <1>5, <2>1, <2>2, <2>3, <2>4, <2>5
<1>7. ASSUME NEW e \in Changes, Logs(Made(base, <<c>>, 1), e), changes = <<c, e>>
      PROVE  /\ changes \in Seq(Changes)
             /\ Leads(base, changes, base')
             /\ base' \in Mirror!Tables
             /\ made' \in 0..MaxChanges
             /\ route.source = "mysql" => Unkept(changes)
  <2>1. changes \in Seq(Changes) /\ Len(changes) = 2 /\ changes[1] = c /\ changes[2] = e
    BY <1>4, <1>7
  <2>2. Mirror!Applicable(first, e) /\ (route.source = "mysql" => ~ e.keeps)
    BY <1>3, <1>7, MadeOne DEF Logs
  <2>3. base' = Mirror!Effect(first, e, e.value)
    BY <1>2, <1>3, <1>7, <2>1, MadeTwo
  <2>4. Leads(base, changes, base')
    BY <1>3, <1>4, <1>7, <2>2, <2>3, LeadsTwo DEF Typed
  <2>5. base' \in Mirror!Tables
    BY <1>5, <2>3, ChangeFields, EffectTable
  <2>6. made' \in 0..MaxChanges
    BY <1>2, <2>1, SinkAssumption DEF Typed
  <2>7. ASSUME route.source = "mysql", NEW i \in 1..Len(changes) PROVE ~ changes[i].keeps
    <3>1. i = 1 \/ i = 2
      BY <2>1
    <3>. QED BY <1>4, <2>1, <2>2, <2>7, <3>1
  <2>8. route.source = "mysql" => Unkept(changes)
    BY <2>7 DEF Unkept
  <2>. QED BY <2>1, <2>4, <2>5, <2>6, <2>8
<1>8. changes = <<c>> \/ \E e \in Changes : Logs(Made(base, <<c>>, 1), e) /\ changes = <<c, e>>
    BY <1>2
<1>9. CASE changes # <<c>>
    BY <1>2, <1>7, <1>8, <1>9
<1>. QED BY <1>6, <1>9

(* The queue grows at its end, so its head stays.                          *)
LEMMA SourceCommitInv ==
    ASSUME IInv, SourceCommit
    PROVE  IInv'
<1>. USE DEF IInv
<1>1. PICK changes \in Seq(Changes) :
        /\ base' \in Mirror!Tables /\ made' \in 0..MaxChanges
        /\ waiting' = IF phase = "snapshot" /\ ~ Copying THEN waiting ELSE Append(waiting, changes)
    BY SourceCommitLeads
<1>2. waiting' \in Seq(Seq(Changes))
    BY <1>1 DEF Typed
<1>3. waiting # << >> => waiting' # << >> /\ Head(waiting') = Head(waiting)
  <2>1. PICK w \in Seq(Seq(Changes)) : w = waiting
    BY DEF Typed
  <2>2. w # << >> => Append(w, changes) # << >> /\ Head(Append(w, changes)) = Head(w)
    OBVIOUS
  <2>. QED BY <1>1, <2>1, <2>2
<1>4. UNCHANGED <<route, phase, rows, tx, schema, others, refused>>
    BY DEF SourceCommit
<1>5. Typed'
    BY <1>1, <1>2, <1>4 DEF Typed
<1>6. Open'
    BY <1>3, <1>4 DEF Open
<1>. QED BY <1>4, <1>5, <1>6, SameWork

(* An insert of a key and a value is a change.                             *)
LEMMA InsertChange ==
    ASSUME NEW k \in Keys, NEW v \in Values
    PROVE  Change("insert", k, k, v, FALSE) \in Changes
<1>. DEFINE insert(j, w) == Change("insert", j, j, w, FALSE)
            Inserts == {insert(j, w) : j \in Keys, w \in Values}
<1>1. Inserts \subseteq Changes
    BY SMT DEF Changes, Change
<1>2. insert(k, v) \in Inserts
  <2>. HIDE DEF insert
  <2>. QED OBVIOUS
<1>. HIDE DEF Inserts
<1>. QED BY <1>1, <1>2, Zenon

(* The copy of a table is a sequence of inserts.                           *)
LEMMA CopyOfChanges ==
    ASSUME NEW t \in Mirror!Tables, NEW keys \in Ascending(t)
    PROVE  /\ CopyOf(t, keys) \in Seq(Changes)
           /\ \A i \in 1..Len(CopyOf(t, keys)) : CopyOf(t, keys)[i].op = "insert"
<1>. DEFINE n == Cardinality(DOMAIN t)
            copy == CopyOf(t, keys)
<1>1. n \in Nat
    BY TableElim, SinkAssumption, FS_Subset, FS_CardinalityType
<1>. HIDE DEF n
<1>2. keys \in [1..n -> DOMAIN t]
    BY DEF Ascending, n
<1>3. copy = [i \in 1..n |-> Change("insert", keys[i], keys[i], t[keys[i]], FALSE)]
    BY <1>2, Zenon DEF CopyOf
<1>4. ASSUME NEW i \in 1..n
      PROVE  /\ Change("insert", keys[i], keys[i], t[keys[i]], FALSE) \in Changes
             /\ Change("insert", keys[i], keys[i], t[keys[i]], FALSE).op = "insert"
  <2>1. keys[i] \in Keys /\ t[keys[i]] \in Values
    BY <1>2, TableElim
  <2>2. Change("insert", keys[i], keys[i], t[keys[i]], FALSE) \in Changes
    BY <2>1, InsertChange
  <2>. QED BY <2>2 DEF Change
<1>. DEFINE at(i) == Change("insert", keys[i], keys[i], t[keys[i]], FALSE)
<1>5. copy = [i \in 1..n |-> at(i)] /\ \A i \in 1..n : at(i) \in Changes /\ at(i).op = "insert"
    BY <1>3, <1>4, Zenon
<1>. HIDE DEF at, copy
<1>6. copy \in [1..n -> Changes] /\ \A i \in 1..n : copy[i].op = "insert"
    BY <1>5
<1>7. copy \in Seq(Changes) /\ Len(copy) = n
    BY <1>1, <1>6
<1>. QED BY <1>6, <1>7 DEF copy

(* A copy that begins.                                                     *)
LEMMA BeginCopyInv ==
    ASSUME IInv, BeginCopy
    PROVE  IInv' /\ Committed' = Committed
<1>. USE DEF IInv
<1>1. PICK keys \in Ascending(base) : tx' = Begin(TRUE, CopyOf(base, keys))
    BY Zenon DEF BeginCopy
<1>2. UNCHANGED <<route, base, made, phase, rows, schema, others, refused>> /\ waiting' = << >>
      /\ phase = "snapshot" /\ tx = NoTx
    BY DEF BeginCopy
<1>. DEFINE changes == CopyOf(base, keys)
<1>3. changes \in Seq(Changes) /\ \A i \in 1..Len(changes) : changes[i].op = "insert"
    BY CopyOfChanges DEF Typed
<1>. HIDE DEF changes
<1>4. /\ tx' \in Shape /\ tx' # NoTx /\ tx'.copy = TRUE /\ tx'.changes = changes
      /\ tx'.at = 0 /\ tx'.undo = << >>
  <2>1. PICK copy \in BOOLEAN : copy = TRUE
    OBVIOUS
  <2>2. tx' = Begin(copy, changes)
    BY <1>1, <2>1, Zenon DEF changes
  <2>3. /\ tx' \in Shape /\ tx' # NoTx /\ tx'.copy = copy /\ tx'.changes = changes
        /\ tx'.at = 0 /\ tx'.undo = << >>
    BY <1>3, <2>2, Begins
  <2>. QED BY <2>1, <2>3, Zenon
<1>5. Typed'
    BY <1>2, <1>4 DEF Typed
<1>6. Open'
    BY <1>2, <1>3, <1>4 DEF Open
<1>7. Progress' /\ Verified'
    BY <1>4 DEF Progress, Verified
<1>8. Committed = rows
    BY <1>2, CommittedIsRows
<1>9. Committed' = rows'
  <2>1. Undone(rows', tx'.undo) = rows'
    BY <1>4, <1>5, UndoneNothing DEF Typed
  <2>. QED BY <2>1 DEF Committed
<1>. QED BY <1>2, <1>5, <1>6, <1>7, <1>8, <1>9

(* A source transaction that begins.                                       *)
LEMMA BeginApplyInv ==
    ASSUME IInv, BeginApply
    PROVE  IInv' /\ Committed' = Committed
<1>. USE DEF IInv
<1>2. UNCHANGED <<route, base, made, waiting, phase, rows, schema, others, refused>>
      /\ phase = "incremental" /\ tx = NoTx /\ waiting # << >>
    BY DEF BeginApply
<1>3. Head(waiting) \in Seq(Changes)
    BY <1>2 DEF Typed
<1>4. /\ tx' \in Shape /\ tx' # NoTx /\ tx'.copy = FALSE /\ tx'.changes = Head(waiting)
      /\ tx'.at = 0 /\ tx'.undo = << >>
  <2>1. PICK copy \in BOOLEAN : copy = FALSE
    OBVIOUS
  <2>2. PICK changes : changes = Head(waiting)
    OBVIOUS
  <2>3. changes \in Seq(Changes)
    BY <1>3, <2>2
  <2>4. tx' = Begin(copy, changes)
    BY <2>1, <2>2, Zenon DEF BeginApply
  <2>5. /\ tx' \in Shape /\ tx' # NoTx /\ tx'.copy = copy /\ tx'.changes = changes
        /\ tx'.at = 0 /\ tx'.undo = << >>
    BY <2>3, <2>4, Begins
  <2>. QED BY <2>1, <2>2, <2>5, Zenon
<1>5. Typed'
    BY <1>2, <1>4 DEF Typed
<1>6. Open'
    BY <1>2, <1>4 DEF Open
<1>7. Progress' /\ Verified'
    BY <1>4 DEF Progress, Verified
<1>8. Committed = rows
    BY <1>2, CommittedIsRows
<1>9. Committed' = rows'
  <2>1. Undone(rows', tx'.undo) = rows'
    BY <1>4, <1>5, UndoneNothing DEF Typed
  <2>. QED BY <2>1 DEF Committed
<1>. QED BY <1>2, <1>5, <1>6, <1>7, <1>8, <1>9

(* The tables are checked, and locked against redefinition.                *)
LEMMA CheckTablesInv ==
    ASSUME IInv, CheckTables
    PROVE  IInv' /\ Committed' = Committed
<1>. USE DEF IInv
<1>1. UNCHANGED <<route, base, made, waiting, phase, rows, schema, others, refused>> /\ tx # NoTx /\ tx.at = 0
    BY DEF CheckTables
<1>2. schema \notin {"trigger", "engine"}
    BY DEF CheckTables, QualifiedTable, Typed, MySqlSnapshotTargets, PgSnapshotTargets,
           MySqlChecksTables, PgChecksTables
<1>3. /\ tx' \in Shape /\ tx'.copy = tx.copy /\ tx'.changes = tx.changes
      /\ tx'.at = 1 /\ tx'.undo = tx.undo /\ tx' # NoTx
    BY <1>1 DEF CheckTables, Typed, Shape, NoTx
<1>4. Typed'
    BY <1>1, <1>3 DEF Typed
<1>5. Open'
    BY <1>1, <1>2, <1>3, TxFields DEF Open
<1>6. Committed' = Committed
    BY <1>1, <1>3 DEF Committed
<1>7. Progress'
  <2>1. Committed = rows
    BY <1>1, CommittedIsRows
  <2>. DEFINE during == [i \in 0..0 |-> rows]
  <2>2. during \in [0..0 -> Mirror!Tables] /\ during[0] = rows
    BY DEF Typed
  <2>. HIDE DEF during
  <2>. QED BY <1>1, <1>3, <1>6, <2>1, <2>2 DEF Progress, Path
<1>8. Verified'
    BY <1>3 DEF Verified
<1>. QED BY <1>4, <1>5, <1>6, <1>7, <1>8

(* A row of the copy is a new row.                                         *)
LEMMA InsertEffect ==
    ASSUME Typed, tx.copy = TRUE, NEW c \in Changes, c.op = "insert", Accepted(c)
    PROVE  /\ c.key \notin DOMAIN rows
           /\ Executed(Planned(c).statement) = Mirror!Effect(rows, c, StoredAs(c.value))
<1>. DEFINE s == Planned(c).statement
<1>1. s.op = "insert" /\ s.where = c.key /\ s.sets = Writable(AfterImage(c))
    BY InsertOf
<1>2. c.newKey = c.key /\ ~ c.keeps
    BY ChangeFields
<1>3. s.sets.key = c.key /\ "value" \in DOMAIN s.sets /\ s.sets.value = c.value
    BY <1>1, <1>2, WrittenColumns
<1>4. ~ Duplicate(s)
    BY DEF Accepted, MySqlInserts, PgInserts, Typed
<1>. HIDE DEF s
<1>5. c.key \notin DOMAIN rows
    BY <1>1, <1>3, <1>4 DEF Duplicate
<1>6. Executed(s) = Mirror!Effect(rows, c, StoredAs(c.value))
    BY <1>1, <1>2, <1>3 DEF Executed, Mirror!Effect, Restrict, Mirror!Restrict
<1>. QED BY <1>5, <1>6 DEF s

(* What a statement does to the pages.                                     *)
LEMMA StatementEffect ==
    ASSUME Typed, Open, Statement, NEW c, c = tx.changes[tx.at]
    PROVE  /\ c \in Changes /\ Accepted(c)
           /\ tx.copy => c.op = "insert"
           /\ rows' = Mirror!Effect(rows, c, StoredAs(c.value))
           /\ rows' \in Mirror!Tables
           /\ \A k : ~ Names(c, k) =>
                 (k \in DOMAIN rows' <=> k \in DOMAIN rows) /\ (k \in DOMAIN rows => rows'[k] = rows[k])
<1>1. tx # NoTx /\ tx.at \in 1..Len(tx.changes) /\ Accepted(c)
      /\ rows' = Executed(Planned(c).statement)
    BY DEF Statement
<1>2. tx.copy \in BOOLEAN /\ tx.changes \in Seq(Changes)
    BY <1>1, TxFields
<1>3. c \in Changes
    BY <1>1, <1>2
<1>4. tx.copy => c.op = "insert"
    BY <1>1, <1>2 DEF Open
<1>5. rows' = Mirror!Effect(rows, c, StoredAs(c.value))
  <2>1. CASE tx.copy = TRUE
    BY <1>1, <1>3, <1>4, <2>1, InsertEffect
  <2>2. CASE tx.copy = FALSE
    BY <1>1, <1>3, <2>2, AcceptedEffect
  <2>. QED BY <1>2, <2>1, <2>2
<1>6. StoredAs(c.value) \in Values
    BY <1>3, ChangeFields, StoredValue
<1>7. rows' \in Mirror!Tables
    BY <1>3, <1>5, <1>6, EffectTable DEF Typed
<1>8. ASSUME NEW k, ~ Names(c, k)
      PROVE  (k \in DOMAIN rows' <=> k \in DOMAIN rows) /\ (k \in DOMAIN rows => rows'[k] = rows[k])
    BY <1>5, <1>8, EffectElsewhere
<1>. QED BY <1>1, <1>3, <1>4, <1>5, <1>7, <1>8

(* A statement takes the transaction one step further.                     *)
LEMMA StatementInv ==
    ASSUME IInv, Statement
    PROVE  IInv' /\ Committed' = Committed
<1>. USE DEF IInv
<1>1. PICK c : c = tx.changes[tx.at]
    OBVIOUS
<1>2. PICK n : n = tx.at
    OBVIOUS
<1>3. PICK changes : changes = tx.changes
    OBVIOUS
<1>. DEFINE touched == {c.key, c.newKey}
<1>4. UNCHANGED <<route, base, made, waiting, phase, schema, others, refused>>
      /\ tx # NoTx /\ n \in 1..Len(changes) /\ c = changes[n]
      /\ tx' = [tx EXCEPT !.at = @ + 1, !.undo = Touch(touched)]
    BY <1>1, <1>2, <1>3 DEF Statement
<1>5. /\ c \in Changes /\ Accepted(c)
      /\ tx.copy => c.op = "insert"
      /\ rows' \in Mirror!Tables
    BY <1>1, StatementEffect
<1>6. \A k : ~ Names(c, k) =>
        (k \in DOMAIN rows' <=> k \in DOMAIN rows) /\ (k \in DOMAIN rows => rows'[k] = rows[k])
    BY <1>1, StatementEffect
<1>7. /\ tx.copy \in BOOLEAN /\ changes \in Seq(Changes) /\ n \in Nat /\ tx.undo \in Undos
      /\ tx = [copy |-> tx.copy, changes |-> tx.changes, at |-> tx.at, undo |-> tx.undo]
    BY <1>2, <1>3, <1>4, TxFields
<1>8. touched \in SUBSET Keys
    BY <1>5, ChangeFields
<1>9. Touch(touched) \in Undos /\ DOMAIN Touch(touched) = DOMAIN tx.undo \cup touched
    BY <1>7, <1>8, TouchedUndo DEF Typed
<1>10. /\ tx'.copy = tx.copy /\ tx'.changes = changes /\ tx'.at = n + 1
       /\ tx'.undo = Touch(touched) /\ tx' \in Shape /\ tx' # NoTx
  <2>. HIDE DEF touched
  <2>1. tx' = [copy |-> tx.copy, changes |-> changes, at |-> n + 1, undo |-> Touch(touched)]
    BY <1>2, <1>3, <1>4, <1>7
  <2>. QED BY <1>7, <1>9, <2>1 DEF Shape, NoTx
<1>11. Typed'
    BY <1>4, <1>5, <1>10 DEF Typed
<1>12. schema \notin {"trigger", "engine"}
    BY <1>2, <1>4, <1>7 DEF Open
<1>13. Open'
  <2>1. n + 1 <= Len(changes) + 1 /\ n + 1 # 0
    BY <1>4, <1>7
  <2>2. ASSUME NEW i \in 1..n, NEW k \in Keys, Names(changes[i], k)
        PROVE  k \in DOMAIN Touch(touched)
    <3>1. CASE i = n
      BY <1>4, <1>9, <2>2, <3>1 DEF Names
    <3>2. CASE i # n
      <4>1. i \in 1..tx.at - 1
        BY <1>2, <1>7, <3>2
      <4>. QED BY <1>3, <1>4, <1>9, <2>2, <4>1 DEF Open
    <3>. QED BY <3>1, <3>2
  <2>3. ASSUME tx.copy, NEW k \in DOMAIN Touch(touched) PROVE Touch(touched)[k] = Absent
    <3>1. c.key \notin DOMAIN rows /\ c.newKey = c.key
      BY <1>5, <1>7, <2>3, InsertEffect, ChangeFields
    <3>2. k \in DOMAIN tx.undo => tx.undo[k] = Absent
      BY <1>4, <2>3 DEF Open
    <3>. QED BY <1>9, <2>3, <3>1, <3>2 DEF Touch
  <2>4. (n + 1) - 1 = n
    BY <1>7
  <2>. HIDE DEF touched
  <2>. QED BY <1>3, <1>4, <1>10, <1>12, <2>1, <2>2, <2>3, <2>4 DEF Open
<1>14. Committed' = Committed
  <2>1. Undone(rows', Touch(touched)) = Undone(rows, tx.undo)
    BY <1>6, <1>7, UndoneTouched DEF Typed, Names
  <2>. HIDE DEF touched
  <2>. QED BY <1>4, <1>10, <1>12, <2>1 DEF Committed
<1>15. Progress'
  <2>. SUFFICES ASSUME tx.copy = FALSE PROVE Progress'
    BY <1>7, <1>10 DEF Progress
  <2>1. PICK during \in [0..n - 1 -> Mirror!Tables] :
            /\ during[0] = Committed
            /\ during[n - 1] = rows
            /\ Path(during, changes, n - 1, Exact)
    BY <1>2, <1>3, <1>4, <1>7 DEF Progress
  <2>2. PICK e : e = Exact
    OBVIOUS
  <2>3. PICK after : after = rows'
    OBVIOUS
  <2>. DEFINE longer == [i \in 0..n |-> IF i = n THEN after ELSE during[i]]
  <2>4. longer \in [0..n -> Mirror!Tables] /\ longer[n] = after
        /\ \A i \in 0..n - 1 : longer[i] = during[i]
    BY <1>5, <1>7, <2>3
  <2>. HIDE DEF longer
  <2>5. Mirror!Applicable(rows, c)
    BY <1>5, AcceptedEffect
  <2>6. \E v \in IF e THEN {c.value} ELSE Values : after = Mirror!Effect(rows, c, v)
    <3>1. after = Executed(Planned(c).statement)
      BY <1>1, <2>3 DEF Statement
    <3>2. \E v \in Mirror!Storable(c) : Executed(Planned(c).statement) = Mirror!Effect(rows, c, v)
      BY <1>5, <1>12, AcceptedStorable
    <3>. QED BY <2>2, <3>1, <3>2 DEF Mirror!Storable, Exact
  <2>7. Path(longer, changes, n, e)
    <3>1. ASSUME NEW i \in 1..n
          PROVE  /\ Mirror!Applicable(longer[i - 1], changes[i])
                 /\ \E v \in IF e THEN {changes[i].value} ELSE Values :
                       longer[i] = Mirror!Effect(longer[i - 1], changes[i], v)
      <4>1. CASE i = n
        <5>1. longer[i - 1] = rows /\ longer[i] = after /\ changes[i] = c
          BY <1>4, <1>7, <2>1, <2>4, <4>1
        <5>. QED BY <2>5, <2>6, <5>1
      <4>2. CASE i # n
        <5>1. i \in 1..n - 1 /\ i \in 0..n - 1 /\ i - 1 \in 0..n - 1
          BY <1>7, <4>2
        <5>2. longer[i - 1] = during[i - 1] /\ longer[i] = during[i]
          BY <2>4, <5>1
        <5>. QED BY <2>1, <2>2, <5>1, <5>2 DEF Path
      <4>. QED BY <4>1, <4>2
    <3>. QED BY <3>1 DEF Path
  <2>8. Exact' = e /\ Committed' = Committed /\ longer[0] = Committed /\ (n + 1) - 1 = n
    BY <1>4, <1>7, <1>14, <2>1, <2>2, <2>4 DEF Exact
  <2>9. Path(longer, changes, n, Exact')
    BY <2>7, <2>8
  <2>. QED BY <1>10, <2>3, <2>4, <2>8, <2>9 DEF Progress
<1>16. Verified'
  <2>0. tx'.at - 1 = n
    BY <1>7, <1>10
  <2>. SUFFICES ASSUME tx.copy = FALSE, NEW i \in 1..n,
                       changes[i].op # "delete", ~ changes[i].keeps,
                       \A j \in i + 1..n : ~ Names(changes[j], changes[i].newKey)
                PROVE  Compared(changes[i].newKey, changes[i].value)'
    BY <1>7, <1>10, <2>0 DEF Verified, Names, Compared, Generated
  <2>1. PICK k, v : k = changes[i].newKey /\ v = changes[i].value
    OBVIOUS
  <2>2. CASE i = n
    <3>1. rows' = Executed(Planned(c).statement)
      BY <1>1 DEF Statement
    <3>. QED BY <1>4, <1>5, <2>2, <3>1, AcceptedVerified DEF Compared, Generated
  <2>3. CASE i # n
    <3>1. i \in 1..tx.at - 1 /\ n \in i + 1..n /\ \A j \in i + 1..tx.at - 1 : j \in i + 1..n
      BY <1>2, <1>7, <2>3
    <3>2. Compared(k, v)
      BY <1>3, <1>4, <2>1, <3>1 DEF Verified
    <3>3. ~ Names(c, k)
      BY <1>4, <2>1, <3>1
    <3>4. k \in DOMAIN rows' /\ rows'[k] = rows[k]
      BY <1>6, <3>2, <3>3 DEF Compared
    <3>. QED BY <1>4, <2>1, <3>2, <3>4 DEF Compared, Generated
  <2>. QED BY <2>2, <2>3
<1>. QED BY <1>11, <1>13, <1>14, <1>15, <1>16

(* A transaction that ends leaves nothing open.                            *)
LEMMA ClosedInv ==
    ASSUME tx' = NoTx, Typed'
    PROVE  IInv'
BY DEF IInv, Open, Progress, Verified

(* A rollback leaves what was committed.                                   *)
LEMMA RollbackInv ==
    ASSUME IInv, Rollback, UNCHANGED <<route, base, made, waiting, phase, schema, others>>,
           refused' \in BOOLEAN
    PROVE  IInv' /\ Committed' = Committed
<1>. USE DEF IInv
<1>1. rows' \in Mirror!Tables
    BY CommittedTable DEF Rollback
<1>2. Typed'
    BY <1>1 DEF Typed, Rollback
<1>3. IInv'
  <2>. USE DEF Rollback
  <2>. QED BY <1>2, ClosedInv
<1>4. Committed' = Committed
    BY DEF Rollback, Committed
<1>. QED BY <1>3, <1>4

(* A COMMIT takes the transaction off the queue.                           *)
LEMMA CommitInv ==
    ASSUME IInv, Commit
    PROVE  IInv'
<1>. USE DEF IInv
<1>1. waiting' \in Seq(Seq(Changes))
  <2>1. CASE tx.copy
    BY <2>1 DEF Commit, Typed
  <2>2. CASE ~ tx.copy
    BY <2>2 DEF Commit, Typed, Open
  <2>. QED BY <2>1, <2>2
<1>2. Typed'
    BY <1>1 DEF Typed, Commit
<1>3. tx' = NoTx
    BY DEF Commit
<1>. QED BY <1>2, <1>3, ClosedInv

(* Another client sets or takes out a row that is not locked.              *)
LEMMA OtherWriteAdjusts ==
    ASSUME Typed, OtherWrites
    PROVE  \E k \in Keys \ Locked, v \in Values \cup {Absent} : rows' = Adjust(rows, k, v)
<1>1. PICK k \in Keys \ Locked :
          \/ \E v \in Values : rows' = Mirror!Put(rows, k, v)
          \/ k \in DOMAIN rows /\ rows' = Restrict(rows, DOMAIN rows \ {k})
    BY DEF OtherWrites
<1>2. ASSUME NEW v \in Values, rows' = Mirror!Put(rows, k, v) PROVE rows' = Adjust(rows, k, v)
  <2>1. v # Absent
    BY SinkAssumption DEF Absent
  <2>. QED BY <1>2, <2>1, AdjustIs DEF Mirror!Put
<1>3. ASSUME rows' = Restrict(rows, DOMAIN rows \ {k}) PROVE rows' = Adjust(rows, k, Absent)
    BY <1>3, AdjustIs DEF Restrict
<1>. QED BY <1>1, <1>2, <1>3

(* A write to a row that is not locked might have come before the          *)
(* transaction.                                                            *)
LEMMA OtherWritesInv ==
    ASSUME IInv, OtherWrites
    PROVE  IInv'
<1>. USE DEF IInv
<1>1. PICK k \in Keys \ Locked, v \in Values \cup {Absent} : rows' = Adjust(rows, k, v)
    BY OtherWriteAdjusts
<1>2. UNCHANGED <<route, base, made, waiting, phase, tx, schema, refused>> /\ others' \in 0..MaxOthers
    BY SinkAssumption DEF OtherWrites, Typed
<1>3. rows' \in Mirror!Tables
    BY <1>1, AdjustTable DEF Typed
<1>4. Typed'
    BY <1>2, <1>3 DEF Typed
<1>5. Open'
    BY <1>2 DEF Open
<1>6. ASSUME tx # NoTx, tx.at > 0 PROVE Committed' = Adjust(Committed, k, v)
  <2>1. k \notin DOMAIN tx.undo
    BY <1>6 DEF Locked
  <2>2. Undone(Adjust(rows, k, v), tx.undo) = Adjust(Undone(rows, tx.undo), k, v)
    BY <2>1, AdjustUndone
  <2>3. schema # "engine"
    BY <1>6 DEF Open
  <2>. QED BY <1>1, <1>2, <1>6, <2>2, <2>3 DEF Committed
<1>7. ASSUME tx # NoTx, NEW i \in 1..tx.at - 1 PROVE ~ Names(tx.changes[i], k)
    BY <1>7 DEF Open, Locked
<1>8. Progress'
  <2>. SUFFICES ASSUME tx # NoTx, ~ tx.copy, tx.at > 0 PROVE Progress'
    BY <1>2 DEF Progress
  <2>1. PICK n, changes, e : n = tx.at - 1 /\ changes = tx.changes /\ e = Exact
    OBVIOUS
  <2>2. n \in Nat
    BY <2>1, TxFields
  <2>3. PICK during \in [0..n -> Mirror!Tables] :
            during[0] = Committed /\ during[n] = rows /\ Path(during, changes, n, e)
    BY <2>1 DEF Progress
  <2>. DEFINE moved == [i \in 0..n |-> Adjust(during[i], k, v)]
  <2>4. moved \in [0..n -> Mirror!Tables]
    BY <1>1, AdjustTable
  <2>5. moved[0] = Committed' /\ moved[n] = rows'
    BY <1>1, <1>6, <2>2, <2>3
  <2>6. ASSUME NEW i \in 1..n
        PROVE  /\ Mirror!Applicable(moved[i - 1], changes[i])
               /\ \E w \in IF e THEN {changes[i].value} ELSE Values :
                     moved[i] = Mirror!Effect(moved[i - 1], changes[i], w)
    <3>1. moved[i - 1] = Adjust(during[i - 1], k, v) /\ moved[i] = Adjust(during[i], k, v)
      BY <2>2
    <3>2. ~ Names(changes[i], k)
      BY <1>7, <2>1
    <3>3. PICK w \in IF e THEN {changes[i].value} ELSE Values :
              during[i] = Mirror!Effect(during[i - 1], changes[i], w)
      BY <2>3 DEF Path
    <3>4. Mirror!Applicable(during[i - 1], changes[i])
      BY <2>3 DEF Path
    <3>. HIDE DEF moved
    <3>5. Mirror!Applicable(moved[i - 1], changes[i])
      BY <3>1, <3>2, <3>4, AdjustApplicable
    <3>6. moved[i] = Mirror!Effect(moved[i - 1], changes[i], w)
      BY <3>1, <3>2, <3>3, AdjustEffect
    <3>. QED BY <3>5, <3>6
  <2>. HIDE DEF moved
  <2>7. Path(moved, changes, n, e)
    BY <2>6 DEF Path
  <2>8. tx'.at - 1 = n /\ tx'.changes = changes /\ Exact' = e
    BY <1>2, <2>1 DEF Exact
  <2>9. Path(moved, changes, n, Exact')
    BY <2>7, <2>8
  <2>. QED BY <2>4, <2>5, <2>8, <2>9 DEF Progress
<1>9. Verified'
  <2>. SUFFICES ASSUME tx # NoTx, ~ tx.copy, NEW i \in 1..tx.at - 1,
                       tx.changes[i].op # "delete", ~ tx.changes[i].keeps,
                       \A j \in i + 1..tx.at - 1 : ~ Names(tx.changes[j], tx.changes[i].newKey)
                PROVE  Compared(tx.changes[i].newKey, tx.changes[i].value)'
    BY <1>2 DEF Verified, Names, Compared, Generated
  <2>1. PICK j, w : j = tx.changes[i].newKey /\ w = tx.changes[i].value
    OBVIOUS
  <2>2. Compared(j, w)
    BY <2>1 DEF Verified
  <2>3. j # k
    BY <1>7, <2>1 DEF Names
  <2>4. j \in DOMAIN rows' /\ rows'[j] = rows[j]
    BY <1>1, <2>2, <2>3, AdjustElsewhere DEF Compared
  <2>. QED BY <1>2, <2>1, <2>2, <2>4 DEF Compared, Generated
<1>. QED BY <1>4, <1>5, <1>8, <1>9

(* A table is redefined only before its check.                             *)
LEMMA OtherAltersInv ==
    ASSUME IInv, NEW definition \in Definitions, OtherAlters(definition)
    PROVE  IInv'
<1>. USE DEF IInv
<1>1. UNCHANGED <<route, base, made, waiting, phase, tx, refused>> /\ others' \in 0..MaxOthers
      /\ schema' = definition /\ (tx = NoTx \/ tx.at = 0)
    BY SinkAssumption DEF OtherAlters, Typed
<1>2. rows' \in Mirror!Tables
  <2>1. CASE definition = "lossy"
    <3>1. rows' \in [DOMAIN rows -> Values]
      BY <2>1, LeastValue DEF OtherAlters
    <3>. QED BY <3>1, TableElim, TableIntro DEF Typed
  <2>2. CASE definition # "lossy"
    BY <2>2 DEF OtherAlters, Typed
  <2>. QED BY <2>1, <2>2
<1>3. Typed'
    BY <1>1, <1>2 DEF Typed
<1>4. Open'
    BY <1>1 DEF Open
<1>5. Progress'
    BY <1>1 DEF Progress
<1>6. Verified'
    BY <1>1 DEF Verified
<1>. QED BY <1>3, <1>4, <1>5, <1>6

(* The invariant is inductive.                                             *)
LEMMA Inductive == IInv /\ [Next]_vars => IInv'
<1>. SUFFICES ASSUME IInv, [Next]_vars PROVE IInv'
    OBVIOUS
<1>1. CASE SourceCommit
    BY <1>1, SourceCommitInv
<1>2. CASE BeginCopy
    BY <1>2, BeginCopyInv
<1>3. CASE BeginApply
    BY <1>3, BeginApplyInv
<1>4. CASE CheckTables
    BY <1>4, CheckTablesInv
<1>5. CASE Statement
    BY <1>5, StatementInv
<1>6. CASE Refuse
    BY <1>6, RollbackInv DEF Refuse, IInv, Typed
<1>7. CASE Commit
    BY <1>7, CommitInv
<1>8. CASE Lose
    BY <1>8, RollbackInv DEF Lose, IInv, Typed
<1>9. CASE OtherWrites
    BY <1>9, OtherWritesInv
<1>10. CASE \E definition \in Definitions : OtherAlters(definition)
    BY <1>10, OtherAltersInv
<1>11. CASE UNCHANGED vars
  <2>1. Typed' /\ Open'
    BY <1>11 DEF vars, IInv, Typed, Open
  <2>2. Progress' /\ Verified'
    BY <1>11, SameWork DEF vars, IInv
  <2>. QED BY <2>1, <2>2 DEF IInv
<1>. QED BY <1>1, <1>2, <1>3, <1>4, <1>5, <1>6, <1>7, <1>8, <1>9, <1>10, <1>11 DEF Next

(* The invariant holds: nothing that other clients, lost connections or    *)
(* refusals do to an open transaction disturbs it.                         *)
THEOREM InvariantHolds == Spec => []IInv
BY InitInv, Inductive, PTL DEF Spec

-------------------------------------------------------------------------------
(* What was compared.                                                      *)

(* At COMMIT the last statement that names a row is the last of all.       *)
LEMMA VerifiedAtCommit == IInv => CommitsWhatWasVerified
<1>. SUFFICES ASSUME IInv, tx # NoTx, ~ tx.copy, tx.at = Len(tx.changes) + 1,
                     NEW i \in DOMAIN tx.changes, NEW k \in Keys,
                     LastWrite(i, k), ~ tx.changes[i].keeps
              PROVE  /\ route.carrier => rows[k] = tx.changes[i].value
                     /\ route.sink = "postgresql" /\ route.generated =>
                            Generated(schema, rows[k]) = Generated("plain", tx.changes[i].value)
    BY DEF CommitsWhatWasVerified
<1>1. tx.changes \in Seq(Changes)
    BY TxFields DEF IInv
<1>2. tx.at - 1 = Len(tx.changes) /\ i \in 1..tx.at - 1
    BY <1>1
<1>3. tx.changes[i].op # "delete" /\ tx.changes[i].newKey = k
    BY DEF LastWrite
<1>4. \A j \in i + 1..tx.at - 1 : ~ Names(tx.changes[j], k)
    BY <1>2 DEF LastWrite, Names
<1>5. Compared(k, tx.changes[i].value)
    BY <1>2, <1>3, <1>4 DEF IInv, Verified
<1>. QED BY <1>5 DEF Compared

(* CommitsWhatWasVerified holds for every set of keys and values, however  *)
(* many transactions wait and whatever number of steps other clients take: *)
(* the comparison of a statement is still true at COMMIT, because the rows *)
(* it looked at are locked and the table cannot be redefined.              *)
THEOREM CommitsWhatWasVerifiedHolds == Spec => []CommitsWhatWasVerified
BY InvariantHolds, VerifiedAtCommit, PTL

-------------------------------------------------------------------------------
(* The sink implements AtomicMirror.                                       *)

(* The initial states are those of AtomicMirror.                           *)
LEMMA MirrorInit == Init => Mirror!Init
<1>. SUFFICES ASSUME Init PROVE Mirror!Init
    OBVIOUS
<1>1. Committed \in Mirror!Tables
    BY InitInv, CommittedTable DEF IInv
<1>. QED BY <1>1 DEF Init, Mirror!Init

(* What the source commits waits, or is part of a copy to come.            *)
LEMMA SourceCommitMirror ==
    ASSUME IInv, SourceCommit
    PROVE  [Mirror!Next]_(Mirror!vars)
<1>1. UNCHANGED <<route, phase, rows, tx, schema, others>>
    BY DEF SourceCommit
<1>2. Committed' = Committed
    BY <1>1 DEF Committed
<1>3. waiting' = waiting \/ \E changes : waiting' = Append(waiting, changes)
    BY DEF SourceCommit
<1>4. CASE waiting' = waiting
    BY <1>1, <1>2, <1>4 DEF Mirror!vars
<1>5. ASSUME NEW changes, waiting' = Append(waiting, changes) PROVE Mirror!Next
  <2>1. waiting \in Seq(Seq(Changes))
    BY DEF IInv, Typed
  <2>2. Len(waiting') = Len(waiting) + 1
    BY <1>5, <2>1
  <2>3. SubSeq(waiting', 1, Len(waiting)) = waiting
    BY <1>5, <2>1
  <2>4. Mirror!SourceCommit
    BY <1>1, <1>2, <2>2, <2>3 DEF Mirror!SourceCommit
  <2>. QED BY <2>4 DEF Mirror!Next
<1>. QED BY <1>3, <1>4, <1>5

(* COMMIT is the copy, or the transaction applied whole.                   *)
LEMMA CommitMirror ==
    ASSUME IInv, Commit
    PROVE  Mirror!Next
<1>. USE DEF IInv
<1>1. UNCHANGED <<route, rows, schema, others>> /\ tx # NoTx /\ tx' = NoTx
      /\ tx.at = Len(tx.changes) + 1 /\ phase' = "incremental"
    BY DEF Commit
<1>2. /\ tx.copy \in BOOLEAN /\ tx.changes \in Seq(Changes)
      /\ tx.at \in Nat /\ tx.undo \in Undos
    BY <1>1, TxFields
<1>3. tx.at > 0 /\ tx.at - 1 = Len(tx.changes)
    BY <1>1, <1>2
<1>4. Committed' = rows
    BY <1>1 DEF Committed
<1>5. CASE tx.copy
  <2>1. Committed = Undone(rows, tx.undo)
    BY <1>1, <1>3 DEF Committed, Open
  <2>2. \A k \in DOMAIN tx.undo : tx.undo[k] = Absent
    BY <1>1, <1>5 DEF Open
  <2>3. Committed = [k \in DOMAIN rows \ DOMAIN tx.undo |-> rows[k]]
    BY <2>1, <2>2 DEF Undone
  <2>4. Mirror!Restrict(rows, DOMAIN Committed) = Committed
    BY <2>3 DEF Mirror!Restrict
  <2>5. phase = "snapshot" /\ waiting' = waiting
    BY <1>1, <1>5 DEF Open, Commit
  <2>6. Mirror!Copy
    BY <1>1, <1>4, <2>4, <2>5 DEF Mirror!Copy, Typed
  <2>. QED BY <2>6 DEF Mirror!Next
<1>6. CASE ~ tx.copy
  <2>1. phase = "incremental" /\ waiting # << >> /\ tx.changes = Head(waiting)
        /\ waiting' = Tail(waiting)
    BY <1>1, <1>6 DEF Open, Commit
  <2>2. PICK n, changes : n = Len(tx.changes) /\ changes = tx.changes
    OBVIOUS
  <2>3. PICK during \in [0..n -> Mirror!Tables] :
            during[0] = Committed /\ during[n] = rows /\ Path(during, changes, n, Exact)
    BY <1>1, <1>3, <1>6, <2>2 DEF Progress
  <2>4. \A i \in 1..n :
            /\ Mirror!Applicable(during[i - 1], changes[i])
            /\ \E v \in Mirror!Storable(changes[i]) :
                  during[i] = Mirror!Effect(during[i - 1], changes[i], v)
    BY <2>3 DEF Path, Mirror!Storable, Exact
  <2>5. \E d \in [0..Len(Head(waiting)) -> Mirror!Tables] :
            /\ d[0] = Committed
            /\ \A i \in 1..Len(Head(waiting)) :
                  /\ Mirror!Applicable(d[i - 1], Head(waiting)[i])
                  /\ \E v \in Mirror!Storable(Head(waiting)[i]) :
                        d[i] = Mirror!Effect(d[i - 1], Head(waiting)[i], v)
            /\ Committed' = d[Len(Head(waiting))]
    <3>1. n = Len(Head(waiting)) /\ changes = Head(waiting)
      BY <2>1, <2>2
    <3>2. Committed' = during[n]
      BY <1>4, <2>3
    <3>3. \E d \in [0..n -> Mirror!Tables] :
            /\ d[0] = Committed
            /\ \A i \in 1..n :
                  /\ Mirror!Applicable(d[i - 1], changes[i])
                  /\ \E v \in Mirror!Storable(changes[i]) :
                        d[i] = Mirror!Effect(d[i - 1], changes[i], v)
            /\ Committed' = d[n]
      BY <2>3, <2>4, <3>2
    <3>. QED BY <3>1, <3>3
  <2>6. UNCHANGED <<phase = "incremental", route.carrier \/ schema # "lossy", others>>
    BY <1>1, <2>1
  <2>7. Mirror!Apply
    BY <2>1, <2>5, <2>6, Zenon DEF Mirror!Apply
  <2>. QED BY <2>7 DEF Mirror!Next
<1>. QED BY <1>5, <1>6

(* What other clients do.                                                  *)
LEMMA OthersMirror ==
    ASSUME Typed, Typed', others' = others + 1, UNCHANGED <<waiting, phase>>
    PROVE  Mirror!Next
<1>1. Committed' \in Mirror!Tables
  <2>1. tx' = NoTx \/ tx'.undo \in Undos
    BY DEF Typed, Shape
  <2>2. rows' \in Mirror!Tables
    BY DEF Typed
  <2>. QED BY <2>1, <2>2, UndoneTable DEF Committed
<1>2. (route.carrier \/ schema # "lossy")' \in BOOLEAN
    OBVIOUS
<1>3. Mirror!Others
    BY <1>1, <1>2 DEF Mirror!Others
<1>. QED BY <1>3 DEF Mirror!Next

(* Every step is one of AtomicMirror or changes nothing it sees.           *)
LEMMA MirrorStep ==
    ASSUME IInv, IInv', [Next]_vars
    PROVE  [Mirror!Next]_(Mirror!vars)
<1>1. CASE SourceCommit
    BY <1>1, SourceCommitMirror
<1>2. CASE BeginCopy
  <2>1. Committed' = Committed
    BY <1>2, BeginCopyInv
  <2>2. Mirror!BeginCopy
    BY <1>2, <2>1 DEF BeginCopy, Mirror!BeginCopy
  <2>. QED BY <2>2 DEF Mirror!Next
<1>3. CASE BeginApply
    BY <1>3, BeginApplyInv DEF BeginApply, Mirror!vars
<1>4. CASE CheckTables
    BY <1>4, CheckTablesInv DEF CheckTables, Mirror!vars
<1>5. CASE Statement
    BY <1>5, StatementInv DEF Statement, Mirror!vars
<1>6. CASE Refuse
    BY <1>6, RollbackInv DEF Refuse, Mirror!vars, IInv, Typed
<1>7. CASE Commit
    BY <1>7, CommitMirror
<1>8. CASE Lose
    BY <1>8, RollbackInv DEF Lose, Mirror!vars, IInv, Typed
<1>9. CASE OtherWrites
    BY <1>9, OthersMirror DEF OtherWrites, IInv
<1>10. CASE \E definition \in Definitions : OtherAlters(definition)
    BY <1>10, OthersMirror DEF OtherAlters, IInv
<1>11. CASE UNCHANGED vars
    BY <1>11 DEF vars, Mirror!vars, Committed
<1>. QED BY <1>1, <1>2, <1>3, <1>4, <1>5, <1>6, <1>7, <1>8, <1>9, <1>10, <1>11 DEF Next

(* KeepsMirror: however many statements a transaction has, whatever other  *)
(* clients write and however often an attempt is refused or lost, what is  *)
(* committed changes only by a whole copy, a whole source transaction on   *)
(* the rows it names, or another client's hand.                            *)
THEOREM KeepsMirrorHolds == Spec => KeepsMirror
<1>1. Init => Mirror!Init
    BY MirrorInit
<1>2. IInv /\ IInv' /\ [Next]_vars => [Mirror!Next]_(Mirror!vars)
    BY MirrorStep
<1>. QED BY <1>1, <1>2, InvariantHolds, PTL DEF Spec, KeepsMirror, Mirror!Spec

-------------------------------------------------------------------------------
(* Where transactions lead.                                                *)

(* Changes lead to one table only.                                         *)
LEMMA WalkUnique ==
    ASSUME NEW changes, NEW n \in Nat, NEW d, NEW e, d[0] = e[0],
           Walk(d, changes, n), Walk(e, changes, n)
    PROVE  \A i \in 0..n : d[i] = e[i]
<1>. DEFINE S == {i \in 0..n : d[i] # e[i]}
<1>. SUFFICES ASSUME S # {} PROVE FALSE
    OBVIOUS
<1>1. PICK m \in S : \A k \in S : m <= k
  <2>1. S \in SUBSET Nat
    OBVIOUS
  <2>. HIDE DEF S
  <2>. QED BY <2>1, LeastExists
<1>2. m \in 1..n
    OBVIOUS
<1>3. m - 1 \in 0..n /\ m - 1 \notin S
    BY <1>1, <1>2
<1>4. d[m] = Mirror!Effect(d[m - 1], changes[m], changes[m].value)
    BY <1>2 DEF Walk
<1>5. e[m] = Mirror!Effect(e[m - 1], changes[m], changes[m].value)
    BY <1>2 DEF Walk
<1>. QED BY <1>3, <1>4, <1>5

(* Made is where the changes lead.                                         *)
LEMMA LeadsMade ==
    ASSUME NEW t, NEW changes \in Seq(Changes), NEW u, Leads(t, changes, u)
    PROVE  Made(t, changes, Len(changes)) = u
<1>1. PICK d : d[0] = t /\ d[Len(changes)] = u /\ Walk(d, changes, Len(changes))
    BY DEF Leads
<1>2. \A i \in 1..Len(changes) : d[i] = Mirror!Effect(d[i - 1], changes[i], changes[i].value)
    BY <1>1 DEF Walk
<1>3. Len(changes) \in Nat
    OBVIOUS
<1>. QED BY <1>1, <1>2, <1>3, MadeIs

(* A function that satisfies the equation of Replayed is the one it takes. *)
LEMMA ReplayedIs ==
    ASSUME NEW t, NEW w, NEW n \in Nat, NEW d, d[0] = t,
           \A i \in 1..n : d[i] = Made(d[i - 1], w[i], Len(w[i]))
    PROVE  Replayed(t, w, n) = d[n]
<1>. DEFINE after[i \in 0..n] == IF i = 0 THEN t ELSE Made(after[i - 1], w[i], Len(w[i]))
            g == [i \in 0..n |-> d[i]]
<1>1. g = [i \in 0..n |-> IF i = 0 THEN t ELSE Made(g[i - 1], w[i], Len(w[i]))]
    OBVIOUS
<1>2. after = [i \in 0..n |-> IF i = 0 THEN t ELSE Made(after[i - 1], w[i], Len(w[i]))]
  <2>. HIDE DEF g
  <2>. QED BY <1>1
<1>3. Replayed(t, w, n) = after[n]
    BY DEF Replayed
<1>. HIDE DEF after
<1>4. \A i \in 0..n : after[i] = d[i]
  <2>. DEFINE S == {i \in 0..n : after[i] # d[i]}
  <2>. SUFFICES ASSUME S # {} PROVE FALSE
    OBVIOUS
  <2>1. PICK m \in S : \A k \in S : m <= k
    <3>1. S \in SUBSET Nat
      OBVIOUS
    <3>. HIDE DEF S
    <3>. QED BY <3>1, LeastExists
  <2>2. m # 0
    BY <1>2
  <2>3. m - 1 \in 0..n /\ m - 1 \notin S /\ m \in 1..n
    BY <2>1, <2>2
  <2>4. after[m] = Made(after[m - 1], w[m], Len(w[m]))
    BY <1>2, <2>2
  <2>5. d[m] = Made(d[m - 1], w[m], Len(w[m]))
    BY <2>3
  <2>. QED BY <2>3, <2>4, <2>5
<1>. QED BY <1>3, <1>4

(* Replayed is where the transactions lead.                                *)
LEMMA ChainReplayed ==
    ASSUME NEW t, NEW w \in Seq(Seq(Changes)), NEW u, Chain(t, w, u)
    PROVE  Replayed(t, w, Len(w)) = u
<1>1. PICK d : /\ d[0] = t /\ d[Len(w)] = u
               /\ \A i \in 1..Len(w) : Leads(d[i - 1], w[i], d[i])
    BY DEF Chain
<1>2. PICK n \in Nat : n = Len(w)
    OBVIOUS
<1>3. \A i \in 1..n : d[i] = Made(d[i - 1], w[i], Len(w[i]))
    BY <1>1, <1>2, LeadsMade
<1>4. Replayed(t, w, n) = d[n]
    BY <1>1, <1>3, ReplayedIs
<1>. QED BY <1>1, <1>2, <1>4

(* Nothing leads nowhere.                                                  *)
LEMMA ChainNothing ==
    ASSUME NEW t \in Mirror!Tables
    PROVE  Chain(t, << >>, t)
<1>. DEFINE d == [i \in 0..0 |-> t]
<1>1. d \in [0..0 -> Mirror!Tables] /\ d[0] = t
    OBVIOUS
<1>2. PICK w : w = << >>
    OBVIOUS
<1>3. Len(w) = 0
    BY <1>2
<1>. HIDE DEF d
<1>4. Chain(t, w, t)
    BY <1>1, <1>3 DEF Chain
<1>. QED BY <1>2, <1>4

(* One transaction more.                                                   *)
LEMMA ChainAppend ==
    ASSUME NEW t, NEW w \in Seq(Seq(Changes)), NEW u, Chain(t, w, u),
           NEW changes \in Seq(Changes), NEW v \in Mirror!Tables, Leads(u, changes, v)
    PROVE  Chain(t, Append(w, changes), v)
<1>1. PICK n \in Nat : n = Len(w)
    OBVIOUS
<1>2. PICK d \in [0..n -> Mirror!Tables] :
          d[0] = t /\ d[n] = u /\ \A i \in 1..n : Leads(d[i - 1], w[i], d[i])
    BY <1>1 DEF Chain
<1>3. PICK x : x = Append(w, changes)
    OBVIOUS
<1>4. Len(x) = n + 1 /\ x[n + 1] = changes /\ \A i \in 1..n : x[i] = w[i]
    BY <1>1, <1>3
<1>. DEFINE e == [i \in 0..n + 1 |-> IF i = n + 1 THEN v ELSE d[i]]
<1>5. /\ e \in [0..n + 1 -> Mirror!Tables]
      /\ e[n + 1] = v /\ \A i \in 0..n : e[i] = d[i]
    OBVIOUS
<1>. HIDE DEF e
<1>6. ASSUME NEW i \in 1..n + 1 PROVE Leads(e[i - 1], x[i], e[i])
  <2>1. CASE i = n + 1
    <3>1. e[i - 1] = u /\ x[i] = changes /\ e[i] = v
      BY <1>2, <1>4, <1>5, <2>1
    <3>. QED BY <3>1
  <2>2. CASE i # n + 1
    <3>1. i \in 1..n /\ i \in 0..n /\ i - 1 \in 0..n
      BY <2>2
    <3>2. e[i - 1] = d[i - 1] /\ x[i] = w[i] /\ e[i] = d[i]
      BY <1>4, <1>5, <3>1
    <3>. QED BY <1>2, <3>1, <3>2
  <2>. QED BY <2>1, <2>2
<1>7. e[0] = t
    BY <1>2, <1>5
<1>8. Chain(t, x, v)
    BY <1>4, <1>5, <1>6, <1>7 DEF Chain
<1>. QED BY <1>3, <1>8

(* The first transaction, and the rest.                                    *)
LEMMA ChainHead ==
    ASSUME NEW t, NEW w \in Seq(Seq(Changes)), NEW u, Chain(t, w, u), w # << >>
    PROVE  \E v \in Mirror!Tables : Leads(t, Head(w), v) /\ Chain(v, Tail(w), u)
<1>1. PICK n \in Nat : n = Len(w) /\ n > 0
    OBVIOUS
<1>2. PICK d \in [0..n -> Mirror!Tables] :
          d[0] = t /\ d[n] = u /\ \A i \in 1..n : Leads(d[i - 1], w[i], d[i])
    BY <1>1 DEF Chain
<1>3. PICK x : x = Tail(w)
    OBVIOUS
<1>4. Len(x) = n - 1 /\ \A i \in 1..n - 1 : x[i] = w[i + 1]
    BY <1>1, <1>3
<1>. DEFINE e == [i \in 0..n - 1 |-> d[i + 1]]
<1>5. e \in [0..n - 1 -> Mirror!Tables] /\ \A i \in 0..n - 1 : e[i] = d[i + 1]
    BY <1>1
<1>. HIDE DEF e
<1>6. ASSUME NEW i \in 1..n - 1 PROVE Leads(e[i - 1], x[i], e[i])
  <2>1. i + 1 \in 1..n /\ (i + 1) - 1 = i /\ i \in 0..n - 1 /\ i - 1 \in 0..n - 1 /\ (i - 1) + 1 = i
    BY <1>1
  <2>2. e[i - 1] = d[i] /\ e[i] = d[i + 1] /\ x[i] = w[i + 1]
    BY <1>4, <1>5, <2>1
  <2>3. Leads(d[(i + 1) - 1], w[i + 1], d[i + 1])
    BY <1>2, <2>1
  <2>. QED BY <2>1, <2>2, <2>3
<1>7. e[0] = d[1] /\ e[n - 1] = u /\ d[1] \in Mirror!Tables
  <2>1. 0 \in 0..n - 1 /\ n - 1 \in 0..n - 1 /\ 1 \in 0..n /\ 0 + 1 = 1 /\ (n - 1) + 1 = n
    BY <1>1
  <2>2. e[0] = d[0 + 1] /\ e[n - 1] = d[(n - 1) + 1]
    BY <1>5, <2>1
  <2>. QED BY <1>2, <2>1, <2>2
<1>8. Chain(d[1], x, u)
    BY <1>4, <1>5, <1>6, <1>7 DEF Chain
<1>9. Leads(t, Head(w), d[1])
  <2>1. 1 \in 1..n /\ Head(w) = w[1]
    BY <1>1
  <2>2. Leads(d[1 - 1], w[1], d[1])
    BY <1>2, <2>1
  <2>. QED BY <1>2, <2>1, <2>2
<1>. QED BY <1>3, <1>7, <1>8, <1>9

-------------------------------------------------------------------------------
(* A table as it was qualified accepts what applies to it.                 *)

(* What is looked at, and when.                                            *)
LEMMA LooksAre ==
    ASSUME tx.copy = FALSE, route.sink \in {"mysql", "postgresql"}, NEW c \in Changes
    PROVE  /\ \A look \in Planned(c).readbacks :
                 c.op # "delete" /\ ~ c.keeps /\ look = Look(c.newKey, c.value)
           /\ \A look \in Planned(c).verification :
                 c.op # "delete" /\ route.generated /\ look = Look(c.newKey, Generated("plain", c.value))
<1>1. AfterImage(c).value # Absent => ~ c.keeps
    BY DEF AfterImage
<1>2. CASE route.sink = "mysql"
  <2>1. Planned(c) = MySqlPlanned(c)
    BY <1>2 DEF Planned
  <2>. QED BY <1>1, <2>1 DEF MySqlPlanned, MySqlReadbacks
<1>3. CASE route.sink = "postgresql"
  <2>1. Planned(c) = PgPlanned(c)
    BY <1>3 DEF Planned
  <2>. QED BY <1>1, <2>1 DEF PgPlanned, PgCarrierReadbacks, PgVerification
<1>. QED BY <1>2, <1>3

(* A change that applies is accepted.                                      *)
LEMMA PlainAccepts ==
    ASSUME Typed, tx.copy = FALSE, schema = "plain", NEW c \in Changes, Mirror!Applicable(rows, c),
           route.generated => ~ c.keeps
    PROVE  Accepted(c)
<1>. DEFINE s == Planned(c).statement
            after == Executed(s)
<1>1. /\ s.op = c.op /\ s.where = c.key
      /\ c.op # "delete" => s.sets = Writable(AfterImage(c))
      /\ Planned(c).probe = IF c.op = "insert" THEN {} ELSE {c.key}
    BY StatementOf DEF Typed
<1>2. c.op # "delete" => s.sets.key = c.newKey
    BY <1>1, WrittenColumns
<1>3. c.op # "insert" => c.key \in DOMAIN rows
    BY DEF Mirror!Applicable
<1>4. after = Mirror!Effect(rows, c, c.value)
    BY <1>3, ExecutedEffect DEF StoredAs
<1>5. c.op # "delete" /\ ~ c.keeps => c.newKey \in DOMAIN after /\ after[c.newKey] = c.value
    BY <1>4, EffectValue
<1>6. ASSUME NEW look \in Planned(c).readbacks
      PROVE  look.key \in DOMAIN after /\ after[look.key] = look.value
  <2>1. c.op # "delete" /\ ~ c.keeps /\ look = Look(c.newKey, c.value)
    BY LooksAre DEF Typed
  <2>2. look.key = c.newKey /\ look.value = c.value
    BY <2>1 DEF Look
  <2>. HIDE DEF after
  <2>. QED BY <1>5, <2>1, <2>2
<1>7. ASSUME NEW look \in Planned(c).verification
      PROVE  look.key \in DOMAIN after /\ Generated(schema, after[look.key]) = look.value
  <2>1. c.op # "delete" /\ route.generated /\ look = Look(c.newKey, Generated("plain", c.value))
    BY LooksAre DEF Typed
  <2>2. look.key = c.newKey /\ look.value = Generated("plain", c.value)
    BY <2>1 DEF Look
  <2>. HIDE DEF after
  <2>. QED BY <1>5, <2>1, <2>2
<1>8. Planned(c).probe \subseteq DOMAIN rows
    BY <1>1, <1>3
<1>. HIDE DEF s
<1>9. ~ Duplicate(s)
    BY <1>1, <1>2, ChangeFields DEF Duplicate, Mirror!Applicable
<1>10. ~ Complains(s)
    BY DEF Complains
<1>11. Affected(s) \in {0, 1} /\ (c.op # "update" \/ route.sink # "mysql" => Affected(s) = 1)
    BY <1>1, <1>3 DEF Affected
<1>12. CASE route.sink = "mysql"
  <2>1. MySqlCounts(s)
    BY <1>1, <1>11 DEF MySqlCounts
  <2>2. MySqlExecutes(Planned(c))
    BY <1>6, <1>8, <1>9, <1>10, <2>1 DEF MySqlExecutes, MySqlReadsBack, s
  <2>. QED BY <1>12, <2>2 DEF Accepted
<1>13. CASE route.sink = "postgresql"
  <2>1. Affected(s) = 1
    BY <1>11, <1>13
  <2>2. PgExecutes(Planned(c))
    BY <1>6, <1>7, <1>8, <1>9, <1>10, <2>1 DEF PgExecutes, PgReadsBack, s
  <2>. QED BY <1>13, <2>2 DEF Accepted
<1>. QED BY <1>12, <1>13 DEF Typed

(* A row of the copy that is not there yet is accepted.                    *)
LEMMA PlainInserts ==
    ASSUME Typed, tx.copy = TRUE, schema = "plain", NEW c \in Changes, c.op = "insert",
           c.key \notin DOMAIN rows
    PROVE  Accepted(c)
<1>. DEFINE s == Planned(c).statement
<1>1. s.op = "insert" /\ s.where = c.key /\ s.sets = Writable(AfterImage(c))
    BY InsertOf
<1>2. s.sets.key = c.key
    BY <1>1, WrittenColumns, ChangeFields
<1>. HIDE DEF s
<1>3. ~ Duplicate(s) /\ ~ Complains(s) /\ Affected(s) = 1
    BY <1>1, <1>2 DEF Duplicate, Complains, Affected
<1>4. MySqlInserts(Planned(c)) /\ PgInserts(Planned(c))
    BY <1>3 DEF MySqlInserts, PgInserts, s
<1>. QED BY <1>4 DEF Accepted, Typed

-------------------------------------------------------------------------------
(* A sink that is left alone.                                              *)

(* The keys in ascending order are all the keys, each once.                *)
LEMMA AscendingKeys ==
    ASSUME NEW t \in Mirror!Tables, NEW keys \in Ascending(t),
           NEW n, n = Cardinality(DOMAIN t)
    PROVE  /\ n \in Nat /\ keys \in [1..n -> DOMAIN t]
           /\ \A i, j \in 1..n : i # j => keys[i] # keys[j]
           /\ \A k \in DOMAIN t : \E j \in 1..n : keys[j] = k
<1>1. IsFiniteSet(DOMAIN t) /\ n \in Nat
    BY TableElim, SinkAssumption, FS_Subset, FS_CardinalityType
<1>2. keys \in [1..n -> DOMAIN t] /\ \A i, j \in 1..n : i < j => keys[i] < keys[j]
    BY DEF Ascending
<1>3. \A i \in 1..n : keys[i] \in Nat
    BY <1>2, TableElim, SinkAssumption
<1>4. ASSUME NEW i \in 1..n, NEW j \in 1..n, i # j PROVE keys[i] # keys[j]
  <2>1. i < j \/ j < i
    BY <1>1, <1>4
  <2>. QED BY <1>2, <1>3, <2>1
<1>5. keys \in Injection(1..n, DOMAIN t)
    BY <1>2, <1>4 DEF Injection, IsInjective
<1>6. Cardinality(1..n) = n
    BY <1>1, FS_Interval
<1>7. keys \in Surjection(1..n, DOMAIN t)
    BY <1>1, <1>5, <1>6, FS_Injection
<1>8. \A k \in DOMAIN t : \E j \in 1..n : keys[j] = k
    BY <1>7 DEF Surjection
<1>. QED BY <1>1, <1>2, <1>4, <1>8

(* No key comes twice.                                                     *)
LEMMA DistinctKeys ==
    ASSUME NEW t \in Mirror!Tables, NEW keys \in Ascending(t),
           NEW n, n = Cardinality(DOMAIN t), NEW i \in 1..n, NEW j \in 1..n, i # j
    PROVE  keys[i] # keys[j]
BY AscendingKeys

(* The rows of the copy.                                                   *)
LEMMA CopyOfAt ==
    ASSUME NEW t \in Mirror!Tables, NEW keys \in Ascending(t),
           NEW n, n = Cardinality(DOMAIN t), NEW copy, copy = CopyOf(t, keys)
    PROVE  /\ Len(copy) = n
           /\ \A i \in 1..n : /\ copy[i].op = "insert"
                              /\ copy[i].key = keys[i] /\ copy[i].newKey = keys[i]
                              /\ copy[i].value = t[keys[i]] /\ ~ copy[i].keeps
<1>1. n \in Nat /\ DOMAIN keys = 1..n
    BY AscendingKeys
<1>. DEFINE at(i) == Change("insert", keys[i], keys[i], t[keys[i]], FALSE)
<1>2. copy = [i \in 1..n |-> at(i)]
    BY <1>1, Zenon DEF CopyOf
<1>3. \A i : /\ at(i).op = "insert" /\ at(i).key = keys[i] /\ at(i).newKey = keys[i]
             /\ at(i).value = t[keys[i]] /\ ~ at(i).keeps
    BY DEF Change
<1>. HIDE DEF at
<1>4. \A i \in 1..n : copy[i] = at(i)
    BY <1>2
<1>5. Len(copy) = n
  <2>1. copy \in Seq(Changes)
    BY CopyOfChanges
  <2>2. DOMAIN copy = 1..n
    BY <1>2
  <2>. QED BY <1>1, <2>1, <2>2
<1>. QED BY <1>3, <1>4, <1>5

(* The rows of an apply under way are on the way of the transaction.       *)
LEMMA OnTheWay ==
    ASSUME IInv, Alone, others = 0, tx # NoTx, ~ tx.copy, tx.at > 0
    PROVE  \E p, u :
              /\ u \in Mirror!Tables /\ Chain(u, Tail(waiting), base)
              /\ Walk(p, tx.changes, Len(tx.changes))
              /\ p[tx.at - 1] = rows /\ p[Len(tx.changes)] = u
<1>. USE DEF IInv
<1>1. PICK n, m, changes : n = tx.at - 1 /\ m = Len(tx.changes) /\ changes = tx.changes
    OBVIOUS
<1>2. n \in Nat /\ m \in Nat /\ n <= m /\ changes = Head(waiting)
  <2>1. tx.at \in Nat /\ tx.changes \in Seq(Changes)
    BY TxFields
  <2>. QED BY <1>1, <2>1 DEF Open
<1>3. waiting # << >> /\ Chain(Committed, waiting, base)
    BY DEF Open, Alone
<1>4. PICK u \in Mirror!Tables : Leads(Committed, Head(waiting), u) /\ Chain(u, Tail(waiting), base)
    BY <1>3, ChainHead DEF Typed
<1>5. PICK p : p[0] = Committed /\ p[m] = u /\ Walk(p, changes, m)
    BY <1>1, <1>2, <1>4 DEF Leads
<1>6. PICK during : during[0] = Committed /\ during[n] = rows /\ Path(during, changes, n, Exact)
    BY <1>1 DEF Progress
<1>7. Walk(during, changes, n)
    BY <1>6 DEF Path, Walk, Exact, Alone
<1>8. Walk(p, changes, n)
    BY <1>2, <1>5 DEF Walk
<1>9. p[n] = during[n]
    BY <1>2, <1>5, <1>6, <1>7, <1>8, WalkUnique
<1>. QED BY <1>1, <1>4, <1>5, <1>6, <1>9

(* So nothing is refused.                                                  *)
LEMMA NothingRefused ==
    ASSUME IInv, Alone, others = 0, Refuse
    PROVE  FALSE
<1>. USE DEF IInv
<1>1. tx # NoTx /\ schema = "plain"
    BY DEF Refuse, Alone
<1>2. tx.copy \in BOOLEAN /\ tx.changes \in Seq(Changes) /\ tx.at \in Nat
    BY <1>1, TxFields
<1>3. ASSUME tx.copy PROVE CopyUnderWay
    BY <1>1, <1>3 DEF Alone, Open
<1>4. CASE tx.at = 0 /\ ~ QualifiedTable
  <2>1. ASSUME tx.copy PROVE DOMAIN rows = {}
    <3>1. PICK t \in Mirror!Tables : \E keys \in Ascending(t) :
            rows = [k \in {keys[j] : j \in 1..tx.at - 1} |-> t[k]]
      BY <1>3, <2>1 DEF CopyUnderWay
    <3>2. PICK keys \in Ascending(t) : rows = [k \in {keys[j] : j \in 1..tx.at - 1} |-> t[k]]
      BY <3>1
    <3>3. {keys[j] : j \in 1..tx.at - 1} = {}
      BY <1>4
    <3>. QED BY <3>2, <3>3
  <2>. QED BY <1>1, <1>4, <2>1 DEF QualifiedTable, MySqlSnapshotTargets, PgSnapshotTargets,
           MySqlChecksTables, PgChecksTables, Typed
<1>5. CASE tx.at \in 1..Len(tx.changes) /\ ~ Accepted(tx.changes[tx.at])
  <2>1. PICK c \in Changes : c = tx.changes[tx.at]
    BY <1>2, <1>5
  <2>2. CASE tx.copy = FALSE
    <3>1. PICK p : Walk(p, tx.changes, Len(tx.changes)) /\ p[tx.at - 1] = rows
      BY <1>1, <1>2, <1>5, <2>2, OnTheWay
    <3>2. Mirror!Applicable(rows, c)
      BY <1>5, <2>1, <3>1 DEF Walk
    <3>3. route.generated => ~ c.keeps
      <4>1. waiting # << >> /\ tx.changes = Head(waiting)
        BY <1>1, <2>2 DEF Open
      <4>2. tx.changes = waiting[1] /\ 1 \in 1..Len(waiting)
        BY <4>1 DEF Typed
      <4>. QED BY <1>5, <2>1, <4>2 DEF Alone, Unkept
    <3>. QED BY <1>1, <1>5, <2>1, <2>2, <3>2, <3>3, PlainAccepts
  <2>3. CASE tx.copy = TRUE
    <3>1. PICK t \in Mirror!Tables : \E keys \in Ascending(t) :
            /\ tx.changes = CopyOf(t, keys)
            /\ rows = [k \in {keys[j] : j \in 1..tx.at - 1} |-> t[k]]
      BY <1>3, <2>3 DEF CopyUnderWay
    <3>2. PICK keys \in Ascending(t) :
            /\ tx.changes = CopyOf(t, keys)
            /\ rows = [k \in {keys[j] : j \in 1..tx.at - 1} |-> t[k]]
      BY <3>1
    <3>3. PICK n : n = Cardinality(DOMAIN t)
      OBVIOUS
    <3>4. c.op = "insert" /\ c.key = keys[tx.at] /\ tx.at \in 1..n
      BY <1>5, <2>1, <3>2, <3>3, CopyOfAt
    <3>5. ASSUME NEW j \in 1..tx.at - 1 PROVE keys[j] # keys[tx.at]
      <4>1. n \in Nat
        BY <3>3, AscendingKeys
      <4>2. j \in 1..n /\ j # tx.at
        BY <1>2, <3>4, <4>1
      <4>. QED BY <3>3, <3>4, <4>2, DistinctKeys
    <3>6. c.key \notin DOMAIN rows
      BY <3>2, <3>4, <3>5
    <3>. QED BY <1>1, <1>5, <2>1, <2>3, <3>4, <3>6, PlainInserts
  <2>. QED BY <1>2, <2>2, <2>3
<1>. QED BY <1>4, <1>5 DEF Refuse

(* Init: the sink is empty, or holds what the source holds.                *)
LEMMA AloneInit == Init => Alone
<1>. SUFFICES ASSUME Init PROVE Alone
    OBVIOUS
<1>1. IInv /\ waiting = << >> /\ tx = NoTx /\ schema = "plain"
    BY InitInv DEF Init
<1>2. ASSUME phase = "incremental" PROVE Chain(Committed, waiting, base)
  <2>1. Committed = base
    BY <1>2 DEF Init, Committed
  <2>2. Chain(base, << >>, base)
    BY <1>1, ChainNothing DEF IInv, Typed
  <2>. QED BY <1>1, <2>1, <2>2
<1>3. phase = "snapshot" => DOMAIN rows = {}
    BY DEF Init
<1>4. refused = FALSE /\ Len(waiting) = 0
    BY <1>1 DEF Init
<1>. QED BY <1>1, <1>2, <1>3, <1>4 DEF Alone

(* What leaves the rows committed, the source and the queue as they are.   *)
LEMMA AloneKept ==
    ASSUME Alone, UNCHANGED <<route, base, waiting, phase, schema, others>>,
           others = 0 => refused' = FALSE,
           phase = "incremental" => Committed' = Committed,
           others = 0 /\ phase = "snapshot" /\ tx' = NoTx => DOMAIN rows' = {},
           others = 0 /\ phase = "snapshot" /\ tx' # NoTx => CopyUnderWay'
    PROVE  Alone'
<1>. SUFFICES ASSUME others = 0 PROVE Alone'
    BY DEF Alone
<1>1. phase = "incremental" => Chain(Committed', waiting', base')
    BY DEF Alone
<1>2. route.generated => \A i \in 1..Len(waiting') : Unkept(waiting'[i])
    BY DEF Alone
<1>. QED BY <1>1, <1>2 DEF Alone

(* A queue of whole rows and one more.                                     *)
LEMMA UnkeptAppend ==
    ASSUME NEW w \in Seq(Seq(Changes)), \A i \in 1..Len(w) : Unkept(w[i]),
           NEW changes \in Seq(Changes), Unkept(changes)
    PROVE  \A i \in 1..Len(Append(w, changes)) : Unkept(Append(w, changes)[i])
<1>1. PICK n \in Nat : n = Len(w)
    OBVIOUS
<1>2. PICK x : x = Append(w, changes)
    OBVIOUS
<1>3. Len(x) = n + 1 /\ x[n + 1] = changes /\ \A i \in 1..n : x[i] = w[i]
    BY <1>1, <1>2
<1>4. ASSUME NEW i \in 1..n + 1 PROVE Unkept(x[i])
  <2>1. i \in 1..n \/ i = n + 1
    BY <1>1
  <2>. QED BY <1>1, <1>3, <2>1
<1>. QED BY <1>2, <1>3, <1>4

(* What the source commits leads on from what it held.                     *)
LEMMA SourceCommitAlone ==
    ASSUME IInv, Alone, SourceCommit
    PROVE  Alone'
<1>. USE DEF IInv
<1>1. UNCHANGED <<route, phase, rows, tx, schema, others, refused>>
    BY DEF SourceCommit
<1>. SUFFICES ASSUME others = 0 PROVE Alone'
    BY <1>1 DEF Alone
<1>2. PICK changes \in Seq(Changes) :
              /\ Leads(base, changes, base')
              /\ base' \in Mirror!Tables
              /\ route.source = "mysql" => Unkept(changes)
              /\ waiting' = IF phase = "snapshot" /\ ~ Copying THEN waiting
                            ELSE Append(waiting, changes)
    BY SourceCommitLeads
<1>3. Committed' = Committed
    BY <1>1 DEF Committed
<1>4. ASSUME phase = "incremental" PROVE Chain(Committed', waiting', base')
  <2>1. waiting' = Append(waiting, changes) /\ Chain(Committed, waiting, base)
    BY <1>2, <1>4 DEF Alone
  <2>. QED BY <1>2, <1>3, <2>1, ChainAppend DEF Typed
<1>5. ASSUME phase = "snapshot", tx # NoTx PROVE CopyUnderWay'
  <2>1. waiting' = Append(waiting, changes)
    BY <1>2, <1>5 DEF Copying, Open
  <2>2. PICK t \in Mirror!Tables : \E keys \in Ascending(t) :
          /\ tx.changes = CopyOf(t, keys)
          /\ rows = [k \in {keys[j] : j \in 1..tx.at - 1} |-> t[k]]
          /\ Chain(t, waiting, base)
    BY <1>5 DEF Alone, CopyUnderWay
  <2>3. PICK keys \in Ascending(t) :
          /\ tx.changes = CopyOf(t, keys)
          /\ rows = [k \in {keys[j] : j \in 1..tx.at - 1} |-> t[k]]
          /\ Chain(t, waiting, base)
    BY <2>2
  <2>4. Chain(t, waiting', base')
    BY <1>2, <2>1, <2>3, ChainAppend DEF Typed
  <2>. QED BY <1>1, <2>3, <2>4 DEF CopyUnderWay
<1>6. ASSUME route.generated PROVE \A i \in 1..Len(waiting') : Unkept(waiting'[i])
  <2>1. Unkept(changes) /\ \A i \in 1..Len(waiting) : Unkept(waiting[i])
    BY <1>2, <1>6 DEF Typed, Alone
  <2>2. waiting' = waiting \/ waiting' = Append(waiting, changes)
    BY <1>2
  <2>. QED BY <2>1, <2>2, UnkeptAppend DEF Typed
<1>. QED BY <1>1, <1>4, <1>5, <1>6 DEF Alone

(* A copy of what the source holds now.                                    *)
LEMMA BeginCopyAlone ==
    ASSUME IInv, Alone, BeginCopy
    PROVE  Alone'
<1>. USE DEF IInv
<1>1. UNCHANGED <<route, base, phase, rows, schema, others, refused>> /\ waiting' = << >>
      /\ phase = "snapshot" /\ tx = NoTx
    BY DEF BeginCopy
<1>. SUFFICES ASSUME others = 0 PROVE Alone'
    BY <1>1 DEF Alone
<1>2. PICK keys \in Ascending(base) : tx' = Begin(TRUE, CopyOf(base, keys))
    BY Zenon DEF BeginCopy
<1>3. PICK t \in Mirror!Tables : t = base
    BY DEF Typed
<1>4. keys \in Ascending(t)
    BY <1>2, <1>3
<1>5. tx'.changes = CopyOf(t, keys) /\ tx'.at = 0
    BY <1>2, <1>3 DEF Begin
<1>6. rows' = [k \in {keys[j] : j \in 1..tx'.at - 1} |-> t[k]]
  <2>1. DOMAIN rows = {}
    BY <1>1 DEF Alone
  <2>2. rows = [k \in DOMAIN rows |-> rows[k]]
    BY TableElim DEF Typed
  <2>3. {keys[j] : j \in 1..tx'.at - 1} = {}
    BY <1>5
  <2>. QED BY <1>1, <2>1, <2>2, <2>3
<1>7. Chain(t, waiting', base')
  <2>1. Chain(t, << >>, t)
    BY ChainNothing
  <2>. QED BY <1>1, <1>3, <2>1
<1>8. CopyUnderWay'
    BY <1>4, <1>5, <1>6, <1>7 DEF CopyUnderWay
<1>9. tx' # NoTx
    BY <1>5 DEF NoTx
<1>10. Len(waiting') = 0
    BY <1>1
<1>. QED BY <1>1, <1>8, <1>9, <1>10 DEF Alone

(* The check changes no row.                                               *)
LEMMA CheckTablesAlone ==
    ASSUME IInv, Alone, CheckTables
    PROVE  Alone'
<1>. USE DEF IInv
<1>1. UNCHANGED <<route, base, waiting, phase, rows, schema, others, refused>> /\ tx # NoTx /\ tx.at = 0
    BY DEF CheckTables
<1>2. tx'.changes = tx.changes /\ tx'.at = 1 /\ tx' # NoTx
    BY <1>1 DEF CheckTables, Typed, Shape, NoTx
<1>3. Committed' = Committed
    BY CheckTablesInv
<1>4. ASSUME others = 0, phase = "snapshot" PROVE CopyUnderWay'
  <2>1. PICK t \in Mirror!Tables : \E keys \in Ascending(t) :
          /\ tx.changes = CopyOf(t, keys)
          /\ rows = [k \in {keys[j] : j \in 1..tx.at - 1} |-> t[k]]
          /\ Chain(t, waiting, base)
    BY <1>1, <1>4 DEF Alone, CopyUnderWay
  <2>2. PICK keys \in Ascending(t) :
          /\ tx.changes = CopyOf(t, keys)
          /\ rows = [k \in {keys[j] : j \in 1..tx.at - 1} |-> t[k]]
          /\ Chain(t, waiting, base)
    BY <2>1
  <2>3. {keys[j] : j \in 1..tx.at - 1} = {} /\ {keys[j] : j \in 1..tx'.at - 1} = {}
    BY <1>1, <1>2
  <2>4. rows' = [k \in {keys[j] : j \in 1..tx'.at - 1} |-> t[k]]
    BY <1>1, <2>2, <2>3
  <2>. QED BY <1>1, <1>2, <2>2, <2>4 DEF CopyUnderWay
<1>5. others = 0 => refused' = FALSE
    BY <1>1 DEF Alone
<1>. QED BY <1>1, <1>2, <1>3, <1>4, <1>5, AloneKept

(* A row of the copy arrives as it is at the source.                       *)
LEMMA StatementAlone ==
    ASSUME IInv, Alone, Statement
    PROVE  Alone'
<1>. USE DEF IInv
<1>1. UNCHANGED <<route, base, waiting, phase, schema, others, refused>>
      /\ tx # NoTx /\ tx.at \in 1..Len(tx.changes)
    BY DEF Statement
<1>2. Committed' = Committed
    BY StatementInv
<1>3. tx.at \in Nat /\ tx'.changes = tx.changes /\ tx'.at = tx.at + 1 /\ tx' # NoTx
    BY <1>1 DEF Statement, Typed, Shape, NoTx
<1>4. ASSUME others = 0, phase = "snapshot" PROVE CopyUnderWay'
  <2>1. PICK t \in Mirror!Tables : \E keys \in Ascending(t) :
          /\ tx.changes = CopyOf(t, keys)
          /\ rows = [k \in {keys[j] : j \in 1..tx.at - 1} |-> t[k]]
          /\ Chain(t, waiting, base)
    BY <1>1, <1>4 DEF Alone, CopyUnderWay
  <2>2. PICK keys \in Ascending(t) :
          /\ tx.changes = CopyOf(t, keys)
          /\ rows = [k \in {keys[j] : j \in 1..tx.at - 1} |-> t[k]]
          /\ Chain(t, waiting, base)
    BY <2>1
  <2>3. PICK c, n : c = tx.changes[tx.at] /\ n = Cardinality(DOMAIN t)
    OBVIOUS
  <2>4. /\ c.op = "insert" /\ c.key = keys[tx.at] /\ c.newKey = keys[tx.at]
        /\ c.value = t[keys[tx.at]] /\ ~ c.keeps
    BY <1>1, <2>2, <2>3, CopyOfAt
  <2>5. rows' = Mirror!Effect(rows, c, c.value)
    BY <1>4, <2>3, StatementEffect DEF StoredAs, Alone
  <2>. DEFINE before == {keys[j] : j \in 1..tx.at - 1}
              now == {keys[j] : j \in 1..tx.at}
  <2>6. now = before \cup {c.key}
    BY <1>3, <1>1, <2>4
  <2>7. DOMAIN rows = before /\ \A k \in before : rows[k] = t[k]
    BY <2>2
  <2>. HIDE DEF before, now
  <2>8. rows' = [k \in (before \ {c.key}) \cup {c.key} |-> IF k = c.key THEN c.value ELSE rows[k]]
    BY <2>4, <2>5, <2>7 DEF Mirror!Effect, Mirror!Put, Mirror!Restrict
  <2>9. rows' = [k \in now |-> t[k]]
    BY <2>4, <2>6, <2>7, <2>8
  <2>10. tx'.at - 1 = tx.at
    BY <1>3
  <2>11. rows' = [k \in {keys[j] : j \in 1..tx'.at - 1} |-> t[k]]
    BY <2>9, <2>10 DEF now
  <2>. QED BY <1>1, <1>3, <2>2, <2>11 DEF CopyUnderWay
<1>5. others = 0 => refused' = FALSE
    BY <1>1 DEF Alone
<1>. QED BY <1>1, <1>2, <1>3, <1>4, <1>5, AloneKept

(* A copy that is lost leaves the table empty.                             *)
LEMMA RollbackAlone ==
    ASSUME IInv, Alone, Rollback, tx # NoTx,
           UNCHANGED <<route, base, made, waiting, phase, schema, others>>,
           refused' \in BOOLEAN, others = 0 => refused' = FALSE
    PROVE  Alone'
<1>. USE DEF IInv
<1>1. Committed' = Committed /\ tx' = NoTx /\ rows' = Committed
    BY RollbackInv DEF Rollback
<1>2. ASSUME others = 0, phase = "snapshot" PROVE DOMAIN rows' = {}
  <2>1. tx.copy /\ tx.changes \in Seq(Changes) /\ tx.at \in Nat
    BY <1>2, TxFields DEF Open
  <2>2. PICK t \in Mirror!Tables : \E keys \in Ascending(t) :
          /\ tx.changes = CopyOf(t, keys)
          /\ rows = [k \in {keys[j] : j \in 1..tx.at - 1} |-> t[k]]
    BY <1>2 DEF Alone, CopyUnderWay
  <2>3. PICK keys \in Ascending(t) :
          /\ tx.changes = CopyOf(t, keys)
          /\ rows = [k \in {keys[j] : j \in 1..tx.at - 1} |-> t[k]]
    BY <2>2
  <2>4. PICK n : n = Cardinality(DOMAIN t)
    OBVIOUS
  <2>5. n \in Nat /\ keys \in [1..n -> DOMAIN t] /\ tx.at - 1 <= n
    <3>1. n \in Nat /\ keys \in [1..n -> DOMAIN t]
      BY <2>4, AscendingKeys
    <3>2. Len(tx.changes) = n
      BY <2>3, <2>4, CopyOfAt
    <3>. QED BY <2>1, <3>1, <3>2 DEF Open
  <2>6. ASSUME NEW j \in 1..tx.at - 1 PROVE keys[j] \in DOMAIN tx.undo
    <3>1. j \in 1..n
      BY <2>1, <2>5
    <3>2. tx.changes[j].key = keys[j]
      BY <2>3, <2>4, <3>1, CopyOfAt
    <3>3. keys[j] \in Keys
      BY <2>5, <3>1, TableElim
    <3>. QED BY <3>2, <3>3 DEF Open, Names
  <2>7. DOMAIN rows \subseteq DOMAIN tx.undo
    BY <2>3, <2>6
  <2>8. \A k \in DOMAIN tx.undo : tx.undo[k] = Absent
    BY <2>1 DEF Open
  <2>9. Committed = Undone(rows, tx.undo)
    BY <1>2 DEF Committed, Alone
  <2>. QED BY <1>1, <2>7, <2>8, <2>9 DEF Undone
<1>. QED BY <1>1, <1>2, AloneKept

(* After COMMIT the pages are the source's table of that moment.           *)
LEMMA CommitAlone ==
    ASSUME IInv, Alone, Commit
    PROVE  Alone'
<1>. USE DEF IInv
<1>1. UNCHANGED <<route, base, rows, schema, others>> /\ tx # NoTx /\ tx' = NoTx
      /\ tx.at = Len(tx.changes) + 1 /\ phase' = "incremental" /\ refused' = FALSE
    BY DEF Commit
<1>. SUFFICES ASSUME others = 0 PROVE Alone'
    BY <1>1 DEF Alone
<1>2. tx.copy \in BOOLEAN /\ tx.changes \in Seq(Changes) /\ tx.at \in Nat
      /\ tx.at > 0 /\ tx.at - 1 = Len(tx.changes)
    BY <1>1, TxFields
<1>3. Committed' = rows
    BY <1>1 DEF Committed
<1>4. CASE tx.copy
  <2>1. waiting' = waiting
    BY <1>4 DEF Commit
  <2>2. PICK t \in Mirror!Tables : \E keys \in Ascending(t) :
          /\ tx.changes = CopyOf(t, keys)
          /\ rows = [k \in {keys[j] : j \in 1..tx.at - 1} |-> t[k]]
          /\ Chain(t, waiting, base)
    BY <1>1, <1>4 DEF Alone, CopyUnderWay, Open
  <2>3. PICK keys \in Ascending(t) :
          /\ tx.changes = CopyOf(t, keys)
          /\ rows = [k \in {keys[j] : j \in 1..tx.at - 1} |-> t[k]]
          /\ Chain(t, waiting, base)
    BY <2>2
  <2>4. PICK n : n = Cardinality(DOMAIN t)
    OBVIOUS
  <2>5. tx.at - 1 = n
    BY <1>2, <2>3, <2>4, CopyOfAt
  <2>6. {keys[j] : j \in 1..tx.at - 1} = DOMAIN t
    <3>1. keys \in [1..n -> DOMAIN t] /\ \A k \in DOMAIN t : \E j \in 1..n : keys[j] = k
      BY <2>4, AscendingKeys
    <3>. QED BY <2>5, <3>1
  <2>7. rows = t
    BY <2>3, <2>6, TableElim
  <2>8. Chain(Committed', waiting', base')
    BY <1>1, <1>3, <2>1, <2>3, <2>7
  <2>. QED BY <1>1, <2>1, <2>8 DEF Alone
<1>5. CASE ~ tx.copy
  <2>1. waiting # << >> /\ waiting' = Tail(waiting) /\ waiting \in Seq(Seq(Changes))
    BY <1>1, <1>5 DEF Commit, Open, Typed
  <2>2. PICK p, u :
              /\ Chain(u, Tail(waiting), base)
              /\ p[tx.at - 1] = rows /\ p[Len(tx.changes)] = u
    BY <1>1, <1>2, <1>5, OnTheWay
  <2>3. Chain(Committed', waiting', base')
    BY <1>1, <1>2, <1>3, <2>1, <2>2
  <2>4. ASSUME route.generated PROVE \A i \in 1..Len(waiting') : Unkept(waiting'[i])
    <3>1. \A i \in 1..Len(waiting) : Unkept(waiting[i])
      BY <2>4 DEF Alone
    <3>2. \A i \in 1..Len(Tail(waiting)) : i + 1 \in 1..Len(waiting) /\ Tail(waiting)[i] = waiting[i + 1]
      BY <2>1
    <3>. QED BY <2>1, <3>1, <3>2
  <2>. QED BY <1>1, <2>3, <2>4 DEF Alone
<1>. QED BY <1>4, <1>5

(* Every step keeps a sink that is left alone the mirror of its source.    *)
LEMMA AloneStep ==
    ASSUME IInv, Alone, [Next]_vars
    PROVE  Alone'
<1>1. CASE SourceCommit
    BY <1>1, SourceCommitAlone
<1>2. CASE BeginCopy
    BY <1>2, BeginCopyAlone
<1>3. CASE BeginApply
  <2>1. Committed' = Committed
    BY <1>3, BeginApplyInv
  <2>. QED BY <1>3, <2>1, AloneKept DEF BeginApply, Alone
<1>4. CASE CheckTables
    BY <1>4, CheckTablesAlone
<1>5. CASE Statement
    BY <1>5, StatementAlone
<1>6. CASE Refuse
  <2>1. others # 0
    BY <1>6, NothingRefused
  <2>. QED BY <1>6, <2>1 DEF Refuse, Alone
<1>7. CASE Commit
    BY <1>7, CommitAlone
<1>8. CASE Lose
    BY <1>8, RollbackAlone DEF Lose, Alone, IInv, Typed
<1>9. CASE others' = others + 1
  <2>1. others' # 0
    BY <1>9 DEF IInv, Typed
  <2>. QED BY <2>1 DEF Alone
<1>10. CASE OtherWrites \/ \E definition \in Definitions : OtherAlters(definition)
    BY <1>9, <1>10 DEF OtherWrites, OtherAlters
<1>11. CASE UNCHANGED vars
  <2>1. UNCHANGED <<route, base, waiting, phase, schema, others, refused, rows, tx>>
    BY <1>11 DEF vars
  <2>2. Committed' = Committed
    BY <2>1 DEF Committed
  <2>3. CopyUnderWay => CopyUnderWay'
    BY <2>1 DEF CopyUnderWay
  <2>. QED BY <2>1, <2>2, <2>3, AloneKept DEF Alone
<1>. QED BY <1>1, <1>2, <1>3, <1>4, <1>5, <1>6, <1>7, <1>8, <1>10, <1>11 DEF Next

(* While nobody else touches the table, what waits leads from what is      *)
(* committed (or from what is being copied) to what the source holds.      *)
THEOREM AloneHolds == Spec => []Alone
<1>1. Init => Alone
    BY AloneInit
<1>2. IInv /\ Alone /\ [Next]_vars => Alone'
    BY AloneStep
<1>. QED BY <1>1, <1>2, InvariantHolds, PTL DEF Spec

(* Mirrored: in a sink that is left alone what is committed, with what     *)
(* waits replayed on it, is the source's table, for every table the source *)
(* begins with and however long the queue is.                              *)
THEOREM MirroredHolds == Spec => []Mirrored
<1>1. IInv /\ Alone => Mirrored
    BY ChainReplayed DEF IInv, Typed, Alone, Mirrored
<1>. QED BY <1>1, InvariantHolds, AloneHolds, PTL

(* RefusedWithCause: a sink that is left alone refuses nothing.            *)
THEOREM RefusedWithCauseHolds == Spec => []RefusedWithCause
<1>1. IInv /\ Alone => RefusedWithCause
    BY DEF IInv, Typed, Alone, RefusedWithCause
<1>. QED BY <1>1, InvariantHolds, AloneHolds, PTL

(* TypeOK: the open transaction is the copy of a task that has none, or    *)
(* the transaction at the head of the queue.                               *)
THEOREM TypeOKHolds == Spec => []TypeOK
<1>1. IInv => TypeOK
  <2>. SUFFICES ASSUME IInv PROVE TypeOK
    OBVIOUS
  <2>1. ASSUME tx # NoTx PROVE tx.at \in 0..(Len(tx.changes) + 1)
    BY <2>1, TxFields DEF IInv, Open
  <2>. QED BY <2>1 DEF IInv, Typed, Open, TypeOK
<1>. QED BY <1>1, InvariantHolds, PTL
=============================================================================
