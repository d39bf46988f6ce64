---------------------------- MODULE PostgresStream ----------------------------
(***************************************************************************)
(* From pgoutput messages to transactions, and from acknowledgements to    *)
(* the slot: Decoder of postgresql_15/src/decoder.rs under Replication of  *)
(* replication.rs (16 and 17 use the same code).                           *)
(*                                                                         *)
(* The server decodes committed transactions in commit order and announces *)
(* a relation before its first row and after each change of its            *)
(* definition.  A definition is a version number; TYPE messages, which are *)
(* compared with the same checked catalog, are part of "relation".  A row  *)
(* is the relation and the version it was decoded with.  "other" stands    *)
(* for what is refused whole: TRUNCATE, an origin, an invalid image.       *)
(***************************************************************************)
EXTENDS Integers, Sequences

CONSTANTS
    Relations,
    MaxTx,       \* bound: transactions the source commits
    MaxVersion,  \* bound: definitions of a relation
    MaxOpens,    \* bound: streams opened
    MaxBytes,    \* max_transaction_bytes, in messages
    MaxRows,     \* 100000
    Gaps         \* distances between the end of a commit record and the next

ASSUME PgBoundsAssumption ==
    MaxTx \in Nat /\ MaxVersion \in Nat \ {0} /\ MaxOpens \in Nat
ASSUME PgLimitsAssumption == MaxBytes \in Nat /\ MaxRows \in Nat
ASSUME GapsAssumption == Gaps \subseteq Nat

VARIABLES
    wal,        \* the committed transactions
    version,    \* version[r]: definition of r
    confirmed,  \* confirmed_flush_lsn of the slot
    server,     \* the walsender: next message and definitions announced
    start,      \* Replication.start
    status,     \* "closed", "open" or "failed" (Replication.failed)
    acked,      \* Replication.acknowledged
    delivered,  \* Replication.delivered: index of the transaction, or 0
    catalog,    \* Decoder.tables: definitions checked when it was opened
    seen,       \* Decoder.seen
    pending,    \* Decoder.pending
    previous,   \* Decoder.previous_end
    received,   \* transactions this stream has returned
    kept,       \* transactions the consumer has made durable
    opens

source == <<wal, version>>
decoder == <<catalog, seen, pending, previous>>
consumer == <<acked, delivered, kept>>
vars == <<source, confirmed, server, start, status, decoder, consumer, received, opens>>

-------------------------------------------------------------------------------
(* The source.                                                             *)

Row(r) == [kind |-> "row", rel |-> r, ver |-> version[r]]
Bodies == {<<>>} \cup {<<Row(r)>> : r \in Relations}
          \cup {<<Row(q), Row(r)>> : q, r \in Relations}
          \cup {<<Row(r), Row(r), Row(r)>> : r \in Relations}
          \cup {<<[kind |-> "other", rel |-> r, ver |-> version[r]]>> : r \in Relations}

(* A slot is created at position 1; a commit record has length 1.          *)
LastEnd == IF wal = <<>> THEN 1 ELSE wal[Len(wal)].end

SourceCommits(body) ==
    /\ Len(wal) < MaxTx
    /\ \E gap \in Gaps :
          wal' = Append(wal, [commit |-> LastEnd + gap, end |-> LastEnd + gap + 1, body |-> body])
    /\ UNCHANGED <<version, confirmed, server, start, status, decoder, consumer, received, opens>>

SourceAlters(r) ==
    /\ version[r] < MaxVersion
    /\ version' = [version EXCEPT ![r] = @ + 1]
    /\ UNCHANGED <<wal, confirmed, server, start, status, decoder, consumer, received, opens>>

(* The next message of the walsender.                                      *)
Sends == server.tx \in 1..Len(wal)
Body == wal[server.tx].body
Item == Body[server.pos]
Message ==
    IF server.pos = 0 THEN "begin"
    ELSE IF server.pos > Len(Body) THEN "commit"
    ELSE IF Item.kind = "row" /\ server.told[Item.rel] # Item.ver THEN "relation"
    ELSE Item.kind

Consumed ==
    server' = CASE Message = "commit" -> [server EXCEPT !.tx = @ + 1, !.pos = 0]
                [] Message = "relation" -> [server EXCEPT !.told[Item.rel] = Item.ver]
                [] OTHER -> [server EXCEPT !.pos = @ + 1]

-------------------------------------------------------------------------------
NoPending == [commit |-> 0, bytes |-> 0, rows |-> <<>>]
Nothing == [tx |-> 0, pos |-> 0, told |-> [r \in Relations |-> 0]]

Init ==
    /\ wal = <<>> /\ version = [r \in Relations |-> 1]
    /\ confirmed = 1
    /\ server = Nothing
    /\ start = 0 /\ status = "closed"
    /\ acked = 0 /\ delivered = 0
    /\ catalog = [r \in Relations |-> 0] /\ seen = {} /\ pending = NoPending /\ previous = 0
    /\ received = <<>> /\ kept = {}
    /\ opens = 0

(* The cursor a consumer resumes from: the end of the last it has kept.    *)
LastKept == IF kept = {} THEN 0 ELSE wal[CHOOSE i \in kept : \A j \in kept : j <= i].end

(* The first transaction that is not before the start.                     *)
FirstFrom(lsn) ==
    CHOOSE i \in 1..Len(wal) + 1 :
        /\ \A j \in 1..i - 1 : wal[j].commit < lsn
        /\ i <= Len(wal) => wal[i].commit >= lsn

(* replication_for_version on the existing slot: from confirmed_flush_lsn, *)
(* or from a cursor that is not before it.                                 *)
Open ==
    /\ status # "open"
    /\ opens < MaxOpens
    /\ opens' = opens + 1
    /\ \E lsn \in {confirmed, LastKept} :
          /\ lsn >= confirmed
          /\ start' = lsn
          /\ server' = [Nothing EXCEPT !.tx = FirstFrom(lsn)]
    /\ status' = "open"
    /\ acked' = 0 /\ delivered' = 0
    /\ catalog' = version /\ seen' = {} /\ pending' = NoPending /\ previous' = 0
    /\ received' = <<>>
    /\ UNCHANGED <<source, confirmed, kept>>

-------------------------------------------------------------------------------
(* Decoder::push.                                                          *)

InTransaction == pending.commit # 0
Bytes == IF InTransaction THEN pending.bytes + 1 ELSE 1
TooLarge == InTransaction /\ Bytes > MaxBytes
(* The consumer asks for the next transaction when it has kept the last.   *)
Asked == status = "open" /\ delivered \in kept \cup {0}
Reads(kind) == Asked /\ Sends /\ Message = kind /\ ~TooLarge
Buffered(rows) == pending' = [pending EXCEPT !.bytes = Bytes, !.rows = rows]

BeginAccepted == ~InTransaction /\ wal[server.tx].commit > previous

Begin ==
    /\ Reads("begin")
    /\ BeginAccepted
    /\ pending' = [commit |-> wal[server.tx].commit, bytes |-> 1, rows |-> <<>>]
    /\ Consumed
    /\ UNCHANGED <<source, confirmed, start, status, catalog, seen, previous, consumer,
                   received, opens>>
(* Faulty variant: the announced definition is not compared.               *)
AnyRelation == TRUE

RelationAccepted == Item.ver = catalog[Item.rel]

Relation ==
    /\ Reads("relation")
    /\ RelationAccepted
    /\ seen' = seen \cup {Item.rel}
    /\ Buffered(pending.rows)
    /\ Consumed
    /\ UNCHANGED <<source, confirmed, start, status, catalog, previous, consumer, received, opens>>

RowAccepted == InTransaction /\ Item.rel \in seen /\ Len(pending.rows) < MaxRows

RowRead ==
    /\ Reads("row")
    /\ RowAccepted
    /\ Buffered(Append(pending.rows, [rel |-> Item.rel, ver |-> catalog[Item.rel]]))
    /\ Consumed
    /\ UNCHANGED <<source, confirmed, start, status, catalog, seen, previous, consumer,
                   received, opens>>

CommitAccepted ==
    LET t == wal[server.tx] IN
    InTransaction /\ t.commit = pending.commit /\ t.end > t.commit /\ t.end > previous

(* A transaction without rows is not returned.                             *)
Commit ==
    /\ Reads("commit")
    /\ CommitAccepted
    /\ previous' = wal[server.tx].end
    /\ pending' = NoPending
    /\ IF pending.rows = <<>>
       THEN UNCHANGED <<delivered, received>>
       ELSE /\ delivered' = server.tx
            /\ received' = Append(received, [tx |-> server.tx, rows |-> pending.rows,
                                             cursor |-> wal[server.tx].end])
    /\ Consumed
    /\ UNCHANGED <<source, confirmed, start, status, catalog, seen, acked, kept, opens>>

-------------------------------------------------------------------------------
(* Replication.                                                            *)

Poisoned == status' = "failed"
(* Faulty variant: the next call goes on where the failed one stopped.     *)
FailsOpen ==
    /\ Asked
    /\ IF Sends THEN Consumed ELSE UNCHANGED server
    /\ UNCHANGED <<source, confirmed, start, status, decoder, consumer, received, opens>>

(* The connection, a status update or a parse fails, or the call is        *)
(* cancelled, perhaps with a message taken from the connection.            *)
Fails ==
    /\ Asked
    /\ Poisoned
    /\ IF Sends THEN Consumed ELSE UNCHANGED server
    /\ UNCHANGED <<source, confirmed, start, decoder, consumer, received, opens>>

(* push refuses the message.                                               *)
Refused ==
    /\ Asked
    /\ Sends
    /\ \/ TooLarge
       \/ Message = "begin" /\ ~BeginAccepted
       \/ Message = "relation" /\ ~RelationAccepted
       \/ Message = "row" /\ ~RowAccepted
       \/ Message = "commit" /\ ~CommitAccepted
       \/ Message = "other"
    /\ Poisoned
    /\ Consumed
    /\ UNCHANGED <<source, confirmed, start, decoder, consumer, received, opens>>

Close ==
    /\ status = "failed"
    /\ status' = "closed"
    /\ UNCHANGED <<source, confirmed, server, start, decoder, consumer, received, opens>>

(* The consumer makes the transaction it was given durable.                *)
Keep ==
    /\ delivered # 0
    /\ kept' = kept \cup {delivered}
    /\ UNCHANGED <<source, confirmed, server, start, status, decoder, acked, delivered,
                   received, opens>>
(* Faulty variant: the position the server has reached is acknowledged.    *)
AcknowledgedSent == wal[IF server.tx > Len(wal) THEN Len(wal) ELSE server.tx].end

(* acknowledge: the most recently delivered transaction, which the caller  *)
(* must have made durable.                                                 *)
Acknowledged == wal[delivered].end

Acknowledge ==
    /\ status = "open"
    /\ delivered \in kept
    /\ Acknowledged >= acked
    /\ acked' = Acknowledged
    /\ UNCHANGED <<source, confirmed, server, start, status, decoder, delivered, kept,
                   received, opens>>

(* feedback: the server never moves a slot back.                           *)
Feedback ==
    /\ status = "open"
    /\ acked > confirmed
    /\ confirmed' = acked
    /\ UNCHANGED <<source, server, start, status, decoder, consumer, received, opens>>

Next ==
    \/ \E body \in Bodies : SourceCommits(body)
    \/ \E r \in Relations : SourceAlters(r)
    \/ Open \/ Begin \/ Relation \/ RowRead \/ Commit \/ Fails \/ Refused \/ Close
    \/ Keep \/ Acknowledge \/ Feedback

Spec == Init /\ [][Next]_vars

-------------------------------------------------------------------------------
ItemShape == [kind : {"row", "other"}, rel : Relations, ver : 1..MaxVersion]
TxShape == [commit : Nat, end : Nat, body : Seq(ItemShape)]
ServerShape == [tx : Nat, pos : Nat, told : [Relations -> 0..MaxVersion]]
RowShape == [rel : Relations, ver : 1..MaxVersion]
PendingShape == [commit : Nat, bytes : Nat, rows : Seq(RowShape)]
ReturnShape == [tx : Nat, rows : Seq(RowShape), cursor : Nat]

TypeOK ==
    /\ wal \in Seq(TxShape) /\ version \in [Relations -> 1..MaxVersion]
    /\ confirmed \in Nat /\ start \in Nat
    /\ server \in ServerShape
    /\ status \in {"closed", "open", "failed"}
    /\ acked \in Nat /\ delivered \in 0..Len(wal) /\ kept \subseteq 1..Len(wal)
    /\ catalog \in [Relations -> 0..MaxVersion] /\ seen \subseteq Relations
    /\ status = "open" => catalog \in [Relations -> 1..MaxVersion]
    /\ pending \in PendingShape
    /\ Len(pending.rows) <= MaxRows
    /\ previous \in Nat
    /\ received \in Seq(ReturnShape)
    /\ opens \in 0..MaxOpens

(* What the walsender has been read up to.                                 *)
Complete == {i \in 1..Len(wal) : FirstFrom(start) <= i /\ i < server.tx}
WithRows(i) == \E k \in DOMAIN wal[i].body : wal[i].body[k].kind = "row"

(* A stream returns exactly the transactions with rows that it has been    *)
(* sent, in commit order, each with all its rows and its own cursor,       *)
(* wherever it started and whatever failed (push, next_transaction).       *)
WholeTransactions ==
    status = "open" =>
        /\ \A k \in 1..Len(received) :
              LET i == received[k].tx
                  rows == received[k].rows
              IN  /\ i \in Complete /\ WithRows(i)
                  /\ received[k].cursor = wal[i].end
                  /\ Len(rows) = Len(wal[i].body)
                  /\ \A j \in 1..Len(rows) : rows[j].rel = wal[i].body[j].rel
        /\ \A j, k \in 1..Len(received) : j < k => received[j].tx < received[k].tx
        /\ \A i \in Complete : WithRows(i) => \E k \in 1..Len(received) : received[k].tx = i

(* A row is decoded with the definition its table had when it was written, *)
(* though the catalog is read once, when the stream is opened, and the     *)
(* table may be altered before and after (the Relation branch of push).    *)
RowsMatchDefinition ==
    \A k \in 1..Len(received) : \A j \in 1..Len(received[k].rows) :
        received[k].rows[j].ver = wal[received[k].tx].body[j].ver

(* The slot never lets go of a transaction with rows that the consumer has *)
(* not made durable: after a restart it is sent again (acknowledge,        *)
(* feedback).                                                              *)
SlotKeepsUnkept ==
    \A i \in 1..Len(wal) : WithRows(i) /\ wal[i].end <= confirmed => i \in kept
===============================================================================
