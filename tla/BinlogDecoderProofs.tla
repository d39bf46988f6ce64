-------------------------- MODULE BinlogDecoderProofs --------------------------
(***************************************************************************)
(* What a binlog stream returns, for every number of groups and files and  *)
(* every way to open and to cut off a stream.                              *)
(*                                                                         *)
(* The argument: in a log of whole groups an event and the one before it   *)
(* fix each other's place, so the event before the stream's next one tells *)
(* what the decoder must hold: nothing between two groups, and within a    *)
(* group what the stream has read of it.  The source leaves out whole      *)
(* groups and never a rotate event, so the decoder's file is that of the   *)
(* next event it is sent.                                                  *)
(***************************************************************************)
EXTENDS BinlogDecoder, WellFoundedInduction, TLAPS

EndKinds == {"xid", "commit", "rollback", "control", "modify", "statement"}
StartKinds == {"gtid", "rotate"}
Closers == EndKinds \cup {"rotate"}

(* Event e may follow event p in a group.                                  *)
Follows(p, e) ==
    \/ p.kind = "gtid" /\ e.kind \in {"begin", "control", "modify", "statement"}
    \/ p.kind = "begin" /\ e.kind \in {"map", "commit"}
    \/ p.kind = "map" /\ e.kind = "rows" /\ e.table = p.table
    \/ p.kind = "rows" /\ e.kind \in {"map", "xid", "rollback"}

(* Groups are whole and follow each other; rotate events are between them. *)
Linked ==
    /\ \A i \in 1..Len(log) : log[i].kind = "rotate" <=> log[i].group = 0
    /\ \A i \in 1..Len(log) : log[i].kind \notin StartKinds =>
          i > 1 /\ log[i - 1].group = log[i].group /\ Follows(log[i - 1], log[i])
    /\ \A i \in 2..Len(log) : log[i].kind \in StartKinds => log[i - 1].kind \in Closers
    /\ Len(log) > 0 => log[Len(log)].kind \in Closers

(* A group is not taken up again, groups are numbered in order, and each   *)
(* has events.                                                             *)
Numbered ==
    /\ \A i, j \in 1..Len(log) : i < j /\ log[i].kind \in EndKinds => log[j].group # log[i].group
    /\ \A i, j \in 1..Len(log) :
          i < j /\ log[i].group # 0 /\ log[j].group # 0 => log[i].group <= log[j].group
    /\ \A g \in 1..groups : \E i \in 1..Len(log) : log[i].group = g

(* The file changes only at a rotate event, to the one after it.           *)
Filed ==
    \A a, b \in 1..Len(log) :
        a <= b /\ (\A j \in a..b - 1 : log[j].kind # "rotate") => log[b].file = log[a].file

Turned == \A i \in 1..Len(log) : log[i].kind = "rotate" => FileAt(i + 1) = log[i].file + 1

(* The stream is between two groups.                                       *)
Between == next = 1 \/ log[next - 1].kind \in Closers

(* What the decoder holds within group g.                                  *)
Taking(g) ==
    /\ greeted
    /\ g # 0 /\ g \notin omit /\ pending.id = g
    /\ pending.began <=> log[next - 1].kind # "gtid"
    /\ log[next - 1].kind = "map" => log[next - 1].table \in known
    /\ \E b \in 1..next - 1 :
          /\ log[b].group = g
          /\ log[b].kind = IF pending.began THEN "begin" ELSE "gtid"
          /\ pending.begin = At(b)
    /\ Lists(pending.changes, {i \in RowsOf(g) : i < next})

Held ==
    /\ Between => pending = NoPending
    /\ ~Between => Taking(log[next - 1].group)

InFile == greeted => file = FileAt(next)

LogOK == Linked /\ Numbered /\ Filed /\ Turned
IInv == TypeOK /\ LogOK /\ Held /\ InFile /\ WholeTransactions

-------------------------------------------------------------------------------
(* What the source writes.                                                 *)

EventShape == [kind : Kinds, table : Tables \cup {"none"}]

Group(b) ==
    /\ b \in Seq(EventShape)
    /\ Len(b) >= 2
    /\ b[1].kind = "gtid"
    /\ \A k \in 2..Len(b) : b[k].kind \notin StartKinds /\ Follows(b[k - 1], b[k])
    /\ b[Len(b)].kind \in EndKinds

LEMMA EventFields ==
  ASSUME NEW kind, NEW t
  PROVE  Event(kind, t).kind = kind /\ Event(kind, t).table = t
BY DEF Event

LEMMA EventInShape ==
  ASSUME NEW kind \in Kinds, NEW t \in Tables \cup {"none"}
  PROVE  Event(kind, t) \in EventShape
BY DEF Event, EventShape

LEMMA BodiesAreGroups == \A b \in Bodies : Group(b)
<1> USE DEF Gtid, Opened, Plain
<1>0. "gtid" \in Kinds /\ "begin" \in Kinds /\ "map" \in Kinds /\ "rows" \in Kinds /\ EndKinds \subseteq Kinds
  BY DEF Kinds, EndKinds
<1>1. ASSUME NEW t \in Tables, NEW end \in {"xid", "rollback"}
      PROVE  Group(<<Gtid, Opened, Event("map", t), Event("rows", t), Plain(end)>>)
  <2> DEFINE b == <<Gtid, Opened, Event("map", t), Event("rows", t), Plain(end)>>
  <2>1. b \in Seq(EventShape)
    BY <1>0, EventInShape DEF EndKinds
  <2>2. Len(b) = 5
    OBVIOUS
  <2>3. /\ b[1].kind = "gtid" /\ b[2].kind = "begin"
        /\ b[3].kind = "map" /\ b[3].table = t
        /\ b[4].kind = "rows" /\ b[4].table = t
        /\ b[5].kind = end
    BY EventFields
  <2> HIDE DEF b
  <2>4. \A k \in 2..5 : b[k].kind \notin StartKinds /\ Follows(b[k - 1], b[k])
    <3>1. \A k \in 2..5 : k = 2 \/ k = 3 \/ k = 4 \/ k = 5
      OBVIOUS
    <3>2. QED
      BY <2>3, <3>1 DEF StartKinds, Follows
  <2>5. Group(b)
    BY <2>1, <2>2, <2>3, <2>4 DEF Group, EndKinds
  <2>6. QED
    BY <2>5 DEF b
<1>2. ASSUME NEW t \in Tables, NEW u \in Tables
      PROVE  Group(<<Gtid, Opened, Event("map", t), Event("rows", t), Event("map", u),
                     Event("rows", u), Plain("xid")>>)
  <2> DEFINE b == <<Gtid, Opened, Event("map", t), Event("rows", t), Event("map", u),
                    Event("rows", u), Plain("xid")>>
  <2>1. b \in Seq(EventShape)
    BY <1>0, EventInShape DEF EndKinds
  <2>2. Len(b) = 7
    OBVIOUS
  <2>3. /\ b[1].kind = "gtid" /\ b[2].kind = "begin"
        /\ b[3].kind = "map" /\ b[3].table = t
        /\ b[4].kind = "rows" /\ b[4].table = t
        /\ b[5].kind = "map" /\ b[5].table = u
        /\ b[6].kind = "rows" /\ b[6].table = u
        /\ b[7].kind = "xid"
    BY EventFields
  <2> HIDE DEF b
  <2>4. \A k \in 2..7 : b[k].kind \notin StartKinds /\ Follows(b[k - 1], b[k])
    <3>1. \A k \in 2..7 : k = 2 \/ k = 3 \/ k = 4 \/ k = 5 \/ k = 6 \/ k = 7
      OBVIOUS
    <3>2. QED
      BY <2>3, <3>1 DEF StartKinds, Follows
  <2>5. Group(b)
    BY <2>1, <2>2, <2>3, <2>4 DEF Group, EndKinds
  <2>6. QED
    BY <2>5 DEF b
<1>3. Group(<<Gtid, Opened, Plain("commit")>>)
  <2> DEFINE b == <<Gtid, Opened, Plain("commit")>>
  <2>1. b \in Seq(EventShape)
    BY <1>0, EventInShape DEF EndKinds
  <2>2. Len(b) = 3 /\ b[1].kind = "gtid" /\ b[2].kind = "begin" /\ b[3].kind = "commit"
    BY EventFields
  <2> HIDE DEF b
  <2>3. \A k \in 2..3 : b[k].kind \notin StartKinds /\ Follows(b[k - 1], b[k])
    <3>1. \A k \in 2..3 : k = 2 \/ k = 3
      OBVIOUS
    <3>2. QED
      BY <2>2, <3>1 DEF StartKinds, Follows
  <2>4. Group(b)
    BY <2>1, <2>2, <2>3 DEF Group, EndKinds
  <2>5. QED
    BY <2>4 DEF b
<1>4. ASSUME NEW kind \in {"control", "modify", "statement"} PROVE Group(<<Gtid, Plain(kind)>>)
  <2> DEFINE b == <<Gtid, Plain(kind)>>
  <2>1. b \in Seq(EventShape)
    BY <1>0, EventInShape DEF EndKinds
  <2>2. Len(b) = 2 /\ b[1].kind = "gtid" /\ b[2].kind = kind
    BY EventFields
  <2> HIDE DEF b
  <2>3. \A k \in 2..2 : b[k].kind \notin StartKinds /\ Follows(b[k - 1], b[k])
    <3>1. \A k \in 2..2 : k = 2
      OBVIOUS
    <3>2. QED
      BY <2>2, <3>1 DEF StartKinds, Follows
  <2>4. Group(b)
    BY <2>1, <2>2, <2>3 DEF Group, EndKinds
  <2>5. QED
    BY <2>4 DEF b
<1> HIDE DEF Gtid, Opened, Plain
<1>5. ASSUME NEW b \in Bodies PROVE Group(b)
  <2>1. CASE \E t \in Tables, end \in {"xid", "rollback"} :
               b = <<Gtid, Opened, Event("map", t), Event("rows", t), Plain(end)>>
    BY <1>1, <2>1
  <2>2. CASE \E t, u \in Tables :
               b = <<Gtid, Opened, Event("map", t), Event("rows", t), Event("map", u),
                     Event("rows", u), Plain("xid")>>
    BY <1>2, <2>2
  <2>3. CASE b = <<Gtid, Opened, Plain("commit")>>
    BY <1>3, <2>3
  <2>4. CASE \E kind \in {"control", "modify", "statement"} : b = <<Gtid, Plain(kind)>>
    BY <1>4, <2>4
  <2>5. QED
    BY <1>5, <2>1, <2>2, <2>3, <2>4 DEF Bodies
<1>6. QED
  BY <1>5

LEMMA LogFields ==
  ASSUME TypeOK
  PROVE  /\ Len(log) \in Nat
         /\ groups \in Nat /\ next \in Nat /\ next >= 1 /\ next <= Len(log) + 1
         /\ \A i \in 1..Len(log) : /\ log[i] \in LogShape
                                  /\ log[i].kind \in Kinds
                                  /\ log[i].table \in Tables \cup {"none"}
                                  /\ log[i].group \in Nat /\ log[i].group <= groups
                                  /\ log[i].file \in Nat
                                  /\ log[i].pos \in Nat
<1>1. log \in Seq(LogShape) /\ groups \in Nat
  BY MaxGroupsAssumption DEF TypeOK
<1>2. Len(log) \in Nat /\ \A i \in 1..Len(log) : log[i] \in LogShape
  BY <1>1
<1>3. \A e \in LogShape : /\ e.kind \in Kinds /\ e.table \in Tables \cup {"none"}
                         /\ e.group \in Nat /\ e.file \in Nat /\ e.pos \in Nat
  BY DEF LogShape
<1>4. QED
  BY <1>1, <1>2, <1>3 DEF TypeOK

LEMMA LastPlace ==
  ASSUME TypeOK
  PROVE  /\ LastFile \in Nat /\ LastPos \in Nat
         /\ Len(log) = 0 => LastFile = 1
         /\ Len(log) > 0 /\ log[Len(log)].kind # "rotate" => LastFile = log[Len(log)].file
<1>1. log = <<>> <=> Len(log) = 0
  BY DEF TypeOK
<1>2. Len(log) \in Nat /\ (Len(log) > 0 => Len(log) \in 1..Len(log))
  BY LogFields
<1>3. Len(log) > 0 => log[Len(log)].file \in Nat /\ log[Len(log)].pos \in Nat
  BY <1>2, LogFields
<1>4. QED
  BY <1>1, <1>2, <1>3 DEF LastFile, LastPos

(* A group or a rotate event at the end of the log.                        *)
LEMMA LogGrows ==
  ASSUME TypeOK, NEW b \in Seq(EventShape), NEW g \in Nat, log' = log \o Placed(b, g)
  PROVE  /\ Len(b) \in Nat
         /\ log' \in Seq(LogShape)
         /\ Len(log') = Len(log) + Len(b)
         /\ \A i \in 1..Len(log) : log'[i] = log[i]
         /\ \A k \in 1..Len(b) :
               /\ log'[Len(log) + k].kind = b[k].kind
               /\ log'[Len(log) + k].table = b[k].table
               /\ log'[Len(log) + k].group = g
               /\ log'[Len(log) + k].file = LastFile
<1> DEFINE E(k) == [kind |-> b[k].kind, table |-> b[k].table, group |-> g,
                    file |-> LastFile, pos |-> LastPos + k]
           P == Placed(b, g)
<1>1. Len(b) \in Nat /\ Len(log) \in Nat /\ LastFile \in Nat /\ LastPos \in Nat
  BY LogFields, LastPlace
<1>2. \A k \in 1..Len(b) : b[k] \in EventShape
  OBVIOUS
<1>3. \A k \in 1..Len(b) : E(k) \in LogShape
  BY <1>1, <1>2 DEF EventShape, LogShape
<1>4. P = [k \in 1..Len(b) |-> E(k)]
  BY DEF Placed
<1>5. /\ P \in Seq(LogShape)
      /\ Len(P) = Len(b)
      /\ \A k \in 1..Len(b) : P[k] = E(k)
  <2> HIDE DEF E, P
  <2>1. QED
    BY <1>1, <1>3, <1>4
<1>6. log \in Seq(LogShape)
  BY DEF TypeOK
<1>7. /\ log' \in Seq(LogShape)
      /\ Len(log') = Len(log) + Len(b)
      /\ \A i \in 1..Len(log) : log'[i] = log[i]
      /\ \A k \in 1..Len(b) : log'[Len(log) + k] = P[k]
  <2> HIDE DEF E, P
  <2>1. log' = log \o P
    BY DEF P
  <2>2. QED
    BY <1>1, <1>5, <1>6, <2>1
<1>8. \A k \in 1..Len(b) : /\ E(k).kind = b[k].kind /\ E(k).table = b[k].table
                           /\ E(k).group = g /\ E(k).file = LastFile
  OBVIOUS
<1> HIDE DEF E, P
<1>9. QED
  BY <1>1, <1>5, <1>7, <1>8

(* The source has written a group.                                         *)
LEMMA GroupWritten ==
  ASSUME TypeOK, NEW b \in Bodies, SourceWrites(b)
  PROVE  /\ Group(b)
         /\ groups' = groups + 1
         /\ log' \in Seq(LogShape)
         /\ Len(log') = Len(log) + Len(b)
         /\ \A i \in 1..Len(log) : log'[i] = log[i]
         /\ \A i \in 1..Len(log') : i \in 1..Len(log) \/ \E k \in 1..Len(b) : i = Len(log) + k
         /\ \A k \in 1..Len(b) :
               /\ log'[Len(log) + k].kind = b[k].kind
               /\ log'[Len(log) + k].table = b[k].table
               /\ log'[Len(log) + k].group = groups + 1
               /\ log'[Len(log) + k].file = LastFile
<1>1. Group(b) /\ b \in Seq(EventShape)
  BY BodiesAreGroups DEF Group
<1>2. groups' = groups + 1 /\ log' = log \o Placed(b, groups + 1)
  BY DEF SourceWrites
<1>3. groups + 1 \in Nat /\ Len(log) \in Nat
  BY LogFields
<1>4. /\ Len(b) \in Nat
      /\ log' \in Seq(LogShape)
      /\ Len(log') = Len(log) + Len(b)
      /\ \A i \in 1..Len(log) : log'[i] = log[i]
      /\ \A k \in 1..Len(b) :
            /\ log'[Len(log) + k].kind = b[k].kind
            /\ log'[Len(log) + k].table = b[k].table
            /\ log'[Len(log) + k].group = groups + 1
            /\ log'[Len(log) + k].file = LastFile
  BY <1>1, <1>2, <1>3, LogGrows
<1>5. ASSUME NEW i \in 1..Len(log') PROVE i \in 1..Len(log) \/ \E k \in 1..Len(b) : i = Len(log) + k
  <2>1. CASE i <= Len(log)
    BY <1>3, <2>1
  <2>2. CASE i > Len(log)
    <3>1. i - Len(log) \in 1..Len(b) /\ i = Len(log) + (i - Len(log))
      BY <1>3, <1>4, <2>2
    <3>2. QED
      BY <3>1
  <2>3. QED
    BY <1>3, <1>4, <2>1, <2>2
<1>6. QED
  BY <1>1, <1>2, <1>4, <1>5

LEMMA GroupKeepsLinked ==
  ASSUME TypeOK, Linked, NEW b \in Bodies, SourceWrites(b)
  PROVE  Linked'
<1> DEFINE L == Len(log)
<1>1. /\ L \in Nat /\ groups \in Nat /\ Len(b) \in Nat
      /\ Len(b) >= 2
      /\ b[1].kind = "gtid"
      /\ \A k \in 2..Len(b) : b[k].kind \notin StartKinds /\ Follows(b[k - 1], b[k])
      /\ b[Len(b)].kind \in EndKinds
  BY GroupWritten, LogFields DEF Group
<1>2. /\ Len(log') = L + Len(b)
      /\ \A i \in 1..L : log'[i] = log[i]
      /\ \A i \in 1..Len(log') : i \in 1..L \/ \E k \in 1..Len(b) : i = L + k
      /\ \A k \in 1..Len(b) : /\ log'[L + k].kind = b[k].kind
                              /\ log'[L + k].table = b[k].table
                              /\ log'[L + k].group = groups + 1
  BY GroupWritten
<1> HIDE DEF L
<1>3. ASSUME NEW i \in 1..Len(log') PROVE log'[i].kind = "rotate" <=> log'[i].group = 0
  <2>1. CASE i \in 1..L
    BY <1>2, <2>1 DEF Linked, L
  <2>2. ASSUME NEW k \in 1..Len(b), i = L + k PROVE log'[i].kind = "rotate" <=> log'[i].group = 0
    <3>1. b[k].kind # "rotate"
      BY <1>1 DEF StartKinds
    <3>2. QED
      BY <1>1, <1>2, <2>2, <3>1
  <2>3. QED
    BY <1>2, <2>1, <2>2
<1>4. ASSUME NEW i \in 1..Len(log'), log'[i].kind \notin StartKinds
      PROVE  i > 1 /\ log'[i - 1].group = log'[i].group /\ Follows(log'[i - 1], log'[i])
  <2>1. CASE i \in 1..L
    <3>1. i > 1 /\ log[i - 1].group = log[i].group /\ Follows(log[i - 1], log[i])
      BY <1>2, <1>4, <2>1 DEF Linked, L
    <3>2. i - 1 \in 1..L
      BY <1>1, <2>1, <3>1
    <3>3. QED
      BY <1>2, <2>1, <3>1, <3>2
  <2>2. ASSUME NEW k \in 1..Len(b), i = L + k
        PROVE  i > 1 /\ log'[i - 1].group = log'[i].group /\ Follows(log'[i - 1], log'[i])
    <3>1. k # 1
      BY <1>1, <1>2, <1>4, <2>2 DEF StartKinds
    <3>2. k \in 2..Len(b) /\ k - 1 \in 1..Len(b) /\ i - 1 = L + (k - 1) /\ i > 1
      BY <1>1, <2>2, <3>1
    <3>3. /\ log'[i - 1].kind = b[k - 1].kind /\ log'[i - 1].table = b[k - 1].table
          /\ log'[i].kind = b[k].kind /\ log'[i].table = b[k].table
          /\ log'[i - 1].group = log'[i].group
      BY <1>2, <2>2, <3>2
    <3>4. QED
      BY <1>1, <3>2, <3>3 DEF Follows
  <2>3. QED
    BY <1>2, <2>1, <2>2
<1>5. ASSUME NEW i \in 2..Len(log'), log'[i].kind \in StartKinds PROVE log'[i - 1].kind \in Closers
  <2>0. i \in 1..Len(log')
    BY <1>1, <1>2
  <2>1. CASE i \in 1..L
    <3>1. i \in 2..L /\ i - 1 \in 1..L
      BY <1>1, <2>1
    <3>2. QED
      BY <1>2, <1>5, <2>1, <3>1 DEF Linked, L
  <2>2. ASSUME NEW k \in 1..Len(b), i = L + k PROVE log'[i - 1].kind \in Closers
    <3>1. k = 1
      BY <1>1, <1>2, <1>5, <2>2
    <3>2. i - 1 = L /\ L \in 1..L
      BY <1>1, <2>2, <3>1
    <3>3. log[L].kind \in Closers
      BY <1>1, <3>2 DEF Linked, L
    <3>4. log'[L] = log[L]
      BY <1>2, <3>2
    <3>5. QED
      BY <3>2, <3>3, <3>4
  <2>3. QED
    BY <1>2, <2>0, <2>1, <2>2
<1>6. log'[Len(log')].kind \in Closers
  <2>1. Len(b) \in 1..Len(b) /\ Len(log') = L + Len(b)
    BY <1>1, <1>2
  <2>2. QED
    BY <1>1, <1>2, <2>1 DEF Closers
<1>7. QED
  BY <1>3, <1>4, <1>5, <1>6 DEF Linked

LEMMA GroupKeepsNumbered ==
  ASSUME TypeOK, Linked, Numbered, NEW b \in Bodies, SourceWrites(b)
  PROVE  Numbered'
<1> DEFINE L == Len(log)
<1>1. /\ L \in Nat /\ groups \in Nat /\ Len(b) \in Nat
      /\ Len(b) >= 2
      /\ \A k \in 2..Len(b) : Follows(b[k - 1], b[k])
      /\ \A i \in 1..L : log[i].group \in Nat /\ log[i].group <= groups
  BY GroupWritten, LogFields DEF Group
<1>2. /\ Len(log') = L + Len(b)
      /\ groups' = groups + 1
      /\ \A i \in 1..L : log'[i] = log[i]
      /\ \A i \in 1..Len(log') : i \in 1..L \/ \E k \in 1..Len(b) : i = L + k
      /\ \A k \in 1..Len(b) : /\ log'[L + k].kind = b[k].kind
                              /\ log'[L + k].group = groups + 1
  BY GroupWritten
<1> HIDE DEF L
<1>3. ASSUME NEW i \in 1..Len(log'), NEW j \in 1..Len(log'), i < j, log'[i].kind \in EndKinds
      PROVE  log'[j].group # log'[i].group
  <2>1. CASE j \in 1..L
    <3>1. i \in 1..L
      BY <1>1, <1>3, <2>1
    <3>2. QED
      BY <1>2, <1>3, <2>1, <3>1 DEF Numbered, L
  <2>2. CASE i \in 1..L /\ \E k \in 1..Len(b) : j = L + k
    <3>1. log'[j].group = groups + 1
      BY <1>2, <2>2
    <3>2. log'[i] = log[i] /\ log[i].group \in Nat /\ log[i].group <= groups
      BY <1>1, <1>2, <2>2
    <3>3. QED
      BY <1>1, <3>1, <3>2
  <2>3. ASSUME NEW k \in 1..Len(b), i = L + k PROVE FALSE
    <3>1. k + 1 \in 2..Len(b) /\ (k + 1) - 1 = k
      BY <1>1, <1>2, <1>3, <2>3
    <3>2. Follows(b[k], b[k + 1])
      BY <1>1, <3>1
    <3>3. QED
      BY <1>2, <1>3, <2>3, <3>2 DEF Follows, EndKinds
  <2>4. QED
    BY <1>2, <2>1, <2>2, <2>3
<1>4. ASSUME NEW i \in 1..Len(log'), NEW j \in 1..Len(log'), i < j,
             log'[i].group # 0, log'[j].group # 0
      PROVE  log'[i].group <= log'[j].group
  <2>1. CASE j \in 1..L
    <3>1. i \in 1..L
      BY <1>1, <1>4, <2>1
    <3>2. QED
      BY <1>2, <1>4, <2>1, <3>1 DEF Numbered, L
  <2>2. CASE \E k \in 1..Len(b) : j = L + k
    <3>1. log'[j].group = groups + 1
      BY <1>2, <2>2
    <3>2. log'[i].group \in Nat /\ log'[i].group <= groups + 1
      <4>1. CASE i \in 1..L
        <5>1. log'[i] = log[i] /\ log[i].group \in Nat /\ log[i].group <= groups
          BY <1>1, <1>2, <4>1
        <5>2. QED
          BY <1>1, <5>1
      <4>2. CASE \E k \in 1..Len(b) : i = L + k
        BY <1>1, <1>2, <4>2
      <4>3. QED
        BY <1>2, <4>1, <4>2
    <3>3. QED
      BY <3>1, <3>2
  <2>3. QED
    BY <1>2, <2>1, <2>2
<1>5. ASSUME NEW g \in 1..groups' PROVE \E i \in 1..Len(log') : log'[i].group = g
  <2>1. CASE g \in 1..groups
    <3>1. PICK i \in 1..L : log[i].group = g
      BY <2>1 DEF Numbered, L
    <3>2. i \in 1..Len(log') /\ log'[i].group = g
      BY <1>1, <1>2, <3>1
    <3>3. QED
      BY <3>2
  <2>2. CASE g = groups + 1
    <3>1. L + 1 \in 1..Len(log') /\ log'[L + 1].group = g
      BY <1>1, <1>2, <2>2
    <3>2. QED
      BY <3>1
  <2>3. QED
    BY <1>1, <1>2, <2>1, <2>2
<1>6. QED
  BY <1>3, <1>4, <1>5 DEF Numbered

LEMMA GroupKeepsFiled ==
  ASSUME TypeOK, Linked, Filed, NEW b \in Bodies, SourceWrites(b)
  PROVE  Filed'
<1> DEFINE L == Len(log)
<1>1. L \in Nat /\ Len(b) \in Nat
  BY GroupWritten, LogFields DEF Group
<1>2. /\ Len(log') = L + Len(b)
      /\ \A i \in 1..L : log'[i] = log[i]
      /\ \A i \in 1..Len(log') : i \in 1..L \/ \E k \in 1..Len(b) : i = L + k
      /\ \A k \in 1..Len(b) : log'[L + k].file = LastFile
  BY GroupWritten
<1>3. L > 0 /\ log[L].kind # "rotate" => LastFile = log[L].file
  BY LastPlace
<1> HIDE DEF L
<1> SUFFICES ASSUME NEW x \in 1..Len(log'), NEW y \in 1..Len(log'), x <= y,
                    \A j \in x..y - 1 : log'[j].kind # "rotate"
             PROVE  log'[y].file = log'[x].file
  BY DEF Filed
<1>4. CASE y \in 1..L
  <2>1. x \in 1..L /\ \A j \in x..y - 1 : j \in 1..L
    BY <1>1, <1>4
  <2>2. \A j \in x..y - 1 : log[j].kind # "rotate"
    BY <1>2, <2>1
  <2>3. log[y].file = log[x].file
    BY <1>4, <2>1, <2>2 DEF Filed, L
  <2>4. QED
    BY <1>2, <1>4, <2>1, <2>3
<1>5. CASE x \in 1..L /\ \E k \in 1..Len(b) : y = L + k
  <2>1. log'[y].file = LastFile
    BY <1>2, <1>5
  <2>2. L \in 1..L /\ L \in x..y - 1 /\ x <= L /\ L > 0
    BY <1>1, <1>5
  <2>3. log[L].kind # "rotate"
    BY <1>2, <2>2
  <2>4. \A j \in x..L - 1 : log[j].kind # "rotate"
    <3>1. \A j \in x..L - 1 : j \in 1..L /\ j \in x..y - 1
      BY <1>1, <1>5
    <3>2. QED
      BY <1>2, <3>1
  <2>5. log[L].file = log[x].file
    BY <1>5, <2>2, <2>4 DEF Filed, L
  <2>6. QED
    BY <1>2, <1>3, <1>5, <2>1, <2>2, <2>3, <2>5
<1>6. CASE \E k \in 1..Len(b) : x = L + k
  <2>1. \E k \in 1..Len(b) : y = L + k
    BY <1>1, <1>2, <1>6
  <2>2. QED
    BY <1>2, <1>6, <2>1
<1>7. QED
  BY <1>2, <1>4, <1>5, <1>6

(* The source has rotated its log.                                         *)
LEMMA RotateWritten ==
  ASSUME TypeOK, SourceRotates
  PROVE  /\ groups' = groups
         /\ log' \in Seq(LogShape)
         /\ Len(log') = Len(log) + 1
         /\ Len(log) > 0 /\ log[Len(log)].kind # "rotate"
         /\ \A i \in 1..Len(log) : log'[i] = log[i]
         /\ \A i \in 1..Len(log') : i \in 1..Len(log) \/ i = Len(log) + 1
         /\ log'[Len(log) + 1].kind = "rotate"
         /\ log'[Len(log) + 1].group = 0
         /\ log'[Len(log) + 1].file = LastFile
<1> DEFINE b == <<Plain("rotate")>>
<1>1. Plain("rotate") \in EventShape /\ Plain("rotate").kind = "rotate"
  BY EventInShape, EventFields DEF Plain, Kinds
<1>2. b \in Seq(EventShape) /\ Len(b) = 1 /\ b[1].kind = "rotate"
  BY <1>1
<1>3. groups' = groups /\ log' = log \o Placed(b, 0) /\ LastPos > 0
  BY DEF SourceRotates
<1> HIDE DEF b
<1>4. /\ log' \in Seq(LogShape)
      /\ Len(log') = Len(log) + Len(b)
      /\ \A i \in 1..Len(log) : log'[i] = log[i]
      /\ \A k \in 1..Len(b) :
            /\ log'[Len(log) + k].kind = b[k].kind
            /\ log'[Len(log) + k].group = 0
            /\ log'[Len(log) + k].file = LastFile
  BY <1>2, <1>3, LogGrows
<1>5. Len(log) \in Nat /\ (log = <<>> <=> Len(log) = 0)
  BY LogFields DEF TypeOK
<1>6. Len(log) > 0 /\ log[Len(log)].kind # "rotate"
  BY <1>3, <1>5 DEF LastPos
<1>7. 1 \in 1..Len(b)
  BY <1>2
<1>8. QED
  BY <1>2, <1>3, <1>4, <1>5, <1>6, <1>7

LEMMA RotateKeepsLog ==
  ASSUME TypeOK, Linked, Numbered, Filed, SourceRotates
  PROVE  Linked' /\ Numbered' /\ Filed'
<1> DEFINE L == Len(log)
<1>1. /\ L \in Nat /\ L \in 1..L
      /\ groups' = groups
      /\ Len(log') = L + 1
      /\ log[L].kind # "rotate"
      /\ \A i \in 1..L : log'[i] = log[i]
      /\ \A i \in 1..Len(log') : i \in 1..L \/ i = L + 1
      /\ log'[L + 1].kind = "rotate" /\ log'[L + 1].group = 0 /\ log'[L + 1].file = LastFile
  BY RotateWritten, LogFields
<1>2. LastFile = log[L].file /\ log[L].kind \in Closers
  BY <1>1, LastPlace DEF Linked
<1>3. \A i \in 1..L : log[i].group \in Nat
  BY LogFields
<1> HIDE DEF L
<1>4. Linked'
  <2>1. \A i \in 1..Len(log') : log'[i].kind = "rotate" <=> log'[i].group = 0
    BY <1>1 DEF Linked, L
  <2>2. ASSUME NEW i \in 1..Len(log'), log'[i].kind \notin StartKinds
        PROVE  i > 1 /\ log'[i - 1].group = log'[i].group /\ Follows(log'[i - 1], log'[i])
    <3>1. i \in 1..L
      BY <1>1, <2>2 DEF StartKinds
    <3>2. i > 1 /\ log[i - 1].group = log[i].group /\ Follows(log[i - 1], log[i])
      BY <1>1, <2>2, <3>1 DEF Linked, L
    <3>3. i - 1 \in 1..L
      BY <1>1, <3>1, <3>2
    <3>4. QED
      BY <1>1, <3>1, <3>2, <3>3
  <2>3. ASSUME NEW i \in 2..Len(log'), log'[i].kind \in StartKinds PROVE log'[i - 1].kind \in Closers
    <3>1. i - 1 \in 1..L /\ (i \in 2..L \/ i - 1 = L) /\ (i \in 2..L => i \in 1..L)
      BY <1>1
    <3>2. log'[i - 1] = log[i - 1]
      BY <1>1, <3>1
    <3>3. CASE i \in 2..L
      BY <1>1, <2>3, <3>1, <3>2, <3>3 DEF Linked, L
    <3>4. CASE i - 1 = L
      BY <1>2, <3>2, <3>4
    <3>5. QED
      BY <3>1, <3>3, <3>4
  <2>4. log'[Len(log')].kind \in Closers
    BY <1>1 DEF Closers
  <2>5. QED
    BY <2>1, <2>2, <2>3, <2>4 DEF Linked
<1>5. Numbered'
  <2>1. ASSUME NEW i \in 1..Len(log'), NEW j \in 1..Len(log'), i < j, log'[i].kind \in EndKinds
        PROVE  log'[j].group # log'[i].group
    <3>1. i \in 1..L
      BY <1>1, <2>1
    <3>2. CASE j \in 1..L
      BY <1>1, <2>1, <3>1, <3>2 DEF Numbered, L
    <3>3. CASE j = L + 1
      <4>1. log[i].kind # "rotate"
        BY <1>1, <2>1, <3>1 DEF EndKinds
      <4>2. log[i].group # 0
        BY <3>1, <4>1 DEF Linked, L
      <4>3. QED
        BY <1>1, <3>1, <3>3, <4>2
    <3>4. QED
      BY <1>1, <3>2, <3>3
  <2>2. ASSUME NEW i \in 1..Len(log'), NEW j \in 1..Len(log'), i < j,
               log'[i].group # 0, log'[j].group # 0
        PROVE  log'[i].group <= log'[j].group
    <3>1. i \in 1..L /\ j \in 1..L
      BY <1>1, <2>2
    <3>2. QED
      BY <1>1, <2>2, <3>1 DEF Numbered, L
  <2>3. ASSUME NEW g \in 1..groups' PROVE \E i \in 1..Len(log') : log'[i].group = g
    <3>1. PICK i \in 1..L : log[i].group = g
      BY <1>1 DEF Numbered, L
    <3>2. i \in 1..Len(log') /\ log'[i].group = g
      BY <1>1, <3>1
    <3>3. QED
      BY <3>2
  <2>4. QED
    BY <2>1, <2>2, <2>3 DEF Numbered
<1>6. Filed'
  <2> SUFFICES ASSUME NEW x \in 1..Len(log'), NEW y \in 1..Len(log'), x <= y,
                      \A j \in x..y - 1 : log'[j].kind # "rotate"
               PROVE  log'[y].file = log'[x].file
    BY DEF Filed
  <2>1. CASE x = y
    BY <2>1
  <2>2. CASE x < y
    <3>1. x \in 1..L /\ \A j \in x..y - 1 : j \in 1..L
      BY <1>1, <2>2
    <3>2. \A j \in x..y - 1 : log[j].kind # "rotate"
      BY <1>1, <3>1
    <3>3. CASE y \in 1..L
      BY <1>1, <3>1, <3>2, <3>3 DEF Filed, L
    <3>4. CASE y = L + 1
      <4>1. x <= L /\ \A j \in x..L - 1 : j \in x..y - 1
        BY <1>1, <3>1, <3>4
      <4>2. log[L].file = log[x].file
        BY <1>1, <3>1, <3>2, <4>1 DEF Filed, L
      <4>3. QED
        BY <1>1, <1>2, <3>1, <3>4, <4>2
    <3>5. QED
      BY <1>1, <3>3, <3>4
  <2>3. QED
    BY <1>1, <2>1, <2>2
<1>7. QED
  BY <1>4, <1>5, <1>6

-------------------------------------------------------------------------------
(* The last event of a group.                                              *)

Below == {p \in Nat \X Nat : p[1] < p[2]}

LEMMA LeastExists ==
  ASSUME NEW S \in SUBSET Nat, S # {}
  PROVE  \E m \in S : \A k \in S : m <= k
<1>1. IsWellFoundedOn(Below, Nat)
  BY NatLessThanWellFounded DEF OpToRel, Below
<1>2. PICK m \in S : \A k \in S : ~ (<<k, m>> \in Below)
  BY <1>1, WFMin
<1>3. ASSUME NEW k \in S, k < m PROVE FALSE
  <2>1. <<k, m>> \in Nat \X Nat /\ <<k, m>>[1] < <<k, m>>[2]
    BY <1>3
  <2>2. QED
    BY <1>2, <2>1 DEF Below
<1>4. QED
  BY <1>3, <1>2

LEMMA GreatestExists ==
  ASSUME NEW n \in Nat, NEW S \in SUBSET (1..n), S # {}
  PROVE  \E m \in S : \A k \in S : k <= m
<1> DEFINE D == {n - k : k \in S}
<1>1. \A k \in S : k \in Int /\ 1 <= k /\ k <= n
  OBVIOUS
<1>2. \A k \in S : n - k \in Nat
  BY <1>1
<1>3. D \in SUBSET Nat /\ D # {}
  BY <1>2
<1>4. PICK d \in D : \A e \in D : d <= e
  BY <1>3, LeastExists
<1>5. PICK m \in S : d = n - m
  OBVIOUS
<1>6. ASSUME NEW k \in S PROVE k <= m
  <2>1. n - m <= n - k
    BY <1>4, <1>5
  <2>2. QED
    BY <1>1, <2>1
<1>7. QED
  BY <1>6

LEMMA LastOfFound ==
  ASSUME TypeOK, Numbered, NEW g \in 1..groups
  PROVE  /\ LastOf(g) \in 1..Len(log)
         /\ log[LastOf(g)].group = g
         /\ \A j \in 1..Len(log) : log[j].group = g => j <= LastOf(g)
<1>1. Len(log) \in Nat /\ GroupEvents(g) \in SUBSET (1..Len(log))
  BY LogFields DEF GroupEvents
<1>2. GroupEvents(g) # {}
  BY DEF Numbered, GroupEvents
<1>3. \E m \in GroupEvents(g) : \A k \in GroupEvents(g) : k <= m
  BY <1>1, <1>2, GreatestExists
<1>4. LastOf(g) \in GroupEvents(g) /\ \A k \in GroupEvents(g) : k <= LastOf(g)
  BY <1>3 DEF LastOf
<1>5. QED
  BY <1>4 DEF GroupEvents

(* An event that does not end a group is followed by one of its group, and *)
(* after one that does a new group begins.                                 *)
LEMMA Successors ==
  ASSUME TypeOK, Linked, NEW i \in 1..Len(log)
  PROVE  /\ log[i].kind \notin Closers =>
               /\ i + 1 \in 1..Len(log)
               /\ log[i + 1].group = log[i].group
               /\ log[i + 1].kind \notin StartKinds
               /\ Follows(log[i], log[i + 1])
         /\ log[i].kind \in Closers /\ i + 1 \in 1..Len(log) => log[i + 1].kind \in StartKinds
<1>1. Len(log) \in Nat
  BY LogFields
<1>2. ASSUME log[i].kind \notin Closers
      PROVE  /\ i + 1 \in 1..Len(log)
             /\ log[i + 1].group = log[i].group
             /\ log[i + 1].kind \notin StartKinds
             /\ Follows(log[i], log[i + 1])
  <2>1. i # Len(log)
    BY <1>1, <1>2 DEF Linked
  <2>2. i + 1 \in 1..Len(log) /\ i + 1 \in 2..Len(log) /\ (i + 1) - 1 = i
    BY <1>1, <2>1
  <2>3. log[i + 1].kind \notin StartKinds
    BY <1>2, <2>2 DEF Linked
  <2>4. QED
    BY <2>2, <2>3 DEF Linked
<1>3. ASSUME log[i].kind \in Closers, i + 1 \in 1..Len(log) PROVE log[i + 1].kind \in StartKinds
  <2>1. (i + 1) - 1 = i
    BY <1>1
  <2>2. log[i + 1].kind \notin StartKinds => Follows(log[i], log[i + 1])
    BY <1>3, <2>1 DEF Linked
  <2>3. QED
    BY <1>3, <2>2 DEF Follows, Closers, EndKinds
<1>4. QED
  BY <1>2, <1>3

(* The end of a group is its last event and has an end's kind.             *)
LEMMA LastIsEnd ==
  ASSUME TypeOK, Linked, Numbered, NEW i \in 1..Len(log), log[i].group # 0
  PROVE  /\ log[i].group \in 1..groups
         /\ log[i].kind \in EndKinds <=> i = LastOf(log[i].group)
<1> DEFINE g == log[i].group
<1>1. g \in 1..groups /\ Len(log) \in Nat
  BY LogFields
<1>2. /\ LastOf(g) \in 1..Len(log)
      /\ log[LastOf(g)].group = g
      /\ \A j \in 1..Len(log) : log[j].group = g => j <= LastOf(g)
  BY <1>1, LastOfFound
<1>3. ASSUME log[i].kind \in EndKinds PROVE i = LastOf(g)
  <2>1. ~(i < LastOf(g))
    BY <1>2, <1>3 DEF Numbered
  <2>2. i <= LastOf(g)
    BY <1>2
  <2>3. QED
    BY <1>1, <1>2, <2>1, <2>2
<1>4. ASSUME i = LastOf(g), log[i].kind \notin EndKinds PROVE FALSE
  <2>1. log[i].kind \notin Closers
    BY <1>4 DEF Linked, Closers
  <2>2. i + 1 \in 1..Len(log) /\ log[i + 1].group = g
    BY <2>1, Successors
  <2>3. QED
    BY <1>1, <1>2, <1>4, <2>2
<1>5. QED
  BY <1>1, <1>3, <1>4

-------------------------------------------------------------------------------
(* A longer log changes nothing that the stream has passed.                *)

SourceSteps == SourceRotates \/ \E b \in Bodies : SourceWrites(b)

LEMMA LogExtended ==
  ASSUME TypeOK, SourceSteps
  PROVE  /\ log' \in Seq(LogShape)
         /\ Len(log') \in Nat /\ Len(log) < Len(log')
         /\ \A i \in 1..Len(log) : log'[i] = log[i]
         /\ \A i \in 1..Len(log') : i > Len(log) =>
               log'[i].group \notin 1..groups /\ log'[i].file = LastFile
         /\ \A i \in 1..Len(log') : log'[i].group <= groups'
         /\ groups' \in 0..MaxGroups /\ groups <= groups'
         /\ UNCHANGED <<captured, decoder, stream, ended, emitted>>
<1>0. Len(log) \in Nat /\ groups \in Nat /\ \A i \in 1..Len(log) : log[i].group <= groups /\ log[i].group \in Nat
  BY LogFields
<1>1. CASE SourceRotates
  <2>1. UNCHANGED <<captured, decoder, stream, ended, emitted>>
    BY <1>1 DEF SourceRotates
  <2>2. groups' \in 0..MaxGroups /\ groups' = groups
    BY <1>1, RotateWritten DEF TypeOK
  <2>3. /\ log' \in Seq(LogShape) /\ Len(log') = Len(log) + 1
        /\ \A i \in 1..Len(log) : log'[i] = log[i]
        /\ \A i \in 1..Len(log') : i \in 1..Len(log) \/ i = Len(log) + 1
        /\ log'[Len(log) + 1].group = 0 /\ log'[Len(log) + 1].file = LastFile
    BY <1>1, RotateWritten
  <2>4. \A i \in 1..Len(log') : i > Len(log) =>
           log'[i].group \notin 1..groups /\ log'[i].file = LastFile
    BY <1>0, <2>3
  <2>5. \A i \in 1..Len(log') : log'[i].group <= groups'
    BY <1>0, <2>2, <2>3
  <2>6. QED
    BY <1>0, <2>1, <2>2, <2>3, <2>4, <2>5
<1>2. ASSUME NEW b \in Bodies, SourceWrites(b)
      PROVE  /\ log' \in Seq(LogShape)
             /\ Len(log') \in Nat /\ Len(log) < Len(log')
             /\ \A i \in 1..Len(log) : log'[i] = log[i]
             /\ \A i \in 1..Len(log') : i > Len(log) =>
                   log'[i].group \notin 1..groups /\ log'[i].file = LastFile
             /\ \A i \in 1..Len(log') : log'[i].group <= groups'
             /\ groups' \in 0..MaxGroups /\ groups <= groups'
             /\ UNCHANGED <<captured, decoder, stream, ended, emitted>>
  <2>1. UNCHANGED <<captured, decoder, stream, ended, emitted>> /\ groups < MaxGroups
    BY <1>2 DEF SourceWrites
  <2>2. groups' = groups + 1 /\ groups' \in 0..MaxGroups
    BY <1>0, <1>2, <2>1, GroupWritten, MaxGroupsAssumption
  <2>3. /\ log' \in Seq(LogShape) /\ Len(log') = Len(log) + Len(b) /\ Len(b) >= 2 /\ Len(b) \in Nat
        /\ \A i \in 1..Len(log) : log'[i] = log[i]
        /\ \A i \in 1..Len(log') : i \in 1..Len(log) \/ \E k \in 1..Len(b) : i = Len(log) + k
        /\ \A k \in 1..Len(b) : /\ log'[Len(log) + k].group = groups + 1
                                /\ log'[Len(log) + k].file = LastFile
    BY <1>2, GroupWritten DEF Group
  <2>4. ASSUME NEW i \in 1..Len(log'), i > Len(log)
        PROVE  log'[i].group = groups + 1 /\ log'[i].file = LastFile
    <3>1. ~(i \in 1..Len(log))
      BY <1>0, <2>4
    <3>2. PICK k \in 1..Len(b) : i = Len(log) + k
      BY <2>3, <3>1
    <3>3. QED
      BY <2>3, <3>2
  <2>5. \A i \in 1..Len(log') : i > Len(log) =>
           log'[i].group \notin 1..groups /\ log'[i].file = LastFile
    BY <1>0, <2>4
  <2>6. ASSUME NEW i \in 1..Len(log') PROVE log'[i].group <= groups'
    <3>1. CASE i \in 1..Len(log)
      <4>1. log'[i] = log[i] /\ log[i].group <= groups /\ log[i].group \in Nat
        BY <1>0, <2>3, <3>1
      <4>2. QED
        BY <1>0, <2>2, <4>1
    <3>2. CASE i > Len(log)
      BY <1>0, <2>2, <2>4, <3>2
    <3>3. QED
      BY <1>0, <2>3, <3>1, <3>2
  <2>7. QED
    BY <1>0, <2>1, <2>2, <2>3, <2>5, <2>6
<1>3. QED
  BY <1>1, <1>2 DEF SourceSteps

LEMMA OldGroups ==
  ASSUME TypeOK, Numbered, SourceSteps, NEW g \in 1..groups
  PROVE  /\ GroupEvents(g)' = GroupEvents(g)
         /\ LastOf(g)' = LastOf(g)
         /\ RowsOf(g)' = RowsOf(g)
         /\ Ending(g)' = Ending(g)
         /\ Passed(g)' <=> Passed(g)
         /\ Owed(g)' <=> Owed(g)
         /\ \A tx : Whole(tx, g)' <=> Whole(tx, g)
<1>1. /\ Len(log') \in Nat /\ Len(log) < Len(log') /\ Len(log) \in Nat
      /\ \A i \in 1..Len(log) : log'[i] = log[i]
      /\ \A i \in 1..Len(log') : i > Len(log) => log'[i].group \notin 1..groups
      /\ UNCHANGED <<captured, decoder, stream, ended, emitted>>
  BY LogExtended, LogFields
<1>2. GroupEvents(g)' = GroupEvents(g)
  <2>1. \A i : i \in 1..Len(log') /\ log'[i].group = g <=> i \in 1..Len(log) /\ log[i].group = g
    BY <1>1
  <2>2. QED
    BY <2>1 DEF GroupEvents
<1>3. LastOf(g)' = LastOf(g)
  BY <1>2 DEF LastOf
<1>4. \A i \in GroupEvents(g) : log'[i] = log[i]
  BY <1>1 DEF GroupEvents
<1>5. UNCHANGED <<captured, omit, next>>
  BY <1>1 DEF stream
<1>6. RowsOf(g)' = RowsOf(g)
  BY <1>2, <1>4, <1>5 DEF RowsOf, Decoded, Filtered
<1>7. LastOf(g) \in GroupEvents(g)
  BY LastOfFound DEF GroupEvents
<1>8. Ending(g)' = Ending(g)
  BY <1>3, <1>4, <1>7 DEF Ending
<1>9. Passed(g)' <=> Passed(g)
  BY <1>3, <1>5 DEF Passed
<1>10. Owed(g)' <=> Owed(g)
  BY <1>5, <1>6, <1>8 DEF Owed, Filtered
<1>11. \A i \in GroupEvents(g) : At(i)' = At(i)
  BY <1>4 DEF At, Cursor
<1>12. At(LastOf(g))' = At(LastOf(g))
  BY <1>3, <1>4, <1>7 DEF At, Cursor
<1>13. \A tx : Whole(tx, g)' <=> Whole(tx, g)
  BY <1>2, <1>4, <1>6, <1>8, <1>11, <1>12 DEF Whole, Lists
<1>14. QED
  BY <1>2, <1>3, <1>6, <1>8, <1>9, <1>10, <1>13

LEMMA GrowthKeepsReturned ==
  ASSUME TypeOK, Numbered, Numbered', TypeOK', SourceSteps, WholeTransactions
  PROVE  WholeTransactions'
<1>1. /\ Len(log') \in Nat /\ Len(log) < Len(log') /\ Len(log) \in Nat
      /\ \A i \in 1..Len(log) : log'[i] = log[i]
      /\ groups \in Nat /\ groups' \in Nat /\ groups <= groups'
      /\ emitted' = emitted /\ next' = next /\ next <= Len(log) + 1 /\ next \in Nat
      /\ \A i \in 1..Len(log) : log[i].group \in Nat /\ log[i].group <= groups
  BY LogExtended, LogFields DEF stream
<1>2. \A g \in 1..groups' : g \in 1..groups \/ ~Passed(g)'
  <2> SUFFICES ASSUME NEW g \in 1..groups', g \notin 1..groups PROVE ~Passed(g)'
    OBVIOUS
  <2>1. GroupEvents(g)' \in SUBSET (1..Len(log')) /\ GroupEvents(g)' # {}
    BY DEF GroupEvents, Numbered
  <2>2. \E m \in GroupEvents(g)' : \A k \in GroupEvents(g)' : k <= m
    BY <1>1, <2>1, GreatestExists
  <2>3. LastOf(g)' \in GroupEvents(g)'
    BY <2>2 DEF LastOf
  <2>4. LastOf(g)' \in 1..Len(log') /\ log'[LastOf(g)'].group = g
    BY <2>3 DEF GroupEvents
  <2>5. LastOf(g)' \notin 1..Len(log)
    BY <1>1, <2>4
  <2>6. ~(LastOf(g)' < next')
    BY <1>1, <2>4, <2>5
  <2>7. QED
    BY <2>6 DEF Passed
<1>3. 1..groups \subseteq 1..groups'
  BY <1>1
<1>4. \A g \in 1..groups : /\ Ending(g)' = Ending(g)
                           /\ Passed(g)' <=> Passed(g)
                           /\ Owed(g)' <=> Owed(g)
                           /\ \A tx : Whole(tx, g)' <=> Whole(tx, g)
  BY OldGroups
<1>5. QED
  BY <1>1, <1>2, <1>3, <1>4 DEF WholeTransactions

LEMMA FilesStay ==
  ASSUME TypeOK, SourceSteps, NEW n \in 1..Len(log) + 1
  PROVE  FileAt(n)' = FileAt(n)
<1>1. /\ Len(log') \in Nat /\ Len(log) < Len(log') /\ Len(log) \in Nat
      /\ \A i \in 1..Len(log) : log'[i] = log[i]
      /\ \A i \in 1..Len(log') : i > Len(log) => log'[i].file = LastFile
  BY LogExtended, LogFields
<1>2. CASE n <= Len(log)
  <2>1. n \in 1..Len(log) /\ n <= Len(log')
    BY <1>1, <1>2
  <2>2. QED
    BY <1>1, <1>2, <2>1 DEF FileAt
<1>3. CASE n = Len(log) + 1
  <2>1. n \in 1..Len(log') /\ n > Len(log) /\ n <= Len(log') /\ ~(n <= Len(log))
    BY <1>1, <1>3
  <2>2. log'[n].file = LastFile
    BY <1>1, <2>1
  <2>3. QED
    BY <2>1, <2>2 DEF FileAt
<1>4. QED
  BY <1>1, <1>2, <1>3

LEMMA GrowthKeepsTurned ==
  ASSUME TypeOK, TypeOK', Turned, SourceSteps
  PROVE  Turned'
<1>1. /\ Len(log') \in Nat /\ Len(log) < Len(log') /\ Len(log) \in Nat
      /\ \A i \in 1..Len(log) : log'[i] = log[i]
  BY LogExtended, LogFields
<1>2. SUFFICES ASSUME NEW i \in 1..Len(log'), log'[i].kind = "rotate"
               PROVE  FileAt(i + 1)' = log'[i].file + 1
  BY DEF Turned
<1>3. CASE i \in 1..Len(log)
  <2>1. i + 1 \in 1..Len(log) + 1
    BY <1>1, <1>3
  <2>2. FileAt(i + 1) = log[i].file + 1
    BY <1>1, <1>2, <1>3 DEF Turned
  <2>3. QED
    BY <1>1, <1>3, <2>1, <2>2, FilesStay
<1>4. CASE i \notin 1..Len(log)
  <2>1. i = Len(log')
    <3>1. CASE SourceRotates
      BY <1>1, <1>4, <3>1, RotateWritten
    <3>2. ASSUME NEW b \in Bodies, SourceWrites(b) PROVE FALSE
      <4>1. PICK k \in 1..Len(b) : i = Len(log) + k /\ log'[i].kind = b[k].kind
        <5>1. i \in 1..Len(log) \/ \E m \in 1..Len(b) : i = Len(log) + m
          BY <3>2, GroupWritten
        <5>2. PICK m \in 1..Len(b) : i = Len(log) + m
          BY <1>4, <5>1
        <5>3. log'[Len(log) + m].kind = b[m].kind
          BY <3>2, GroupWritten
        <5>4. QED
          BY <5>2, <5>3
      <4>2. Group(b)
        BY BodiesAreGroups
      <4>3. b[1].kind = "gtid" /\ Len(b) \in Nat /\ \A m \in 2..Len(b) : b[m].kind \notin StartKinds
        BY <4>2 DEF Group
      <4>4. k = 1 \/ k \in 2..Len(b)
        BY <4>3
      <4>5. QED
        BY <1>2, <4>1, <4>3, <4>4 DEF StartKinds
    <3>3. QED
      BY <3>1, <3>2 DEF SourceSteps
  <2>2. log' # <<>> /\ ~(i + 1 <= Len(log'))
    BY <1>1, <2>1
  <2>3. QED
    BY <1>2, <2>1, <2>2 DEF FileAt, LastFile
<1>5. QED
  BY <1>3, <1>4

LEMMA GrowthKeepsHeld ==
  ASSUME TypeOK, Linked, Numbered, SourceSteps, Held, InFile
  PROVE  Held' /\ InFile'
<1>1. /\ Len(log') \in Nat /\ Len(log) < Len(log') /\ Len(log) \in Nat
      /\ \A i \in 1..Len(log) : log'[i] = log[i]
      /\ \A i \in 1..Len(log') : i > Len(log) => log'[i].file = LastFile
      /\ UNCHANGED <<file, known, pending, next, greeted, omit>>
      /\ next \in Nat /\ next >= 1 /\ next <= Len(log) + 1
  BY LogExtended, LogFields DEF decoder, stream
<1>2. next # 1 => next - 1 \in 1..Len(log) /\ log'[next - 1] = log[next - 1]
  BY <1>1
<1>3. Between' <=> Between
  BY <1>1, <1>2 DEF Between
<1>4. InFile'
  <2>1. next \in 1..Len(log) + 1
    BY <1>1
  <2>2. PICK n \in 1..Len(log) + 1 : n = next
    BY <2>1
  <2>3. FileAt(n)' = FileAt(n)
    BY FilesStay
  <2>4. QED
    BY <1>1, <2>2, <2>3 DEF InFile, FileAt
<1>5. ASSUME ~Between PROVE Taking(log[next - 1].group)'
  <2>1. PICK g : g = log[next - 1].group
    OBVIOUS
  <2>2. Taking(g) /\ next # 1
    BY <1>5, <2>1 DEF Held, Between
  <2>3. g \in 1..groups
    BY <1>1, <1>2, <2>1, <2>2, LogFields DEF Taking
  <2>4. RowsOf(g)' = RowsOf(g)
    BY <2>3, OldGroups
  <2>5. \A b \in 1..next - 1 : b \in 1..Len(log) /\ log'[b] = log[b] /\ At(b)' = At(b)
    BY <1>1 DEF At, Cursor
  <2>6. Taking(g)'
    BY <1>1, <1>2, <2>2, <2>4, <2>5 DEF Taking, Lists
  <2>7. log'[next' - 1].group = g
    BY <1>1, <1>2, <2>1, <2>2
  <2>8. QED
    BY <2>6, <2>7
<1>6. QED
  BY <1>1, <1>3, <1>4, <1>5 DEF Held, NoPending, Cursor

-------------------------------------------------------------------------------
(* The event the stream is sent.                                           *)

LEMMA SentPlace ==
  ASSUME TypeOK, LogOK, Held, InFile, NEW i \in 1..Len(log), Sent(i)
  PROVE  /\ next <= i
         /\ file = log[i].file
         /\ Between => log[i].kind \in StartKinds /\ pending = NoPending
         /\ ~Between => /\ i = next /\ i > 1 /\ i - 1 \in 1..Len(log)
                        /\ log[i].kind \notin StartKinds
                        /\ log[i - 1].group = log[i].group
                        /\ Follows(log[i - 1], log[i])
                        /\ Taking(log[i].group)
<1>1. /\ Len(log) \in Nat /\ next \in Nat /\ next >= 1 /\ next <= i /\ i <= Len(log)
      /\ log[i].group \notin omit
      /\ \A j \in next..i - 1 : log[j].group \in omit
      /\ greeted
      /\ omit \subseteq 1..groups
      /\ groups \in Nat
  BY LogFields DEF Sent, TypeOK
<1>2. file = log[i].file
  <2>1. next \in 1..Len(log) /\ next <= i
    BY <1>1
  <2>2. file = log[next].file
    BY <1>1, <2>1 DEF InFile, FileAt
  <2>3. ASSUME NEW j \in next..i - 1 PROVE log[j].kind # "rotate"
    <3>1. j \in 1..Len(log) /\ log[j].group # 0
      BY <1>1
    <3>2. QED
      BY <3>1 DEF LogOK, Linked
  <2>4. log[i].file = log[next].file
    BY <2>1, <2>3 DEF LogOK, Filed
  <2>5. QED
    BY <2>2, <2>4
<1>3. ASSUME Between PROVE log[i].kind \in StartKinds
  <2> SUFFICES ASSUME log[i].kind \notin StartKinds PROVE FALSE
    OBVIOUS
  <2>1. i > 1 /\ log[i - 1].group = log[i].group
    BY DEF LogOK, Linked
  <2>2. ~(i - 1 \in next..i - 1)
    BY <1>1, <2>1
  <2>3. i = next /\ next # 1
    BY <1>1, <2>1, <2>2
  <2>4. log[next - 1].kind \in Closers /\ next - 1 \in 1..Len(log) /\ (next - 1) + 1 = i
    BY <1>1, <1>3, <2>3 DEF Between
  <2>5. log[(next - 1) + 1].kind \in StartKinds
    BY <2>4, Successors DEF LogOK
  <2>6. QED
    BY <2>4, <2>5
<1>4. ASSUME ~Between
      PROVE  /\ i = next /\ i > 1 /\ i - 1 \in 1..Len(log)
             /\ log[i].kind \notin StartKinds
             /\ log[i - 1].group = log[i].group
             /\ Follows(log[i - 1], log[i])
             /\ Taking(log[i].group)
  <2>1. next # 1 /\ log[next - 1].kind \notin Closers /\ next - 1 \in 1..Len(log)
    BY <1>1, <1>4 DEF Between
  <2>2. (next - 1) + 1 = next
    BY <1>1
  <2>3. /\ log[next].group = log[next - 1].group
        /\ log[next].kind \notin StartKinds
        /\ Follows(log[next - 1], log[next])
    BY <2>1, <2>2, Successors DEF LogOK
  <2>4. Taking(log[next - 1].group)
    BY <1>4 DEF Held
  <2>5. log[next].group \notin omit
    BY <2>3, <2>4 DEF Taking
  <2>6. ~(next \in next..i - 1)
    BY <1>1, <2>5
  <2>7. i = next
    BY <1>1, <2>6
  <2>8. QED
    BY <1>1, <2>1, <2>3, <2>4, <2>7
<1>5. QED
  BY <1>1, <1>2, <1>3, <1>4 DEF Held

(* An event sent within a group is what the decoder expects there.         *)
LEMMA InPlace ==
  ASSUME TypeOK, LogOK, Held, InFile
  PROVE  NeverOutOfPlace
<1> SUFFICES ASSUME NEW i \in 1..Len(log), Sent(i), OutOfPlace(i) PROVE FALSE
  BY DEF NeverOutOfPlace
<1>1. CASE Between
  <2>1. log[i].kind \in StartKinds /\ pending = NoPending
    BY <1>1, SentPlace
  <2>2. QED
    BY <2>1 DEF OutOfPlace, StartKinds, NoPending
<1>2. CASE ~Between
  <2>1. /\ i = next
        /\ log[i].kind \notin StartKinds
        /\ Follows(log[i - 1], log[i])
        /\ Taking(log[i].group)
    BY <1>2, SentPlace
  <2>2. /\ pending.began <=> log[i - 1].kind # "gtid"
        /\ log[i - 1].kind = "map" => log[i - 1].table \in known
    BY <2>1 DEF Taking
  <2>3. QED
    BY <2>1, <2>2 DEF OutOfPlace, StartKinds, Follows
<1>3. QED
  BY <1>1, <1>2

(* A group's GTID is its first event.                                      *)
LEMMA GtidIsFirst ==
  ASSUME TypeOK, LogOK, NEW i \in 1..Len(log), log[i].kind = "gtid"
  PROVE  \A j \in 1..Len(log) : log[j].group = log[i].group => i <= j
<1> DEFINE S == {j \in 1..i - 1 : log[j].group = log[i].group}
<1>1. Len(log) \in Nat /\ i - 1 \in Nat
  BY LogFields
<1>2. log[i].group # 0
  BY DEF LogOK, Linked
<1>3. ASSUME S # {} PROVE FALSE
  <2>1. PICK e \in S : \A k \in S : k <= e
    <3>1. S \in SUBSET (1..i - 1)
      OBVIOUS
    <3>2. QED
      BY <1>1, <1>3, <3>1, GreatestExists
  <2>2. e \in 1..Len(log) /\ e < i /\ log[e].group = log[i].group
    BY <1>1, <2>1
  <2>3. log[e].kind \notin EndKinds
    BY <2>2 DEF LogOK, Numbered
  <2>4. log[e].kind \notin Closers
    BY <1>2, <2>2, <2>3 DEF LogOK, Linked, Closers
  <2>5. /\ e + 1 \in 1..Len(log)
        /\ log[e + 1].group = log[e].group
        /\ log[e + 1].kind \notin StartKinds
    BY <2>2, <2>4, Successors DEF LogOK
  <2>6. e + 1 # i
    BY <2>5 DEF StartKinds
  <2>7. e + 1 \in S
    BY <1>1, <2>2, <2>5, <2>6
  <2>8. QED
    BY <1>1, <2>1, <2>2, <2>7
<1>4. ASSUME NEW j \in 1..Len(log), log[j].group = log[i].group, ~(i <= j) PROVE FALSE
  <2>1. j \in S
    BY <1>1, <1>4
  <2>2. QED
    BY <1>3, <2>1
<1>5. QED
  BY <1>4

-------------------------------------------------------------------------------
(* Type correctness.                                                       *)

LEMMA PendingFields ==
  ASSUME TypeOK
  PROVE  /\ pending.id \in Nat /\ pending.begin \in CursorShape /\ pending.began \in BOOLEAN
         /\ pending.changes \in Seq(Nat) /\ Len(pending.changes) <= MaxChanges
         /\ pending = [id |-> pending.id, begin |-> pending.begin, began |-> pending.began,
                       changes |-> pending.changes]
BY DEF TypeOK, PendingShape

LEMMA NoPendingShape == NoPending \in PendingShape /\ Len(NoPending.changes) = 0
<1>1. <<>> \in Seq(Nat) /\ Len(<<>>) = 0 /\ Cursor(0, 0) \in CursorShape
  BY DEF Cursor, CursorShape
<1>2. QED
  BY <1>1 DEF NoPending, PendingShape

LEMMA StartedShape ==
  ASSUME NEW id \in Nat, NEW c \in CursorShape
  PROVE  /\ Started(id, c, FALSE) \in PendingShape
         /\ Len(Started(id, c, FALSE).changes) <= MaxChanges
         /\ Started(id, c, TRUE) \in PendingShape
         /\ Len(Started(id, c, TRUE).changes) <= MaxChanges
<1>1. <<>> \in Seq(Nat) /\ Len(<<>>) <= MaxChanges
  BY MaxChangesAssumption
<1>2. QED
  BY <1>1 DEF Started, PendingShape

LEMMA TransactionShape ==
  ASSUME NEW p \in PendingShape, NEW c \in CursorShape
  PROVE  Transaction(p, c) \in EmittedShape
BY DEF Transaction, PendingShape, EmittedShape

LEMMA GrowthTypeStep ==
  ASSUME TypeOK, SourceSteps
  PROVE  TypeOK'
<1>1. /\ log' \in Seq(LogShape)
      /\ Len(log') \in Nat /\ Len(log) < Len(log') /\ Len(log) \in Nat
      /\ \A i \in 1..Len(log') : log'[i].group <= groups'
      /\ groups' \in 0..MaxGroups /\ groups <= groups'
      /\ groups \in Nat /\ groups' \in Nat
      /\ UNCHANGED <<captured, decoder, stream, ended, emitted>>
  BY LogExtended, LogFields, MaxGroupsAssumption
<1>2. UNCHANGED <<file, known, pending, next, greeted, omit>>
  BY <1>1 DEF decoder, stream
<1>3. next' \in 1..Len(log') + 1
  BY <1>1, <1>2, LogFields
<1>4. omit' \subseteq 1..groups'
  BY <1>1, <1>2 DEF TypeOK
<1>5. QED
  BY <1>1, <1>2, <1>3, <1>4 DEF TypeOK

LEMMA OpenTypeStep ==
  ASSUME TypeOK, NEW f \in Nat, NEW start \in 1..Len(log) + 1, NEW set \in SUBSET (1..groups),
         Open(f, start, set)
  PROVE  TypeOK'
<1>1. /\ captured' = captured /\ log' = log /\ groups' = groups
      /\ file' = f /\ known' = {} /\ pending' = NoPending /\ next' = start /\ greeted' = FALSE
      /\ omit' = set /\ ended' = "open" /\ emitted' = <<>>
  BY DEF Open, written
<1>2. pending' \in PendingShape /\ Len(pending'.changes) <= MaxChanges
  BY <1>1, NoPendingShape, MaxChangesAssumption
<1>3. emitted' \in Seq(EmittedShape)
  BY <1>1
<1>4. QED
  BY <1>1, <1>2, <1>3 DEF TypeOK

LEMMA FileTyped ==
  ASSUME TypeOK, NEW n \in 1..Len(log) + 1
  PROVE  FileAt(n) \in Nat
<1>1. Len(log) \in Nat /\ (n <= Len(log) => n \in 1..Len(log))
  BY LogFields
<1>2. QED
  BY <1>1, LogFields, LastPlace DEF FileAt

LEMMA HereTyped ==
  ASSUME TypeOK, NEW i \in 1..Len(log)
  PROVE  Here(i) \in CursorShape
<1>1. file \in Nat /\ log[i].pos \in Nat
  BY LogFields DEF TypeOK
<1>2. QED
  BY <1>1 DEF Here, Cursor, CursorShape

(* What a step on a sent event leaves to show.                             *)
LEMMA TakenTypeStep ==
  ASSUME TypeOK, NEW i \in 1..Len(log), Taken(i),
         file' \in Nat, known' \subseteq Tables \cup {"none"},
         pending' \in PendingShape, Len(pending'.changes) <= MaxChanges,
         ended' \in {"open", "closed", "failed"}, emitted' \in Seq(EmittedShape)
  PROVE  TypeOK'
<1>1. /\ captured' = captured /\ log' = log /\ groups' = groups
      /\ next' = i + 1 /\ greeted' = greeted /\ omit' = omit
  BY DEF Taken, written
<1>2. next' \in 1..Len(log') + 1
  BY <1>1, LogFields
<1>3. QED
  BY <1>1, <1>2 DEF TypeOK

LEMMA FinishTyped ==
  ASSUME TypeOK, NEW p \in PendingShape, NEW c \in CursorShape, Finish(p, c)
  PROVE  /\ pending' \in PendingShape /\ Len(pending'.changes) <= MaxChanges
         /\ emitted' \in Seq(EmittedShape)
<1>1. emitted \in Seq(EmittedShape) /\ Transaction(p, c) \in EmittedShape
  BY TransactionShape DEF TypeOK
<1>2. Append(emitted, Transaction(p, c)) \in Seq(EmittedShape)
  BY <1>1
<1>3. QED
  BY <1>1, <1>2, NoPendingShape, MaxChangesAssumption DEF Finish

LEMMA DecodeTypeStep ==
  ASSUME TypeOK, NEW i \in 1..Len(log), Decode(i)
  PROVE  TypeOK'
<1>0. /\ file \in Nat /\ known \subseteq Tables \cup {"none"}
      /\ pending \in PendingShape /\ Len(pending.changes) <= MaxChanges
      /\ ended \in {"open", "closed", "failed"} /\ emitted \in Seq(EmittedShape)
      /\ log[i].table \in Tables \cup {"none"} /\ log[i].group \in Nat /\ log[i].file \in Nat
      /\ Here(i) \in CursorShape
      /\ i \in Nat
  BY LogFields, HereTyped DEF TypeOK
<1>1. CASE Rotate(i)
  <2>1. /\ Taken(i) /\ file' = log[i].file + 1 /\ known' = {}
        /\ pending' = pending /\ ended' = ended /\ emitted' = emitted
    BY <1>1 DEF Rotate
  <2>2. file' \in Nat /\ known' \subseteq Tables \cup {"none"}
    BY <1>0, <2>1
  <2>3. QED
    BY <1>0, <2>1, <2>2, TakenTypeStep
<1>2. CASE StoreTableMap(i)
  <2>1. /\ Taken(i) /\ file' = file /\ known' = known \cup {log[i].table}
        /\ pending' = pending /\ ended' = ended /\ emitted' = emitted
    BY <1>2 DEF StoreTableMap
  <2>2. known' \subseteq Tables \cup {"none"}
    BY <1>0, <2>1
  <2>3. QED
    BY <1>0, <2>1, <2>2, TakenTypeStep
<1>3. CASE StartTransaction(i)
  <2>1. /\ Taken(i) /\ file' = file /\ known' = known
        /\ pending' = Started(log[i].group, Here(i), FALSE) /\ ended' = ended /\ emitted' = emitted
    BY <1>3 DEF StartTransaction
  <2>2. pending' \in PendingShape /\ Len(pending'.changes) <= MaxChanges
    <3>1. /\ Started(log[i].group, Here(i), FALSE) \in PendingShape
          /\ Len(Started(log[i].group, Here(i), FALSE).changes) <= MaxChanges
      BY <1>0, StartedShape
    <3>2. QED
      BY <2>1, <3>1, Zenon
  <2>3. QED
    BY <1>0, <2>1, <2>2, TakenTypeStep
<1>4. CASE Begin(i)
  <2>1. /\ Taken(i) /\ file' = file /\ known' = known
        /\ pending' = IF pending.id = 0 THEN Started(log[i].group, Here(i), TRUE)
                      ELSE [pending EXCEPT !.begin = Here(i), !.began = TRUE]
        /\ ended' = ended /\ emitted' = emitted
    BY <1>4 DEF Begin
  <2>2. /\ [pending EXCEPT !.begin = Here(i), !.began = TRUE] \in PendingShape
        /\ [pending EXCEPT !.begin = Here(i), !.began = TRUE].changes = pending.changes
    BY <1>0 DEF PendingShape
  <2>3. /\ Started(log[i].group, Here(i), TRUE) \in PendingShape
        /\ Len(Started(log[i].group, Here(i), TRUE).changes) <= MaxChanges
    BY <1>0, StartedShape
  <2>4. pending' \in PendingShape /\ Len(pending'.changes) <= MaxChanges
    BY <1>0, <2>1, <2>2, <2>3, Zenon
  <2>5. QED
    BY <1>0, <2>1, <2>4, TakenTypeStep
<1>5. CASE HandleRows(i)
  <2>1. /\ Taken(i) /\ file' = file /\ known' = known
        /\ ended' = ended /\ emitted' = emitted
    BY <1>5 DEF HandleRows
  <2>2. CASE Decoded(log[i].table)
    <3>1. Len(pending.changes) < MaxChanges /\ pending' = [pending EXCEPT !.changes = Append(@, i)]
      BY <1>5, <2>2 DEF HandleRows
    <3>2. pending.changes \in Seq(Nat)
      BY PendingFields
    <3>3. Append(pending.changes, i) \in Seq(Nat)
          /\ Len(Append(pending.changes, i)) = Len(pending.changes) + 1
      BY <1>0, <3>2
    <3>4. pending' \in PendingShape /\ pending'.changes = Append(pending.changes, i)
      BY <1>0, <3>1, <3>3 DEF PendingShape
    <3>5. Len(pending.changes) \in Nat
      BY <3>2
    <3>6. Len(pending'.changes) <= MaxChanges
      BY <3>1, <3>3, <3>4, <3>5, MaxChangesAssumption
    <3>7. QED
      BY <1>0, <2>1, <3>4, <3>6, TakenTypeStep
  <2>3. CASE ~Decoded(log[i].table)
    <3>1. pending' = pending
      BY <1>5, <2>3 DEF HandleRows
    <3>2. QED
      BY <1>0, <2>1, <3>1, TakenTypeStep
  <2>4. QED
    BY <2>2, <2>3
<1>6. CASE Commit(i)
  <2>1. Taken(i) /\ file' = file /\ known' = known /\ ended' = ended /\ Finish(pending, Here(i))
    BY <1>6 DEF Commit
  <2>2. QED
    BY <1>0, <2>1, FinishTyped, TakenTypeStep
<1>7. CASE Rollback(i)
  <2>1. /\ Taken(i) /\ file' = file /\ known' = known /\ ended' = ended
        /\ pending' = NoPending /\ emitted' = emitted
    BY <1>7 DEF Rollback
  <2>2. QED
    BY <1>0, <2>1, NoPendingShape, MaxChangesAssumption, TakenTypeStep
<1>8. CASE ControlStatement(i)
  <2> DEFINE p == IF pending.id = 0 THEN pending ELSE [pending EXCEPT !.began = TRUE]
  <2>1. /\ Taken(i) /\ file' = file /\ known' = known /\ ended' = ended
        /\ IF Filtered THEN Finish(p, Here(i))
           ELSE /\ pending' = IF pending.changes = <<>> THEN NoPending ELSE pending
                /\ emitted' = emitted
    BY <1>8 DEF ControlStatement
  <2>2. p \in PendingShape
    BY <1>0 DEF PendingShape
  <2> HIDE DEF p
  <2>3. /\ pending' \in PendingShape /\ Len(pending'.changes) <= MaxChanges
        /\ emitted' \in Seq(EmittedShape)
    BY <1>0, <2>1, <2>2, FinishTyped, NoPendingShape, MaxChangesAssumption
  <2>4. QED
    BY <1>0, <2>1, <2>3, TakenTypeStep
<1>9. CASE DecodeFails(i)
  BY <1>9 DEF DecodeFails, Ends, written, decoder, stream, TypeOK
<1>10. QED
  BY <1>1, <1>2, <1>3, <1>4, <1>5, <1>6, <1>7, <1>8, <1>9 DEF Decode

-------------------------------------------------------------------------------
(* The stream moves past an event.                                         *)

LEMMA SameLog ==
  ASSUME UNCHANGED written
  PROVE  /\ LogOK => LogOK'
         /\ \A g : /\ GroupEvents(g)' = GroupEvents(g)
                   /\ LastOf(g)' = LastOf(g)
                   /\ RowsOf(g)' = RowsOf(g)
                   /\ Ending(g)' = Ending(g)
                   /\ Owed(g)' <=> Owed(g)
                   /\ \A tx : Whole(tx, g)' <=> Whole(tx, g)
         /\ \A n : FileAt(n)' = FileAt(n)
<1>1. captured' = captured /\ log' = log /\ groups' = groups
  BY DEF written
<1>2. \A n : FileAt(n)' = FileAt(n)
  BY <1>1 DEF FileAt, LastFile
<1>3. LogOK => LogOK'
  <2>1. Linked => Linked'
    BY <1>1 DEF Linked
  <2>2. Numbered => Numbered'
    BY <1>1 DEF Numbered
  <2>3. Filed => Filed'
    BY <1>1 DEF Filed
  <2>4. Turned => Turned'
    BY <1>1 DEF Turned, FileAt, LastFile
  <2>5. QED
    BY <2>1, <2>2, <2>3, <2>4 DEF LogOK
<1>4. ASSUME NEW g
      PROVE  /\ GroupEvents(g)' = GroupEvents(g)
             /\ LastOf(g)' = LastOf(g)
             /\ RowsOf(g)' = RowsOf(g)
             /\ Ending(g)' = Ending(g)
             /\ Owed(g)' <=> Owed(g)
             /\ \A tx : Whole(tx, g)' <=> Whole(tx, g)
  <2>1. GroupEvents(g)' = GroupEvents(g)
    BY <1>1 DEF GroupEvents
  <2>2. LastOf(g)' = LastOf(g)
    BY <2>1 DEF LastOf
  <2>3. RowsOf(g)' = RowsOf(g)
    BY <1>1, <2>1 DEF RowsOf, Decoded, Filtered
  <2>4. Ending(g)' = Ending(g)
    BY <1>1, <2>2 DEF Ending
  <2>5. Owed(g)' <=> Owed(g)
    BY <1>1, <2>3, <2>4 DEF Owed, Filtered
  <2>6. At(LastOf(g))' = At(LastOf(g)) /\ \A i : At(i)' = At(i)
    BY <1>1, <2>2 DEF At
  <2>7. \A tx : Whole(tx, g)' <=> Whole(tx, g)
    BY <1>1, <2>1, <2>3, <2>4, <2>6 DEF Whole, Lists
  <2>8. QED
    BY <2>1, <2>2, <2>3, <2>4, <2>5, <2>7
<1>5. QED
  BY <1>2, <1>3, <1>4

LEMMA MovedOn ==
  ASSUME TypeOK, LogOK, Held, InFile, NEW i \in 1..Len(log), Sent(i), Taken(i)
  PROVE  /\ Between' <=> log[i].kind \in Closers
         /\ log[i].kind # "rotate" /\ file' = file => InFile'
         /\ log[i].kind = "rotate" /\ file' = log[i].file + 1 => InFile'
         /\ \A g \in 1..groups :
               Passed(g)' <=> Passed(g) \/ (g = log[i].group /\ log[i].kind \in EndKinds)
<1>1. /\ log' = log /\ groups' = groups /\ next' = i + 1 /\ omit' = omit /\ greeted' = greeted
      /\ Len(log) \in Nat /\ next \in Nat /\ next >= 1 /\ i \in Nat /\ i >= 1 /\ i <= Len(log)
      /\ next <= i
      /\ UNCHANGED written
  BY LogFields, SentPlace DEF Taken, written
<1>2. Between' <=> log[i].kind \in Closers
  <2>1. next' # 1 /\ next' - 1 = i
    BY <1>1
  <2>2. QED
    BY <1>1, <2>1 DEF Between
<1>3. log[i].kind # "rotate" => FileAt(i + 1) = log[i].file
  <2> SUFFICES ASSUME log[i].kind # "rotate" PROVE FileAt(i + 1) = log[i].file
    OBVIOUS
  <2>1. CASE i = Len(log)
    <3>1. ~(i + 1 <= Len(log)) /\ Len(log) > 0
      BY <1>1, <2>1
    <3>2. QED
      BY <2>1, <3>1, LastPlace DEF FileAt
  <2>2. CASE i < Len(log)
    <3>1. i + 1 \in 1..Len(log) /\ i + 1 <= Len(log) /\ i <= i + 1
          /\ \A j \in i..(i + 1) - 1 : j = i
      BY <1>1, <2>2
    <3>2. log[i + 1].file = log[i].file
      BY <3>1 DEF LogOK, Filed
    <3>3. QED
      BY <3>1, <3>2 DEF FileAt
  <2>3. QED
    BY <1>1, <2>1, <2>2
<1>4. log[i].kind = "rotate" => FileAt(i + 1) = log[i].file + 1
  BY DEF LogOK, Turned
<1>5. FileAt(next)' = FileAt(i + 1)
  BY <1>1 DEF FileAt, LastFile
<1>6. file = log[i].file
  BY SentPlace
<1>7. ASSUME NEW g \in 1..groups
      PROVE  Passed(g)' <=> Passed(g) \/ (g = log[i].group /\ log[i].kind \in EndKinds)
  <2>1. LastOf(g)' = LastOf(g)
    BY <1>1, SameLog
  <2>2. LastOf(g) \in 1..Len(log) /\ log[LastOf(g)].group = g
    BY LastOfFound DEF LogOK
  <2>3. Passed(g)' <=> g \notin omit /\ LastOf(g) < i + 1
    BY <1>1, <2>1 DEF Passed
  <2>4. ~(LastOf(g) \in next..i - 1 /\ g \notin omit)
    BY <2>2 DEF Sent
  <2>5. LastOf(g) = i => g = log[i].group /\ log[i].kind \in EndKinds
    <3> SUFFICES ASSUME LastOf(g) = i PROVE g = log[i].group /\ log[i].kind \in EndKinds
      OBVIOUS
    <3>1. g = log[i].group /\ g # 0
      BY <2>2
    <3>2. QED
      BY <3>1, LastIsEnd DEF LogOK
  <2>6. g = log[i].group /\ log[i].kind \in EndKinds => LastOf(g) = i /\ g \notin omit
    <3> SUFFICES ASSUME g = log[i].group, log[i].kind \in EndKinds
                 PROVE  LastOf(g) = i /\ g \notin omit
      OBVIOUS
    <3>1. log[i].group # 0
      OBVIOUS
    <3>2. LastOf(log[i].group) = i
      BY <3>1, LastIsEnd DEF LogOK
    <3>3. QED
      BY <3>2 DEF Sent
  <2>7. CASE LastOf(g) < next
    BY <1>1, <2>2, <2>3, <2>6, <2>7 DEF Passed
  <2>8. CASE LastOf(g) \in next..i - 1
    BY <1>1, <2>2, <2>3, <2>4, <2>6, <2>8 DEF Passed
  <2>9. CASE LastOf(g) = i
    BY <1>1, <2>2, <2>3, <2>5, <2>6, <2>9 DEF Passed
  <2>10. CASE LastOf(g) > i
    BY <1>1, <2>2, <2>3, <2>6, <2>10 DEF Passed
  <2>11. QED
    BY <1>1, <2>2, <2>7, <2>8, <2>9, <2>10
<1>8. QED
  BY <1>2, <1>3, <1>4, <1>5, <1>6, <1>7 DEF InFile

(* The stream returns nothing, and owes nothing for the event.             *)
LEMMA NothingReturned ==
  ASSUME TypeOK, LogOK, Held, InFile, WholeTransactions, NEW i \in 1..Len(log), Sent(i), Taken(i),
         emitted' = emitted,
         log[i].kind \in EndKinds => log[i].kind # "statement" /\ ~Owed(log[i].group)
  PROVE  WholeTransactions'
<1>1. UNCHANGED written /\ groups' = groups
  BY DEF Taken, written
<1>2. \A g \in 1..groups :
         Passed(g)' <=> Passed(g) \/ (g = log[i].group /\ log[i].kind \in EndKinds)
  BY MovedOn
<1>3. \A g : /\ Ending(g)' = Ending(g)
             /\ Owed(g)' <=> Owed(g)
             /\ \A tx : Whole(tx, g)' <=> Whole(tx, g)
  BY <1>1, SameLog
<1>4. ASSUME NEW g \in 1..groups, g = log[i].group, log[i].kind \in EndKinds
      PROVE  Ending(g) # "statement"
  <2>1. log[i].group # 0
    BY <1>4
  <2>2. LastOf(log[i].group) = i
    BY <1>4, <2>1, LastIsEnd DEF LogOK
  <2>3. QED
    BY <1>4, <2>2 DEF Ending
<1>5. QED
  BY <1>1, <1>2, <1>3, <1>4 DEF WholeTransactions

(* The stream returns the group that the event ends.                       *)
LEMMA GroupReturned ==
  ASSUME TypeOK, LogOK, Held, InFile, WholeTransactions, NEW i \in 1..Len(log), Sent(i), Taken(i),
         log[i].kind \in EndKinds, log[i].kind # "statement",
         NEW tx, tx.id = log[i].group, Whole(tx, log[i].group), Owed(log[i].group),
         emitted' = Append(emitted, tx)
  PROVE  WholeTransactions'
<1>1. UNCHANGED written /\ groups' = groups
  BY DEF Taken, written
<1>2. PICK h : h = log[i].group
  OBVIOUS
<1>3. h # 0 /\ h \in 1..groups /\ LastOf(h) = i
  <2>1. log[i].group # 0
    BY DEF LogOK, Linked, EndKinds
  <2>2. QED
    BY <1>2, <2>1, LastIsEnd DEF LogOK
<1>4. \A g \in 1..groups : Passed(g)' <=> Passed(g) \/ g = h
  BY <1>2, MovedOn
<1>5. \A g : /\ Ending(g)' = Ending(g)
             /\ Owed(g)' <=> Owed(g)
             /\ \A t : Whole(t, g)' <=> Whole(t, g)
  BY <1>1, SameLog
<1>6. Ending(h) # "statement"
  BY <1>3 DEF Ending
<1>7. ASSUME NEW g \in 1..groups, Passed(g) PROVE g < h
  <2>1. LastOf(g) \in 1..Len(log) /\ log[LastOf(g)].group = g
    BY LastOfFound DEF LogOK
  <2>2. LastOf(g) < i
    <3>1. LastOf(g) < next /\ next <= i /\ next \in Nat
      BY <1>7, SentPlace, LogFields DEF Passed
    <3>2. QED
      BY <2>1, <3>1
  <2>3. log[LastOf(g)].group <= log[i].group
    BY <1>2, <1>3, <2>1, <2>2 DEF LogOK, Numbered
  <2>4. g # h
    BY <1>3, <2>1, <2>2
  <2>5. groups \in Nat
    BY LogFields
  <2>6. QED
    BY <1>2, <1>3, <2>1, <2>3, <2>4, <2>5
<1>8. emitted \in Seq(EmittedShape)
  BY DEF TypeOK
<1> DEFINE N == Len(emitted)
<1>9. /\ N \in Nat /\ Len(emitted') = N + 1
      /\ \A n \in 1..N : emitted'[n] = emitted[n]
      /\ emitted'[N + 1] = tx
      /\ \A n \in 1..Len(emitted') : n \in 1..N \/ n = N + 1
      /\ 1..N \subseteq 1..Len(emitted') /\ N + 1 \in 1..Len(emitted')
  BY <1>8
<1>10. /\ \A n \in 1..N : /\ emitted[n].id \in 1..groups /\ Passed(emitted[n].id)
                          /\ Owed(emitted[n].id) /\ Whole(emitted[n], emitted[n].id)
       /\ \A m, n \in 1..N : m < n => emitted[m].id < emitted[n].id
       /\ \A g \in 1..groups : Passed(g) /\ Owed(g) => \E n \in 1..N : emitted[n].id = g
       /\ \A g \in 1..groups : Passed(g) => Ending(g) # "statement"
  BY DEF WholeTransactions
<1> HIDE DEF N
<1>11. ASSUME NEW n \in 1..Len(emitted')
       PROVE  /\ emitted'[n].id \in 1..groups /\ Passed(emitted[n].id)'
              /\ Owed(emitted[n].id)' /\ Whole(emitted[n], emitted[n].id)'
  <2>1. PICK e, d : e = emitted'[n] /\ d = e.id
    OBVIOUS
  <2>2. CASE n \in 1..N
    <3>1. e = emitted[n] /\ d \in 1..groups /\ Passed(d) /\ Owed(d) /\ Whole(e, d)
      BY <1>9, <1>10, <2>1, <2>2
    <3>2. Passed(d)' /\ Owed(d)' /\ Whole(e, d)'
      BY <1>4, <1>5, <3>1
    <3>3. QED
      BY <2>1, <3>1, <3>2
  <2>3. CASE n = N + 1
    <3>1. e = tx /\ d = h
      BY <1>2, <1>9, <2>1, <2>3
    <3>2. Passed(h)' /\ Owed(h)' /\ Whole(tx, h)'
      BY <1>2, <1>3, <1>4, <1>5
    <3>3. QED
      BY <1>3, <2>1, <3>1, <3>2
  <2>4. QED
    BY <1>9, <2>2, <2>3
<1>12. ASSUME NEW m \in 1..Len(emitted'), NEW n \in 1..Len(emitted'), m < n
       PROVE  emitted'[m].id < emitted'[n].id
  <2>1. m \in 1..N
    BY <1>9, <1>12
  <2>2. CASE n \in 1..N
    BY <1>9, <1>10, <1>12, <2>1, <2>2
  <2>3. CASE n = N + 1
    BY <1>2, <1>7, <1>9, <1>10, <2>1, <2>3
  <2>4. QED
    BY <1>9, <2>2, <2>3
<1>13. ASSUME NEW g \in 1..groups, Passed(g)', Owed(g)' PROVE \E n \in 1..Len(emitted') : emitted'[n].id = g
  <2>1. CASE g = h
    BY <1>2, <1>9, <2>1
  <2>2. CASE Passed(g)
    <3>1. PICK n \in 1..N : emitted[n].id = g
      BY <1>5, <1>10, <1>13, <2>2
    <3>2. QED
      BY <1>9, <3>1
  <2>3. QED
    BY <1>4, <1>13, <2>1, <2>2
<1>14. ASSUME NEW g \in 1..groups, Passed(g)' PROVE Ending(g)' # "statement"
  BY <1>4, <1>5, <1>6, <1>10, <1>14
<1>15. QED
  BY <1>1, <1>11, <1>12, <1>13, <1>14 DEF WholeTransactions

-------------------------------------------------------------------------------
(* What the decoder holds after an event.                                  *)

LEMMA ListsAppend ==
  ASSUME NEW s \in Seq(Nat), NEW S, NEW i \in Nat, Lists(s, S), \A x \in S : x < i
  PROVE  Lists(Append(s, i), S \cup {i})
<1> DEFINE t == Append(s, i)
           N == Len(s)
<1>1. /\ N \in Nat /\ Len(t) = N + 1
      /\ \A n \in 1..N : t[n] = s[n]
      /\ t[N + 1] = i
      /\ \A n \in 1..Len(t) : n \in 1..N \/ n = N + 1
      /\ 1..N \subseteq 1..Len(t) /\ N + 1 \in 1..Len(t)
  OBVIOUS
<1>2. /\ \A n \in 1..N : s[n] \in S
      /\ \A x \in S : \E n \in 1..N : s[n] = x
      /\ \A m, n \in 1..N : m < n => s[m] < s[n]
  BY DEF Lists
<1> HIDE DEF t, N
<1>3. \A n \in 1..Len(t) : t[n] \in S \cup {i}
  BY <1>1, <1>2
<1>4. ASSUME NEW x \in S \cup {i} PROVE \E n \in 1..Len(t) : t[n] = x
  <2>1. CASE x = i
    BY <1>1, <2>1
  <2>2. CASE x \in S
    <3>1. PICK n \in 1..N : s[n] = x
      BY <1>2, <2>2
    <3>2. QED
      BY <1>1, <3>1
  <2>3. QED
    BY <2>1, <2>2
<1>5. ASSUME NEW m \in 1..Len(t), NEW n \in 1..Len(t), m < n PROVE t[m] < t[n]
  <2>1. m \in 1..N
    BY <1>1, <1>5
  <2>2. CASE n \in 1..N
    BY <1>1, <1>2, <1>5, <2>1, <2>2
  <2>3. CASE n = N + 1
    BY <1>1, <1>2, <2>1, <2>3
  <2>4. QED
    BY <1>1, <2>2, <2>3
<1>6. Lists(t, S \cup {i})
  BY <1>3, <1>4, <1>5 DEF Lists
<1>7. QED
  BY <1>6 DEF t

LEMMA ListsNothing ==
  ASSUME NEW s \in Seq(Nat), NEW S, Lists(s, S)
  PROVE  S = {} <=> s = <<>>
<1>1. s = <<>> <=> Len(s) = 0
  OBVIOUS
<1>2. Len(s) \in Nat
  OBVIOUS
<1>3. /\ \A n \in 1..Len(s) : s[n] \in S
      /\ \A x \in S : \E n \in 1..Len(s) : s[n] = x
  BY DEF Lists
<1>4. ASSUME Len(s) = 0 PROVE S = {}
  BY <1>3, <1>4
<1>5. ASSUME Len(s) # 0 PROVE S # {}
  <2>1. 1 \in 1..Len(s)
    BY <1>2, <1>5
  <2>2. QED
    BY <1>3, <2>1
<1>6. QED
  BY <1>1, <1>4, <1>5

LEMMA EmptyLists == Lists(<<>>, {})
BY DEF Lists

RowsBefore(g, n) == {x \in RowsOf(g) : x < n}

LEMMA NextRow ==
  ASSUME TypeOK, NEW i \in 1..Len(log)
  PROVE  /\ log[i].kind = "rows" /\ Decoded(log[i].table) =>
               RowsBefore(log[i].group, i + 1) = RowsBefore(log[i].group, i) \cup {i}
         /\ ~(log[i].kind = "rows" /\ Decoded(log[i].table)) =>
               RowsBefore(log[i].group, i + 1) = RowsBefore(log[i].group, i)
         /\ \A x \in RowsBefore(log[i].group, i) : x < i
<1>1. \A x \in RowsOf(log[i].group) : x \in Int
  BY DEF RowsOf, GroupEvents
<1>2. i \in RowsOf(log[i].group) <=> log[i].kind = "rows" /\ Decoded(log[i].table)
  BY DEF RowsOf, GroupEvents
<1>3. \A x \in RowsOf(log[i].group) : x < i + 1 <=> x < i \/ x = i
  BY <1>1
<1>4. QED
  BY <1>2, <1>3 DEF RowsBefore

(* No rows of a group come before its GTID.                                *)
LEMMA NoRowsAtStart ==
  ASSUME TypeOK, LogOK, NEW i \in 1..Len(log), log[i].kind = "gtid"
  PROVE  RowsBefore(log[i].group, i + 1) = {}
<1> SUFFICES ASSUME NEW x \in RowsBefore(log[i].group, i + 1) PROVE FALSE
  OBVIOUS
<1>1. x \in 1..Len(log) /\ log[x].group = log[i].group /\ log[x].kind = "rows" /\ x < i + 1
  BY DEF RowsBefore, RowsOf, GroupEvents
<1>2. i <= x
  BY <1>1, GtidIsFirst
<1>3. x = i
  BY <1>1, <1>2
<1>4. QED
  BY <1>1, <1>3

(* All rows of a group come before its end.                                *)
LEMMA AllRowsAtEnd ==
  ASSUME TypeOK, LogOK, NEW i \in 1..Len(log), log[i].kind \in EndKinds
  PROVE  RowsOf(log[i].group) = RowsBefore(log[i].group, i)
<1>1. log[i].group # 0
  BY DEF LogOK, Linked, EndKinds
<1>2. LastOf(log[i].group) = i /\ log[i].group \in 1..groups
  BY <1>1, LastIsEnd DEF LogOK
<1>3. ASSUME NEW x \in RowsOf(log[i].group) PROVE x < i
  <2>1. x \in 1..Len(log) /\ log[x].group = log[i].group /\ log[x].kind = "rows"
    BY DEF RowsOf, GroupEvents
  <2>2. x <= i
    BY <1>2, <2>1, LastOfFound DEF LogOK
  <2>3. x # i
    BY <2>1 DEF EndKinds
  <2>4. QED
    BY <2>1, <2>2, <2>3
<1>4. QED
  BY <1>3 DEF RowsBefore

LEMMA HeldNothing ==
  ASSUME TypeOK, LogOK, Held, InFile, NEW i \in 1..Len(log), Sent(i), Taken(i),
         log[i].kind \in Closers, pending' = NoPending
  PROVE  Held'
<1>1. Between'
  BY MovedOn
<1>2. QED
  BY <1>1 DEF Held, NoPending, Cursor

LEMMA HeldGroup ==
  ASSUME TypeOK, LogOK, Held, InFile, NEW i \in 1..Len(log), Sent(i), Taken(i),
         log[i].kind \notin Closers,
         pending'.id = log[i].group,
         pending'.began <=> log[i].kind # "gtid",
         log[i].kind = "map" => log[i].table \in known',
         NEW b \in 1..i,
         log[b].group = log[i].group,
         log[b].kind = IF pending'.began THEN "begin" ELSE "gtid",
         pending'.begin = At(b),
         Lists(pending'.changes, RowsBefore(log[i].group, i + 1))
  PROVE  Held'
<1>1. /\ log' = log /\ next' = i + 1 /\ omit' = omit /\ greeted' = greeted /\ captured' = captured
      /\ UNCHANGED written
      /\ next' - 1 = i
      /\ log[i].group \notin omit /\ greeted
  BY DEF Taken, written, Sent
<1>2. PICK g : g = log[i].group
  OBVIOUS
<1>3. g # 0
  BY <1>2 DEF LogOK, Linked, Closers
<1>4. RowsOf(g)' = RowsOf(g)
  BY <1>1, SameLog
<1>5. At(b)' = At(b)
  BY <1>1 DEF At
<1>6. {x \in RowsOf(g) : x < next}' = RowsBefore(g, i + 1)
  BY <1>1, <1>4 DEF RowsBefore
<1>7. Lists(pending'.changes, {x \in RowsOf(g)' : x < next'})
  BY <1>2, <1>6
<1>8. Taking(g)'
  <2>1. /\ greeted' /\ g \notin omit' /\ pending'.id = g
        /\ pending'.began <=> log'[next' - 1].kind # "gtid"
        /\ log'[next' - 1].kind = "map" => log'[next' - 1].table \in known'
    BY <1>1, <1>2
  <2>2. b \in 1..next' - 1 /\ log'[b].group = g
        /\ log'[b].kind = IF pending'.began THEN "begin" ELSE "gtid"
    BY <1>1, <1>2
  <2>3. QED
    BY <1>3, <1>5, <1>7, <2>1, <2>2 DEF Taking, Lists
<1>9. ~Between'
  BY MovedOn
<1>10. log'[next' - 1].group = g
  BY <1>1, <1>2
<1>11. QED
  BY <1>8, <1>9, <1>10 DEF Held

-------------------------------------------------------------------------------
(* The decoder's steps.                                                    *)

(* Where the stream is within a group, and what the decoder holds there.   *)
LEMMA Within ==
  ASSUME TypeOK, LogOK, Held, InFile, NEW i \in 1..Len(log), Sent(i), log[i].kind \notin StartKinds
  PROVE  /\ i - 1 \in 1..Len(log) /\ next = i
         /\ log[i - 1].group = log[i].group
         /\ Follows(log[i - 1], log[i])
         /\ log[i].group # 0 /\ pending.id = log[i].group
         /\ pending.began <=> log[i - 1].kind # "gtid"
         /\ Lists(pending.changes, RowsBefore(log[i].group, i))
         /\ \E b \in 1..i : /\ b < i
                            /\ log[b].group = log[i].group
                            /\ log[b].kind = IF pending.began THEN "begin" ELSE "gtid"
                            /\ pending.begin = At(b)
<1>1. ~Between
  BY SentPlace
<1>2. /\ i = next /\ i - 1 \in 1..Len(log) /\ i \in Nat
      /\ log[i - 1].group = log[i].group
      /\ Follows(log[i - 1], log[i])
      /\ Taking(log[i].group)
  BY <1>1, SentPlace
<1>3. /\ log[i].group # 0 /\ pending.id = log[i].group
      /\ pending.began <=> log[i - 1].kind # "gtid"
  BY <1>2 DEF Taking
<1>4. PICK b \in 1..i - 1 : /\ log[b].group = log[i].group
                            /\ log[b].kind = IF pending.began THEN "begin" ELSE "gtid"
                            /\ pending.begin = At(b)
  BY <1>2 DEF Taking
<1>5. b \in 1..i /\ b < i
  BY <1>2
<1>6. Lists(pending.changes, RowsBefore(log[i].group, i))
  BY <1>2 DEF Taking, RowsBefore
<1>7. QED
  BY <1>2, <1>3, <1>4, <1>5, <1>6

DecodedOK == Held /\ InFile /\ WholeTransactions

LEMMA RotateStep ==
  ASSUME TypeOK, LogOK, DecodedOK, NEW i \in 1..Len(log), Rotate(i)
  PROVE  DecodedOK'
<1> USE DEF DecodedOK
<1>1. /\ Sent(i) /\ Taken(i) /\ log[i].kind = "rotate" /\ file' = log[i].file + 1
      /\ pending' = pending /\ emitted' = emitted
  BY DEF Rotate
<1>2. log[i].kind \notin EndKinds /\ log[i].kind \in Closers /\ log[i].kind \in StartKinds
  BY <1>1 DEF EndKinds, Closers, StartKinds
<1>3. pending = NoPending
  BY <1>1, <1>2, SentPlace
<1>4. Held'
  BY <1>1, <1>2, <1>3, HeldNothing
<1>5. InFile'
  BY <1>1, MovedOn
<1>6. WholeTransactions'
  BY <1>1, <1>2, NothingReturned
<1>7. QED
  BY <1>4, <1>5, <1>6

LEMMA StoreTableMapStep ==
  ASSUME TypeOK, LogOK, DecodedOK, NEW i \in 1..Len(log), StoreTableMap(i)
  PROVE  DecodedOK'
<1> USE DEF DecodedOK
<1>1. /\ Sent(i) /\ Taken(i) /\ log[i].kind = "map" /\ file' = file
      /\ known' = known \cup {log[i].table} /\ pending' = pending /\ emitted' = emitted
  BY DEF StoreTableMap
<1>2. log[i].kind \notin EndKinds /\ log[i].kind \notin Closers /\ log[i].kind \notin StartKinds
  BY <1>1 DEF EndKinds, Closers, StartKinds
<1>3. /\ Follows(log[i - 1], log[i]) /\ pending.id = log[i].group
      /\ pending.began <=> log[i - 1].kind # "gtid"
      /\ Lists(pending.changes, RowsBefore(log[i].group, i))
  BY <1>1, <1>2, Within
<1>4. PICK b \in 1..i : /\ log[b].group = log[i].group
                        /\ log[b].kind = IF pending.began THEN "begin" ELSE "gtid"
                        /\ pending.begin = At(b)
  BY <1>1, <1>2, Within
<1>5. pending.began
  BY <1>1, <1>3 DEF Follows
<1>6. Lists(pending.changes, RowsBefore(log[i].group, i + 1))
  <2>1. RowsBefore(log[i].group, i + 1) = RowsBefore(log[i].group, i)
    BY <1>1, NextRow
  <2>2. QED
    BY <1>3, <2>1
<1>7. Held'
  BY <1>1, <1>2, <1>3, <1>4, <1>5, <1>6, HeldGroup
<1>8. InFile'
  BY <1>1, MovedOn
<1>9. WholeTransactions'
  BY <1>1, <1>2, NothingReturned
<1>10. QED
  BY <1>7, <1>8, <1>9

LEMMA StartTransactionStep ==
  ASSUME TypeOK, LogOK, DecodedOK, NEW i \in 1..Len(log), StartTransaction(i)
  PROVE  DecodedOK'
<1> USE DEF DecodedOK
<1>1. /\ Sent(i) /\ Taken(i) /\ log[i].kind = "gtid" /\ file' = file
      /\ pending' = Started(log[i].group, Here(i), FALSE) /\ emitted' = emitted
  BY DEF StartTransaction
<1>2. log[i].kind \notin EndKinds /\ log[i].kind \notin Closers /\ i \in 1..i
  BY <1>1 DEF EndKinds, Closers
<1>3. Here(i) = At(i)
  BY <1>1, SentPlace DEF Here, At
<1>4. /\ pending'.id = log[i].group /\ pending'.begin = At(i) /\ ~pending'.began
      /\ pending'.changes = <<>>
  BY <1>1, <1>3 DEF Started
<1>5. Lists(pending'.changes, RowsBefore(log[i].group, i + 1))
  BY <1>1, <1>4, NoRowsAtStart, EmptyLists
<1>6. Held'
  BY <1>1, <1>2, <1>4, <1>5, HeldGroup
<1>7. InFile'
  BY <1>1, MovedOn
<1>8. WholeTransactions'
  BY <1>1, <1>2, NothingReturned
<1>9. QED
  BY <1>6, <1>7, <1>8

LEMMA BeginStep ==
  ASSUME TypeOK, LogOK, DecodedOK, NEW i \in 1..Len(log), Begin(i)
  PROVE  DecodedOK'
<1> USE DEF DecodedOK
<1>1. /\ Sent(i) /\ Taken(i) /\ log[i].kind = "begin" /\ file' = file
      /\ pending' = IF pending.id = 0 THEN Started(log[i].group, Here(i), TRUE)
                    ELSE [pending EXCEPT !.begin = Here(i), !.began = TRUE]
      /\ emitted' = emitted
  BY DEF Begin
<1>2. /\ log[i].kind \notin EndKinds /\ log[i].kind \notin Closers /\ log[i].kind \notin StartKinds
      /\ i \in 1..i
  BY <1>1 DEF EndKinds, Closers, StartKinds
<1>3. /\ log[i].group # 0 /\ pending.id = log[i].group
      /\ Lists(pending.changes, RowsBefore(log[i].group, i))
  BY <1>1, <1>2, Within
<1>4. Here(i) = At(i)
  BY <1>1, SentPlace DEF Here, At
<1>5. pending' = [pending EXCEPT !.begin = Here(i), !.began = TRUE]
  BY <1>1, <1>3
<1>6. /\ pending'.id = log[i].group /\ pending'.begin = At(i) /\ pending'.began
      /\ pending'.changes = pending.changes
  BY <1>3, <1>4, <1>5 DEF TypeOK, PendingShape
<1>7. Lists(pending'.changes, RowsBefore(log[i].group, i + 1))
  <2>1. RowsBefore(log[i].group, i + 1) = RowsBefore(log[i].group, i)
    BY <1>1, NextRow
  <2>2. QED
    BY <1>3, <1>6, <2>1
<1>8. Held'
  BY <1>1, <1>2, <1>6, <1>7, HeldGroup
<1>9. InFile'
  BY <1>1, MovedOn
<1>10. WholeTransactions'
  BY <1>1, <1>2, NothingReturned
<1>11. QED
  BY <1>8, <1>9, <1>10

LEMMA HandleRowsStep ==
  ASSUME TypeOK, LogOK, DecodedOK, NEW i \in 1..Len(log), HandleRows(i)
  PROVE  DecodedOK'
<1> USE DEF DecodedOK
<1>1. /\ Sent(i) /\ Taken(i) /\ log[i].kind = "rows" /\ file' = file /\ emitted' = emitted
      /\ IF Decoded(log[i].table) THEN pending' = [pending EXCEPT !.changes = Append(@, i)]
         ELSE pending' = pending
  BY DEF HandleRows
<1>2. /\ log[i].kind \notin EndKinds /\ log[i].kind \notin Closers /\ log[i].kind \notin StartKinds
      /\ i \in Nat
  BY <1>1 DEF EndKinds, Closers, StartKinds
<1>3. /\ Follows(log[i - 1], log[i]) /\ pending.id = log[i].group
      /\ pending.began <=> log[i - 1].kind # "gtid"
      /\ Lists(pending.changes, RowsBefore(log[i].group, i))
  BY <1>1, <1>2, Within
<1>4. PICK b \in 1..i : /\ log[b].group = log[i].group
                        /\ log[b].kind = IF pending.began THEN "begin" ELSE "gtid"
                        /\ pending.begin = At(b)
  BY <1>1, <1>2, Within
<1>5. pending.began
  BY <1>1, <1>3 DEF Follows
<1>6. /\ pending'.id = pending.id /\ pending'.begin = pending.begin
      /\ pending'.began = pending.began
      /\ pending'.changes = IF Decoded(log[i].table) THEN Append(pending.changes, i)
                            ELSE pending.changes
  BY <1>1 DEF TypeOK, PendingShape
<1>7. Lists(pending'.changes, RowsBefore(log[i].group, i + 1))
  <2>1. CASE Decoded(log[i].table)
    <3>1. RowsBefore(log[i].group, i + 1) = RowsBefore(log[i].group, i) \cup {i}
      BY <1>1, <2>1, NextRow
    <3>2. \A x \in RowsBefore(log[i].group, i) : x < i
      BY NextRow
    <3>3. Lists(Append(pending.changes, i), RowsBefore(log[i].group, i) \cup {i})
      BY <1>2, <1>3, <3>2, PendingFields, ListsAppend
    <3>4. QED
      BY <1>6, <2>1, <3>1, <3>3
  <2>2. CASE ~Decoded(log[i].table)
    <3>1. RowsBefore(log[i].group, i + 1) = RowsBefore(log[i].group, i)
      BY <2>2, NextRow
    <3>2. QED
      BY <1>3, <1>6, <2>2, <3>1
  <2>3. QED
    BY <2>1, <2>2
<1>8. Held'
  BY <1>1, <1>2, <1>3, <1>4, <1>5, <1>6, <1>7, HeldGroup
<1>9. InFile'
  BY <1>1, MovedOn
<1>10. WholeTransactions'
  BY <1>1, <1>2, NothingReturned
<1>11. QED
  BY <1>8, <1>9, <1>10

(* The transaction that finish_transaction returns at the end of a group   *)
(* is that group.                                                          *)
LEMMA FinishedIsWhole ==
  ASSUME TypeOK, LogOK, Held, InFile, NEW i \in 1..Len(log), Sent(i),
         log[i].kind \in {"xid", "commit", "control"}
  PROVE  /\ Lists(pending.changes, RowsOf(log[i].group))
         /\ RowsOf(log[i].group) = {} <=> pending.changes = <<>>
         /\ Owed(log[i].group) <=> Filtered \/ pending.changes # <<>>
         /\ log[i].kind # "control" => pending.began
         /\ log[i].kind = "control" => ~pending.began /\ pending.changes = <<>>
         /\ \A p : /\ p.begin = pending.begin
                   /\ p.changes = pending.changes
                   => Whole(Transaction(p, Here(i)), log[i].group)
<1>1. log[i].kind \in EndKinds /\ log[i].kind \notin StartKinds
  BY DEF EndKinds, StartKinds
<1>2. /\ i - 1 \in 1..Len(log) /\ log[i - 1].group = log[i].group
      /\ Follows(log[i - 1], log[i])
      /\ log[i].group # 0 /\ pending.id = log[i].group
      /\ pending.began <=> log[i - 1].kind # "gtid"
      /\ Lists(pending.changes, RowsBefore(log[i].group, i))
  BY <1>1, Within
<1>3. PICK b \in 1..i : /\ log[b].group = log[i].group
                        /\ log[b].kind = IF pending.began THEN "begin" ELSE "gtid"
                        /\ pending.begin = At(b)
  BY <1>1, Within
<1>4. RowsOf(log[i].group) = RowsBefore(log[i].group, i)
  BY <1>1, AllRowsAtEnd
<1>5. Lists(pending.changes, RowsOf(log[i].group))
  BY <1>2, <1>4
<1>6. RowsOf(log[i].group) = {} <=> pending.changes = <<>>
  BY <1>5, PendingFields, ListsNothing
<1>7. LastOf(log[i].group) = i
  BY <1>1, <1>2, LastIsEnd DEF LogOK
<1>8. Ending(log[i].group) = log[i].kind
  BY <1>7 DEF Ending
<1>9. Owed(log[i].group) <=> Filtered \/ pending.changes # <<>>
  BY <1>6, <1>8 DEF Owed
<1>10. (pending.began <=> log[i].kind # "control")
       /\ (log[i].kind = "control" => log[i - 1].kind = "gtid")
  BY <1>2 DEF Follows
<1>11. ASSUME log[i].kind = "control" PROVE pending.changes = <<>>
  <2>1. PICK j \in 1..Len(log) : j = i - 1
    BY <1>2
  <2>2. RowsBefore(log[j].group, j + 1) = {}
    BY <1>10, <1>11, <2>1, NoRowsAtStart
  <2>3. j + 1 = i /\ log[j].group = log[i].group
    BY <1>2, <2>1
  <2>4. RowsOf(log[i].group) = {}
    BY <1>4, <2>2, <2>3
  <2>5. QED
    BY <1>6, <2>4
<1>12. Here(i) = At(i)
  BY SentPlace DEF Here, At
<1>13. ASSUME NEW p, p.begin = pending.begin, p.changes = pending.changes
       PROVE  Whole(Transaction(p, Here(i)), log[i].group)
  <2>1. PICK tx : tx = Transaction(p, Here(i))
    OBVIOUS
  <2>2. tx.begin = pending.begin /\ tx.changes = pending.changes /\ tx.commit = At(i)
    BY <1>12, <1>13, <2>1 DEF Transaction
  <2>3. b \in GroupEvents(log[i].group)
    BY <1>3 DEF GroupEvents
  <2>4. log[b].kind = IF Ending(log[i].group) = "control" THEN "gtid" ELSE "begin"
    BY <1>3, <1>8, <1>10
  <2>5. Whole(tx, log[i].group)
    BY <1>3, <1>5, <1>7, <2>2, <2>3, <2>4 DEF Whole
  <2>6. QED
    BY <2>1, <2>5
<1>14. QED
  BY <1>5, <1>6, <1>9, <1>10, <1>11, <1>13

LEMMA CommitStep ==
  ASSUME TypeOK, LogOK, DecodedOK, NEW i \in 1..Len(log), Commit(i)
  PROVE  DecodedOK'
<1> USE DEF DecodedOK
<1>1. /\ Sent(i) /\ Taken(i) /\ log[i].kind \in {"xid", "commit"} /\ file' = file
      /\ pending' = NoPending
      /\ emitted' = IF pending.id = 0 \/ (pending.changes = <<>> /\ ~Filtered) THEN emitted
                    ELSE Append(emitted, Transaction(pending, Here(i)))
  BY DEF Commit, Finish
<1>2. /\ log[i].kind \in EndKinds /\ log[i].kind \in Closers /\ log[i].kind \notin StartKinds
      /\ log[i].kind \in {"xid", "commit", "control"} /\ log[i].kind # "statement"
      /\ log[i].kind # "rotate"
  BY <1>1 DEF EndKinds, Closers, StartKinds
<1>3. log[i].group # 0 /\ pending.id = log[i].group
  BY <1>1, <1>2, Within
<1>4. Held'
  BY <1>1, <1>2, HeldNothing
<1>5. InFile'
  BY <1>1, <1>2, MovedOn
<1>6. WholeTransactions'
  <2>1. Owed(log[i].group) <=> Filtered \/ pending.changes # <<>>
    BY <1>1, <1>2, FinishedIsWhole
  <2>2. CASE pending.changes = <<>> /\ ~Filtered
    BY <1>1, <1>2, <2>1, <2>2, NothingReturned
  <2>3. CASE ~(pending.changes = <<>> /\ ~Filtered)
    <3>1. PICK tx : tx = Transaction(pending, Here(i))
      OBVIOUS
    <3>2. Whole(tx, log[i].group)
      BY <1>1, <1>2, <3>1, FinishedIsWhole
    <3>3. tx.id = log[i].group
      BY <1>3, <3>1 DEF Transaction
    <3>4. emitted' = Append(emitted, tx) /\ Owed(log[i].group)
      BY <1>1, <1>3, <2>1, <2>3, <3>1
    <3>5. QED
      BY <1>1, <1>2, <3>2, <3>3, <3>4, GroupReturned
  <2>4. QED
    BY <2>2, <2>3
<1>7. QED
  BY <1>4, <1>5, <1>6

LEMMA RollbackStep ==
  ASSUME TypeOK, LogOK, DecodedOK, NEW i \in 1..Len(log), Rollback(i)
  PROVE  DecodedOK'
<1> USE DEF DecodedOK
<1>1. /\ Sent(i) /\ Taken(i) /\ log[i].kind = "rollback" /\ file' = file
      /\ pending' = NoPending /\ emitted' = emitted
  BY DEF Rollback
<1>2. log[i].kind \in EndKinds /\ log[i].kind \in Closers /\ log[i].kind \notin StartKinds
  BY <1>1 DEF EndKinds, Closers, StartKinds
<1>3. log[i].group # 0
  BY <1>1, <1>2, Within
<1>4. Held'
  BY <1>1, <1>2, HeldNothing
<1>5. InFile'
  BY <1>1, MovedOn
<1>6. LastOf(log[i].group) = i
  BY <1>2, <1>3, LastIsEnd DEF LogOK
<1>7. ~Owed(log[i].group)
  BY <1>1, <1>6 DEF Owed, Ending
<1>8. WholeTransactions'
  BY <1>1, <1>7, NothingReturned
<1>9. QED
  BY <1>4, <1>5, <1>8

LEMMA ControlStatementStep ==
  ASSUME TypeOK, LogOK, DecodedOK, NEW i \in 1..Len(log), ControlStatement(i)
  PROVE  DecodedOK'
<1> USE DEF DecodedOK
<1> DEFINE p == [pending EXCEPT !.began = TRUE]
<1>1. Sent(i) /\ Taken(i) /\ log[i].kind = "control" /\ file' = file
  BY DEF ControlStatement, ControlDdl
<1>2. /\ log[i].kind \in EndKinds /\ log[i].kind \in Closers /\ log[i].kind \notin StartKinds
      /\ log[i].kind \in {"xid", "commit", "control"} /\ log[i].kind # "statement"
      /\ log[i].kind # "rotate"
  BY <1>1 DEF EndKinds, Closers, StartKinds
<1>3. log[i].group # 0 /\ pending.id = log[i].group
  BY <1>1, <1>2, Within
<1>4. /\ pending.changes = <<>>
      /\ Owed(log[i].group) <=> Filtered
  BY <1>1, <1>2, FinishedIsWhole
<1>5. /\ p.id = pending.id /\ p.begin = pending.begin /\ p.changes = pending.changes
  BY DEF TypeOK, PendingShape
<1>6. CASE Filtered
  <2>1. Finish(p, Here(i))
    BY <1>3, <1>6 DEF ControlStatement
  <2> HIDE DEF p
  <2>2. pending' = NoPending /\ emitted' = Append(emitted, Transaction(p, Here(i)))
    BY <1>3, <1>5, <1>6, <2>1 DEF Finish
  <2>3. PICK tx : tx = Transaction(p, Here(i))
    OBVIOUS
  <2>4. Whole(tx, log[i].group)
    BY <1>1, <1>2, <1>5, <2>3, FinishedIsWhole
  <2>5. tx.id = log[i].group
    BY <1>3, <1>5, <2>3 DEF Transaction
  <2>6. WholeTransactions'
    BY <1>1, <1>2, <1>4, <1>6, <2>2, <2>3, <2>4, <2>5, GroupReturned
  <2>7. Held'
    BY <1>1, <1>2, <2>2, HeldNothing
  <2>8. QED
    BY <1>1, <1>2, <2>6, <2>7, MovedOn
<1>7. CASE ~Filtered
  <2>1. pending' = NoPending /\ emitted' = emitted
    BY <1>4, <1>7 DEF ControlStatement
  <2>2. WholeTransactions'
    BY <1>1, <1>2, <1>4, <1>7, <2>1, NothingReturned
  <2>3. Held'
    BY <1>1, <1>2, <2>1, HeldNothing
  <2>4. QED
    BY <1>1, <1>2, <2>2, <2>3, MovedOn
<1>8. QED
  BY <1>6, <1>7

(* ended is not part of what the decoder holds and has returned.           *)
LEMMA EndsStep ==
  ASSUME LogOK, DecodedOK, UNCHANGED <<written, decoder, stream, emitted>>
  PROVE  LogOK' /\ DecodedOK'
<1>1. /\ captured' = captured /\ log' = log /\ groups' = groups
      /\ file' = file /\ known' = known /\ pending' = pending
      /\ next' = next /\ greeted' = greeted /\ omit' = omit /\ emitted' = emitted
      /\ UNCHANGED written
  BY DEF written, decoder, stream
<1>2. InFile'
  BY <1>1 DEF DecodedOK, InFile, FileAt, LastFile
<1>3. \A g : RowsOf(g)' = RowsOf(g) /\ (Passed(g)' <=> Passed(g)) /\ Ending(g)' = Ending(g)
             /\ (Owed(g)' <=> Owed(g)) /\ \A tx : Whole(tx, g)' <=> Whole(tx, g)
  BY <1>1, SameLog DEF Passed
<1>4. WholeTransactions'
  BY <1>1, <1>3 DEF DecodedOK, WholeTransactions
<1>5. Held'
  <2>1. Between' <=> Between
    BY <1>1 DEF Between
  <2>2. ASSUME ~Between PROVE Taking(log[next - 1].group)'
    <3>1. PICK g : g = log[next - 1].group
      OBVIOUS
    <3>2. Taking(g)
      BY <2>2, <3>1 DEF DecodedOK, Held
    <3>3. \A b : At(b)' = At(b)
      BY <1>1 DEF At
    <3>4. RowsOf(g)' = RowsOf(g)
      BY <1>3
    <3>5. Taking(g)'
      BY <1>1, <3>2, <3>3, <3>4 DEF Taking, Lists
    <3>6. log'[next' - 1].group = g
      BY <1>1, <3>1
    <3>7. QED
      BY <3>5, <3>6
  <2>3. QED
    BY <1>1, <2>1, <2>2 DEF DecodedOK, Held, NoPending, Cursor
<1>6. LogOK'
  BY <1>1, SameLog
<1>7. QED
  BY <1>2, <1>4, <1>5, <1>6 DEF DecodedOK

LEMMA DecodeStep ==
  ASSUME TypeOK, LogOK, DecodedOK, NEW i \in 1..Len(log), Decode(i)
  PROVE  LogOK' /\ DecodedOK'
<1>1. CASE DecodeFails(i)
  BY <1>1, EndsStep DEF DecodeFails, Ends
<1>2. ASSUME Taken(i) PROVE LogOK'
  BY <1>2, SameLog DEF Taken
<1>3. CASE Rotate(i)
  BY <1>2, <1>3, RotateStep DEF Rotate
<1>4. CASE StoreTableMap(i)
  BY <1>2, <1>4, StoreTableMapStep DEF StoreTableMap
<1>5. CASE StartTransaction(i)
  BY <1>2, <1>5, StartTransactionStep DEF StartTransaction
<1>6. CASE Begin(i)
  BY <1>2, <1>6, BeginStep DEF Begin
<1>7. CASE HandleRows(i)
  BY <1>2, <1>7, HandleRowsStep DEF HandleRows
<1>8. CASE Commit(i)
  BY <1>2, <1>8, CommitStep DEF Commit
<1>9. CASE Rollback(i)
  BY <1>2, <1>9, RollbackStep DEF Rollback
<1>10. CASE ControlStatement(i)
  BY <1>2, <1>10, ControlStatementStep DEF ControlStatement
<1>11. QED
  BY <1>1, <1>3, <1>4, <1>5, <1>6, <1>7, <1>8, <1>9, <1>10 DEF Decode

-------------------------------------------------------------------------------
(* A stream is opened.                                                     *)

(* It begins between two groups and has passed none that it is to return.  *)
LEMMA OpenStep ==
  ASSUME TypeOK, LogOK, NEW f, NEW start \in Nat, NEW set, Open(f, start, set),
         start = 1 \/ log[start - 1].kind \in Closers,
         \A g \in 1..groups : g \in set \/ start <= LastOf(g)
  PROVE  LogOK' /\ DecodedOK'
<1>1. /\ log' = log /\ groups' = groups /\ UNCHANGED written
      /\ pending' = NoPending /\ next' = start /\ greeted' = FALSE /\ omit' = set /\ emitted' = <<>>
  BY DEF Open, written
<1>2. Held'
  BY <1>1 DEF Held, Between, NoPending, Cursor
<1>3. InFile'
  BY <1>1 DEF InFile
<1>4. ASSUME NEW g \in 1..groups PROVE ~Passed(g)'
  <2>1. LastOf(g)' = LastOf(g) /\ LastOf(g) \in Nat
    BY <1>1, SameLog, LastOfFound DEF LogOK
  <2>2. QED
    BY <1>1, <2>1 DEF Passed
<1>5. Len(emitted') = 0
  BY <1>1
<1>6. WholeTransactions'
  BY <1>1, <1>4, <1>5 DEF WholeTransactions
<1>7. QED
  BY <1>1, <1>2, <1>3, <1>6, SameLog DEF DecodedOK

LEMMA OpenAtPositionStep ==
  ASSUME TypeOK, LogOK, NEW g \in 0..groups, OpenAtPosition(g)
  PROVE  TypeOK' /\ LogOK' /\ DecodedOK'
<1>0. Len(log) \in Nat /\ groups \in Nat
  BY LogFields
<1>1. \A h \in 1..groups : LastOf(h) \in 1..Len(log) /\ log[LastOf(h)].group = h
  BY LastOfFound DEF LogOK
<1>2. CASE g = 0
  <2>1. Open(1, 1, 1..0)
    BY <1>2 DEF OpenAtPosition
  <2>2. 1 \in 1..Len(log) + 1 /\ 1..0 \in SUBSET (1..groups)
    BY <1>0
  <2>3. TypeOK'
    BY <2>1, <2>2, OpenTypeStep
  <2>4. \A h \in 1..groups : 1 <= LastOf(h)
    BY <1>1
  <2>5. QED
    BY <2>1, <2>3, <2>4, OpenStep
<1>3. CASE g # 0
  <2> DEFINE e == LastOf(g)
  <2>1. Open(log[e].file, e + 1, 1..g)
    BY <1>3 DEF OpenAtPosition
  <2>2. g \in 1..groups
    BY <1>0, <1>3
  <2>3. e \in 1..Len(log) /\ log[e].group = g
    BY <1>1, <2>2
  <2> HIDE DEF e
  <2>4. e + 1 \in 1..Len(log) + 1 /\ 1..g \in SUBSET (1..groups) /\ e + 1 \in Nat /\ (e + 1) - 1 = e
        /\ log[e].file \in Nat
    BY <1>0, <2>2, <2>3, LogFields
  <2>5. TypeOK'
    BY <2>1, <2>4, OpenTypeStep
  <2>6. log[e].kind \in Closers
    <3>1. log[e].group # 0 /\ e = LastOf(log[e].group)
      BY <1>3, <2>3 DEF e
    <3>2. QED
      BY <2>3, <3>1, LastIsEnd DEF LogOK, Closers
  <2>7. ASSUME NEW h \in 1..groups, h \notin 1..g PROVE e + 1 <= LastOf(h)
    <3>1. LastOf(h) \in 1..Len(log) /\ log[LastOf(h)].group = h
      BY <1>1
    <3>2. h > g /\ g \in Nat /\ h \in Nat
      BY <1>0, <2>7
    <3>3. ~(LastOf(h) < e)
      <4>1. LastOf(h) < e => log[LastOf(h)].group <= log[e].group
        BY <1>3, <2>3, <3>1, <3>2 DEF LogOK, Numbered
      <4>2. QED
        BY <2>3, <3>1, <3>2, <4>1
    <3>4. LastOf(h) # e
      BY <2>3, <3>1, <3>2
    <3>5. QED
      BY <1>0, <2>3, <3>1, <3>3, <3>4
  <2>8. LogOK' /\ DecodedOK'
    BY <2>1, <2>4, <2>6, <2>7, OpenStep
  <2>9. QED
    BY <2>5, <2>8
<1>4. QED
  BY <1>2, <1>3

LEMMA OpenWithGtidsStep ==
  ASSUME TypeOK, LogOK, NEW set \in SUBSET (1..groups), OpenWithGtids(set)
  PROVE  TypeOK' /\ LogOK' /\ DecodedOK'
<1>1. Open(LastFile, 1, set) /\ LastFile \in Nat /\ 1 \in 1..Len(log) + 1
  BY LastPlace, LogFields DEF OpenWithGtids
<1>2. TypeOK'
  BY <1>1, OpenTypeStep
<1>3. \A h \in 1..groups : 1 <= LastOf(h)
  BY LastOfFound DEF LogOK
<1>4. QED
  BY <1>1, <1>2, <1>3, OpenStep

LEMMA GreetingStep ==
  ASSUME TypeOK, LogOK, DecodedOK, Greeting
  PROVE  TypeOK' /\ LogOK' /\ DecodedOK'
<1>1. /\ captured' = captured /\ log' = log /\ groups' = groups /\ UNCHANGED written
      /\ ~greeted /\ greeted' = TRUE /\ file' = FileAt(next) /\ known' = {}
      /\ pending' = pending /\ next' = next /\ omit' = omit /\ ended' = ended /\ emitted' = emitted
  BY DEF Greeting, written
<1>2. TypeOK'
  <2>1. FileAt(next) \in Nat
    BY FileTyped DEF TypeOK
  <2>2. QED
    BY <1>1, <2>1 DEF TypeOK
<1>3. InFile'
  BY <1>1 DEF InFile, FileAt, LastFile
<1>4. Held'
  <2>1. Between
    BY <1>1 DEF DecodedOK, Held, Taking
  <2>2. Between'
    BY <1>1, <2>1 DEF Between
  <2>3. QED
    BY <1>1, <2>1, <2>2 DEF DecodedOK, Held, NoPending, Cursor
<1>5. \A g : (Passed(g)' <=> Passed(g)) /\ Ending(g)' = Ending(g)
             /\ (Owed(g)' <=> Owed(g)) /\ \A tx : Whole(tx, g)' <=> Whole(tx, g)
  BY <1>1, SameLog DEF Passed
<1>6. WholeTransactions'
  BY <1>1, <1>5 DEF DecodedOK, WholeTransactions
<1>7. QED
  BY <1>1, <1>2, <1>3, <1>4, <1>6, SameLog DEF DecodedOK

-------------------------------------------------------------------------------
LEMMA InitHolds ==
  ASSUME Init
  PROVE  TypeOK /\ LogOK /\ DecodedOK
<1>1. Len(log) = 0 /\ Len(emitted) = 0 /\ log \in Seq(LogShape) /\ emitted \in Seq(EmittedShape)
  BY DEF Init
<1>2. TypeOK
  <2>1. pending \in PendingShape /\ Len(pending.changes) <= MaxChanges
    BY NoPendingShape, MaxChangesAssumption DEF Init
  <2>2. groups \in 0..MaxGroups /\ next \in 1..Len(log) + 1 /\ omit \subseteq 1..groups
    BY <1>1, MaxGroupsAssumption DEF Init
  <2>3. /\ captured \in Captures /\ file \in Nat /\ known \subseteq Tables \cup {"none"}
        /\ greeted \in BOOLEAN /\ ended \in {"open", "closed", "failed"}
    BY DEF Init
  <2>4. \A i \in 1..Len(log) : log[i].group <= groups
    BY <1>1
  <2>5. QED
    BY <1>1, <2>1, <2>2, <2>3, <2>4 DEF TypeOK
<1>3. LogOK
  BY <1>1 DEF Init, LogOK, Linked, Numbered, Filed, Turned
<1>4. Held
  BY DEF Init, Held, Between
<1>5. InFile
  BY DEF Init, InFile
<1>6. WholeTransactions
  <2>1. 1..groups = {}
    BY DEF Init
  <2>2. QED
    BY <1>1, <2>1 DEF WholeTransactions
<1>7. QED
  BY <1>2, <1>3, <1>4, <1>5, <1>6 DEF DecodedOK

LEMMA SourceStep ==
  ASSUME TypeOK, LogOK, DecodedOK, SourceSteps
  PROVE  TypeOK' /\ LogOK' /\ DecodedOK'
<1>1. TypeOK'
  BY GrowthTypeStep
<1>2. Linked' /\ Numbered' /\ Filed'
  BY RotateKeepsLog, GroupKeepsLinked, GroupKeepsNumbered, GroupKeepsFiled DEF SourceSteps, LogOK
<1>3. Turned'
  BY <1>1, GrowthKeepsTurned DEF LogOK
<1>4. Held' /\ InFile'
  BY GrowthKeepsHeld DEF LogOK, DecodedOK
<1>5. WholeTransactions'
  BY <1>1, <1>2, GrowthKeepsReturned DEF LogOK, DecodedOK
<1>6. QED
  BY <1>1, <1>2, <1>3, <1>4, <1>5 DEF LogOK, DecodedOK

LEMMA EndsTypeStep ==
  ASSUME TypeOK, NEW outcome \in {"open", "closed", "failed"}, Ends(outcome)
  PROVE  TypeOK'
BY DEF Ends, written, decoder, stream, TypeOK

LEMMA EndStep ==
  ASSUME TypeOK, LogOK, DecodedOK, StreamEnds \/ StreamFails \/ StreamStops
  PROVE  TypeOK' /\ LogOK' /\ DecodedOK'
<1>1. PICK outcome \in {"open", "closed", "failed"} : Ends(outcome)
  BY DEF StreamEnds, StreamFails, StreamStops
<1>2. QED
  BY <1>1, EndsTypeStep, EndsStep DEF Ends

LEMMA StutterStep ==
  ASSUME TypeOK, LogOK, DecodedOK, UNCHANGED vars
  PROVE  TypeOK' /\ LogOK' /\ DecodedOK'
<1>1. TypeOK'
  BY DEF vars, written, decoder, stream, TypeOK
<1>2. UNCHANGED <<written, decoder, stream, emitted>>
  BY DEF vars
<1>3. QED
  BY <1>1, <1>2, EndsStep

LEMMA Invariant == Spec => []IInv
<1>1. Init => IInv
  BY InitHolds DEF IInv, DecodedOK
<1>2. IInv /\ [Next]_vars => IInv'
  <2> SUFFICES ASSUME IInv, [Next]_vars PROVE IInv'
    OBVIOUS
  <2>0. TypeOK /\ LogOK /\ DecodedOK
    BY DEF IInv, DecodedOK
  <2>1. CASE SourceSteps
    BY <2>0, <2>1, SourceStep DEF IInv, DecodedOK
  <2>2. ASSUME NEW g \in 0..groups, OpenAtPosition(g) PROVE IInv'
    BY <2>0, <2>2, OpenAtPositionStep DEF IInv, DecodedOK
  <2>3. ASSUME NEW set \in SUBSET (1..groups), OpenWithGtids(set) PROVE IInv'
    BY <2>0, <2>3, OpenWithGtidsStep DEF IInv, DecodedOK
  <2>4. CASE Greeting
    BY <2>0, <2>4, GreetingStep DEF IInv, DecodedOK
  <2>5. ASSUME NEW i \in 1..Len(log), Decode(i) PROVE IInv'
    BY <2>0, <2>5, DecodeTypeStep, DecodeStep DEF IInv, DecodedOK
  <2>6. CASE StreamEnds \/ StreamFails \/ StreamStops
    BY <2>0, <2>6, EndStep DEF IInv, DecodedOK
  <2>7. CASE UNCHANGED vars
    BY <2>0, <2>7, StutterStep DEF IInv, DecodedOK
  <2>8. QED
    BY <2>1, <2>2, <2>3, <2>4, <2>5, <2>6, <2>7 DEF Next, SourceSteps
<1>3. QED
  BY <1>1, <1>2, PTL DEF Spec

(* Whatever the stream was opened with, wherever it was cut off and        *)
(* however the source's log grew in between: the decoder has returned      *)
(* exactly the committed groups that it has passed and was not to leave    *)
(* out, in order, each with its captured rows and its own place in the     *)
(* log (Decoder::decode, finish_transaction).                              *)
THEOREM WholeTransactionsHolds == Spec => []WholeTransactions
<1>1. IInv => WholeTransactions
  BY DEF IInv
<1>2. QED
  BY <1>1, Invariant, PTL

(* No event of a log of whole groups meets one of the "out of place"       *)
(* errors of Decoder::decode.                                              *)
THEOREM NeverOutOfPlaceHolds == Spec => []NeverOutOfPlace
<1>1. IInv => NeverOutOfPlace
  BY InPlace DEF IInv
<1>2. QED
  BY <1>1, Invariant, PTL
===============================================================================
