---------------------------- MODULE AtomicMirror ----------------------------
(***************************************************************************)
(* What a sink promises for a table: after one copy, the transactions      *)
(* that wait for it are applied one by one, each whole, to the rows they   *)
(* name and to no other, or not at all.  Other clients of the sink may do  *)
(* to the table what they like, at any time.                               *)
(*                                                                         *)
(* A table is a function from the keys it holds to the values of its rows. *)
(* A change has op, key, newKey, value and keeps: an update that keeps     *)
(* leaves the value as it is.                                              *)
(***************************************************************************)
EXTENDS Integers, Sequences, Functions

CONSTANTS Keys, Values

VARIABLES table,    \* the committed rows
          waiting,  \* transactions read and not applied
          copied,   \* the copy is committed
          exact,    \* the column keeps what is written to it
          others    \* how often another client has changed something

vars == <<table, waiting, copied, exact, others>>

Tables == UNION {[held -> Values] : held \in SUBSET Keys}

-----------------------------------------------------------------------------
Applicable(rows, change) ==
    /\ (change.op = "insert") = (change.key \notin DOMAIN rows)
    /\ change.newKey # change.key => change.newKey \notin DOMAIN rows

\* A table with one row put in.
Put(rows, key, value) ==
    [k \in DOMAIN rows \cup {key} |-> IF k = key THEN value ELSE rows[k]]

Effect(rows, change, value) ==
    LET rest == Restrict(rows, DOMAIN rows \ {change.key})
        kept == change.keeps /\ change.key \in DOMAIN rows
    IN IF change.op = "delete" THEN rest
       ELSE Put(rest, change.newKey, IF kept THEN rows[change.key] ELSE value)

\* What a column may store of the value of a change.
Storable(change) == IF exact THEN {change.value} ELSE Values

-----------------------------------------------------------------------------
Init == table \in Tables /\ waiting = << >> /\ copied \in BOOLEAN /\ exact = TRUE /\ others = 0

SourceCommit ==
    /\ Len(waiting') = Len(waiting) + 1
    /\ SubSeq(waiting', 1, Len(waiting)) = waiting
    /\ UNCHANGED <<table, copied, exact, others>>

\* A copy starts over from what the source holds now.
BeginCopy ==
    /\ ~ copied
    /\ waiting' = << >>
    /\ UNCHANGED <<table, copied, exact, others>>

Copy ==
    /\ ~ copied
    /\ copied' = TRUE
    /\ table' \in Tables
    /\ Restrict(table', DOMAIN table) = table
    /\ UNCHANGED <<waiting, exact, others>>

\* during[i] is the table after the first i changes.
Apply ==
    LET changes == Head(waiting) n == Len(changes) IN
    /\ copied /\ waiting # << >>
    /\ \E during \in [0..n -> Tables] :
          /\ during[0] = table
          /\ \A i \in 1..n :
                /\ Applicable(during[i - 1], changes[i])
                /\ \E v \in Storable(changes[i]) : during[i] = Effect(during[i - 1], changes[i], v)
          /\ table' = during[n]
    /\ waiting' = Tail(waiting)
    /\ UNCHANGED <<copied, exact, others>>

Others ==
    /\ others' = others + 1
    /\ table' \in Tables /\ exact' \in BOOLEAN
    /\ UNCHANGED <<waiting, copied>>

Next == SourceCommit \/ BeginCopy \/ Copy \/ Apply \/ Others

Spec == Init /\ [][Next]_vars
=============================================================================
