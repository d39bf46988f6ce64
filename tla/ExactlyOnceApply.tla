-------------------------- MODULE ExactlyOnceApply ----------------------------
(***************************************************************************)
(* What a replication task promises about the sink's business tables,      *)
(* without sessions, retries or checkpoints: they start empty, one initial *)
(* copy brings them to the state of some moment of the source, and from    *)
(* then on each scoped source transaction is added whole, once, in order.  *)
(***************************************************************************)
EXTENDS Integers

CONSTANTS LastTx, Scope

VARIABLES copied,   \* the initial copy is committed
          effects   \* effects[t]: times the changes of t are in the tables

vars == <<copied, effects>>

Prefix(n) == [t \in 1..LastTx |-> IF t \in Scope /\ t <= n THEN 1 ELSE 0]

Init == copied = FALSE /\ effects = Prefix(0)

Copy ==
    /\ copied = FALSE
    /\ copied' = TRUE
    /\ \E n \in 0..LastTx : effects' = Prefix(n)

ApplyNext ==
    /\ copied = TRUE
    /\ \E t \in Scope : effects = Prefix(t - 1) /\ effects' = Prefix(t)
    /\ UNCHANGED copied

Next == Copy \/ ApplyNext

Spec == Init /\ [][Next]_vars
===============================================================================
