---------------------------- MODULE MCSinkApply -----------------------------
(***************************************************************************)
(* The tables a source begins with: one row, and a row for every key.      *)
(***************************************************************************)
EXTENDS SinkApply, TLC

MCStarts == {(1 :> 2), (1 :> 1) @@ (2 :> 2)}
=============================================================================
