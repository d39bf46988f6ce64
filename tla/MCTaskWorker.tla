---------------------------- MODULE MCTaskWorker ------------------------------
(* Small instances of TaskWorker for TLC.                                  *)
EXTENDS TaskWorker, TLC

Symmetry == Permutations(Workers) \cup Permutations(Sessions)
===============================================================================
