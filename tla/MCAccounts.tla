------------------------------ MODULE MCAccounts ------------------------------
(* Model values and symmetry of Accounts for TLC.                          *)
EXTENDS Accounts, TLC

CONSTANTS a, b, c1, c2

(* Names and requests are interchangeable.                                 *)
Symmetry == Permutations({a, b}) \cup Permutations({c1, c2})
===============================================================================
