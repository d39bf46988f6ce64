--------------------------- MODULE MCTaskLifecycle ----------------------------
(* Two tasks that write one table of one server, registered twice.         *)
EXTENDS TaskLifecycle, TLC

CONSTANTS t1, t2, i1, i2, s1, tab

MCSinkOf == (t1 :> i1) @@ (t2 :> i2)
MCServerOf == (i1 :> s1) @@ (i2 :> s1)
MCTableOf == (t1 :> tab) @@ (t2 :> tab)

(* The two tasks, each with its instance, can be exchanged.                *)
Symmetry == {p \in Permutations({t1, t2, i1, i2}) :
                p[t1] \in {t1, t2} /\ p[t2] \in {t1, t2}
                /\ MCSinkOf[p[t1]] = p[i1] /\ MCSinkOf[p[t2]] = p[i2]}
===============================================================================
