--------------------------- MODULE MCTypeCatalog ----------------------------
(* The server's types: one mapped throughout; char(n), which the mapping    *)
(* knows by its declaration and not by its catalog name; money, which has   *)
(* no codec; aclitem, whose name it does not list; anyarray; and a type     *)
(* of an extension with a codec, as long as the extension is offered.       *)
EXTENDS TypeCatalog

Server(kind, name) ==
    [kind |-> kind, schema |-> "pg_catalog", name |-> name, deps |-> << >>,
     fields |-> << >>, labels |-> << >>]

Builtin(name, supported, declared, named, listed) ==
    Server("builtin", name)
    @@ [supported |-> supported, declared |-> declared, named |-> named, listed |-> listed]

Extension(name, codec) ==
    [Server("extension", name) EXCEPT !.schema = "user"] @@ [codec |-> codec]

MCBaseTypes ==
    (1 :> Builtin(1, TRUE, TRUE, TRUE, TRUE)) @@ (2 :> Builtin(2, TRUE, TRUE, FALSE, TRUE))
    @@ (3 :> Builtin(3, FALSE, FALSE, FALSE, TRUE)) @@ (4 :> Builtin(4, FALSE, FALSE, FALSE, FALSE))
    @@ (5 :> Server("pseudo", 5)) @@ (6 :> Extension(6, TRUE))

\* Of the types the column does not need only enums are created, and only they
\* share a name.
NeededTypes ==
    \A o \in NewOids \cap DOMAIN types :
        /\ types[o].name # o => types[o].kind = "enum"
        /\ column # 0 => MadeOf(column, o) \/ types[o].kind = "enum"
=============================================================================
