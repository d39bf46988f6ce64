---------------------------- MODULE MCFieldRoute ----------------------------
(***************************************************************************)
(* Columns, their redefinitions, options and values for FieldRoute.        *)
(***************************************************************************)
EXTENDS FieldRoute

Column(connector, decl) ==
    [connector |-> connector, build |-> 1, decl |-> decl, charset |-> "", collation |-> "",
     nullable |-> TRUE, key |-> 0, keys |-> 1, generated |-> FALSE]
My(base, args) == Column("mysql", Declared(base, args))
Pg(base, args) == Column("postgresql", Declared(base, args))
MyText(base, args, charset, collation) ==
    [My(base, args) EXCEPT !.charset = charset, !.collation = collation]
Key(column) == [column EXCEPT !.key = 1, !.nullable = FALSE]
Keyless(column) == [column EXCEPT !.keys = 0]

U8 == Column("mysql", Unsigned("tinyint"))
U16 == Column("mysql", Unsigned("smallint"))
Letters == Column("mysql", Labelled("enum", <<"a", "b">>))
Reversed == Column("mysql", Labelled("enum", <<"b", "a">>))
Three == Column("mysql", Labelled("enum", <<"a", "b", "c">>))
PgLetters == Column("postgresql", Labelled("enum", <<"a", "b">>))
Collated(column, collation) ==
    [column EXCEPT !.charset = "utf8mb4", !.collation = collation]
Flags == Column("mysql", Labelled("set", <<"a", "b">>))
FlagsReversed == Column("mysql", Labelled("set", <<"b", "a">>))
Point == Column("mysql", Geometry("point", 0))
PointOf4326 == Column("mysql", Geometry("point", 4326))
Latin == MyText("varchar", <<2>>, "latin1", "latin1_bin")
Utf == MyText("varchar", <<2>>, "utf8mb4", "utf8mb4_bin")
UtfCi == MyText("varchar", <<2>>, "utf8mb4", "utf8mb4_ci")
Utf3 == MyText("varchar", <<2>>, "utf8", "utf8_bin")
Tiny == MyText("tinytext", << >>, "utf8mb4", "utf8mb4_bin")

Numbers ==
    {<<My("smallint", << >>), My("smallint", << >>)>>, <<My("smallint", << >>), My("tinyint", << >>)>>,
     <<My("smallint", << >>), U8>>, <<U8, My("tinyint", << >>)>>, <<U16, Pg("integer", << >>)>>,
     <<U16, Pg("smallint", << >>)>>, <<Pg("integer", << >>), U16>>,
     <<Key(U8), Key(Pg("smallint", << >>))>>, <<Key(My("smallint", << >>)), Key(My("tinyint", << >>))>>,
     <<My("decimal", <<4, 2>>), My("decimal", <<3, 1>>)>>,
     <<My("decimal", <<4, 1>>), My("decimal", <<4, 2>>)>>,
     <<My("decimal", <<4, 2>>), Pg("numeric", <<3, 1>>)>>,
     <<Pg("numeric", <<4, 2>>), Pg("numeric", <<4, 2>>)>>,
     <<Pg("numeric", <<4, 2>>), My("decimal", <<4, 2>>)>>,
     <<Pg("numeric", << >>), My("decimal", <<4, 2>>)>>,
     <<My("double", << >>), My("float", << >>)>>, <<Pg("double precision", << >>), My("double", << >>)>>,
     <<Pg("double precision", << >>), Pg("real", << >>)>>,
     <<Pg("boolean", << >>), My("tinyint", <<1>>)>>, <<My("year", << >>), Pg("smallint", << >>)>>,
     <<Keyless(My("smallint", << >>)), My("smallint", << >>)>>}

Strings ==
    {<<Utf, Utf>>, <<Utf, UtfCi>>, <<Utf, Latin>>, <<Latin, Utf>>, <<Latin, Pg("varchar", <<2>>)>>,
     <<Utf, Pg("varchar", <<2>>)>>, <<Utf, Pg("varchar", <<1>>)>>, <<Utf, Utf3>>, <<Utf3, Utf>>,
     <<Pg("varchar", <<2>>), Utf3>>, <<Pg("varchar", <<2>>), Utf>>, <<Utf3, Pg("varchar", <<2>>)>>,
     <<My("json", << >>), Utf3>>, <<Pg("jsonb", << >>), Pg("varchar", <<2>>)>>, <<Tiny, Utf>>,
     <<Pg("text", << >>), Utf>>, <<Key(Utf), Key(Utf)>>, <<Key(Utf), Key(UtfCi)>>,
     <<My("json", << >>), Tiny>>, <<My("json", << >>), Pg("jsonb", << >>)>>,
     <<Pg("jsonb", << >>), Latin>>, <<Pg("json", << >>), My("json", << >>)>>,
     <<Letters, Reversed>>, <<Three, Letters>>, <<Letters, PgLetters>>, <<Flags, FlagsReversed>>,
     <<Key(Letters), Key(Letters)>>, <<Key(Flags), Key(FlagsReversed)>>,
     <<Collated(Letters, "utf8mb4_bin"), Collated(Letters, "utf8mb4_ci")>>}

Bytes ==
    {<<Key(My("varbinary", <<2>>)), Key(My("binary", <<2>>))>>,
     <<My("varbinary", <<2>>), My("varbinary", <<2>>)>>, <<My("binary", <<2>>), My("binary", <<2>>)>>,
     <<My("binary", <<2>>), My("varbinary", <<2>>)>>, <<My("varbinary", <<2>>), Pg("bytea", << >>)>>,
     <<Key(My("binary", <<2>>)), Key(My("binary", <<2>>))>>,
     <<My("varbinary", <<2>>), My("binary", <<2>>)>>,
     <<My("bit", <<4>>), My("bit", <<4>>)>>, <<My("bit", <<12>>), Pg("bit", <<12>>)>>,
     <<Pg("bit", <<12>>), My("bit", <<12>>)>>, <<Key(My("bit", <<12>>)), Key(Pg("bit", <<12>>))>>,
     <<Point, Point>>, <<Point, PointOf4326>>,
     <<Pg("money", << >>), My("longblob", << >>)>>, <<Pg("money", << >>), Pg("bytea", << >>)>>,
     <<Pg("inet", << >>), Pg("inet", << >>)>>, <<Pg("inet", << >>), Pg("text", << >>)>>,
     <<Pg("integer[]", << >>), Pg("integer[]", << >>)>>, <<Pg("integer[]", << >>), My("json", << >>)>>,
     <<Pg("int4range", << >>), Pg("int4range", << >>)>>,
     <<Pg("int4multirange", << >>), Pg("int4multirange", << >>)>>,
     <<Pg("interval", << >>), My("json", << >>)>>, <<Pg("boolean", << >>), Pg("text", << >>)>>}

Moments ==
    {<<My("datetime", <<3>>), My("datetime", <<3>>)>>, <<My("datetime", <<3>>), My("datetime", << >>)>>,
     <<My("datetime", <<3>>), My("timestamp", << >>)>>, <<My("timestamp", <<3>>), My("datetime", <<3>>)>>,
     <<My("datetime", <<3>>), Pg("timestamptz", <<3>>)>>, <<Pg("timestamptz", <<3>>), Pg("timestamp", <<3>>)>>,
     <<My("time", <<3>>), My("time", << >>)>>}

MCPairs == Numbers \cup Strings \cup Bytes \cup Moments

-----------------------------------------------------------------------------
\* One other definition for each kind of column.
MCRedefinitions(column) ==
    LET d == column.decl IN
    CASE d.base \in {"enum", "set"} ->
            {[column EXCEPT !.decl.labels = IF Len(@) = 3 THEN <<"a", "b">> ELSE <<"a", "b", "c">>]}
      [] d.base = "varchar" -> {[column EXCEPT !.decl.args = <<3 - @[1]>>]}
      [] d.base = "boolean" -> {Keyless(column)}
      [] d.base = "money" -> {[column EXCEPT !.build = 3 - @]}
      [] d.base \in {"decimal", "numeric"} /\ d.args # << >> ->
            {[column EXCEPT !.decl.args = IF @[1] = 4 THEN <<3, 1>> ELSE <<4, 2>>]}
      [] d.base = "smallint" -> {[column EXCEPT !.decl.base = "bigint"]}
      [] d.base = "datetime" -> {[column EXCEPT !.decl.args = IF @ = << >> THEN <<3>> ELSE << >>]}
      [] OTHER -> {[column EXCEPT !.nullable = FALSE]}

\* No column takes more than two steps to a definition it has had, or to one
\* that is redefined to itself.
Redefined(columns) == columns \cup UNION {MCRedefinitions(c) : c \in columns}
MCColumns == Redefined(Redefined({p[1] : p \in MCPairs} \cup {p[2] : p \in MCPairs}))

TextParameters(to) ==
    {[charset |-> c, length |-> n, unit |-> "characters", collation |-> to.collation]
        : c \in {"latin1", "utf8", "utf8mb4", "UTF8"}, n \in {1, 2}}
    \cup {[charset |-> "utf8mb4", length |-> 255, unit |-> "bytes", collation |-> to.collation]}

Parameters(e, to) ==
    CASE e.options = TextOptions -> TextParameters(to)
      [] e.options = JsonOptions ->
            {[charset |-> q.charset, length |-> q.length, unit |-> q.unit,
              collation |-> q.collation, jsonStrategy |-> j]
                : q \in TextParameters(to), j \in {"normalized_text", "raw_text"}}
      [] e.options = TemporalOptions ->
            {[precision |-> n, strategy |-> s] : n \in {0, 3}, s \in {"preserve_local",
                    "preserve_duration", "local_to_absolute"}}
            \cup {[precision |-> n, strategy |-> s, zone |-> 28800]
                    : n \in {0, 3}, s \in {"local_to_absolute", "absolute_to_local"}}
      [] OTHER -> {<< >>}

MCOptionsFor(from, to) ==
    {NoOptions} \cup
    UNION {{[rule |-> e.rule, parameters |-> q] : q \in Parameters(e, to)}
              : e \in Entries(ColumnType(from), Typed(to))}

-----------------------------------------------------------------------------
(* Values at the edges of the types.                                       *)

Whole(t, n) == [v |-> "integer", signed |-> t.signed, bits |-> t.bits, n |-> n]
Dec(coef, scale, special) == [v |-> "decimal", coef |-> coef, scale |-> scale, special |-> special]
Flt(bits, class, single) == [v |-> "float", bits |-> bits, class |-> class, single |-> single]
Chars(charset, chars) == [v |-> "text", charset |-> charset, chars |-> chars, known |-> TRUE]
Doc(chars, finite) == [v |-> "json", chars |-> chars, finite |-> finite, keys |-> << >>]
Bin(bytes) == [v |-> "binary", bytes |-> bytes]
Bits(order, length, bytes) ==
    [v |-> "bit_string", length |-> length, bytes |-> bytes, order |-> order,
     padding |-> IF length % 8 = 0 THEN "none" ELSE "zero"]
Local(year, month, day, second, micro) ==
    [v |-> "local_datetime", year |-> year, month |-> month, day |-> day, second |-> second,
     micro |-> micro]
Instant(day, second, nano) == [v |-> "instant", day |-> day, second |-> second, nano |-> nano]
Wkb(srid) == [v |-> "spatial", format |-> "wkb", subtype |-> "point", dims |-> 2, srid |-> srid,
              crs |-> "srid", wireType |-> "point", wireDims |-> 2, wireSrid |-> None]
Address(family, prefix) == [v |-> "network", family |-> family, prefix |-> prefix]
List(elems) == [v |-> "array", elems |-> elems, dims |-> IF elems = << >> THEN 0 ELSE 1,
                bounds |-> IF elems = << >> THEN << >> ELSE <<1>>,
                lens |-> IF elems = << >> THEN << >> ELSE <<Len(elems)>>]
Between(bounds) == [v |-> "range", bounds |-> bounds, empty |-> bounds = {}]
Money(build) ==
    [v |-> "envelope", connector |-> "postgresql", build |-> build, identity |-> "money",
     protocol |-> "pgoutput.v1", format |-> "text",
     metadata |-> [native |-> "money", timezone |-> "UTC", relation |-> "r", lc_monetary |-> "C"],
     digest |-> "money", encoding |-> "text-envelope", intact |-> TRUE, size |-> 10]

Edges == {-32768, -129, -128, -1, 0, 127, 128, 255, 256, 32767, 32768, 65535}

SamplesOf(t, connector, build) ==
    CASE t.t = "integer" -> {Whole(t, n) : n \in {m \in Edges : IntFits(m, t.signed, t.bits)}}
      [] t.t = "decimal" ->
            {Dec(n * Ten(t.scale - 1), t.scale, "")
                : n \in {m \in {0, 99, 100, 101, -999, 9999} : Abs(m) * Ten(t.scale - 1) < Ten(t.precision)}}
            \cup {Dec(n, t.scale, "") : n \in {1, 995, 999} }
            \cup (IF connector = "mysql" THEN {} ELSE {Dec(0, 0, "NaN")})
      [] t.t = "decimal_unbounded" -> {Dec(1, 1, ""), Dec(0, 0, "NaN"), Dec(0, 0, "Infinity")}
      [] t.t = "float" ->
            {Flt(t.bits, "finite", s) : s \in BOOLEAN}
            \cup (IF connector = "mysql" THEN {} ELSE {Flt(t.bits, "nan", FALSE)})
      [] t.t = "text" ->
            {Chars(t.charset, c) : c \in {s \in {<< >>, <<65>>, <<233, 65>>, <<8364>>, <<128512>>,
                                                 <<65, 66, 67>>} :
                                            /\ t.max = None \/ Len(s) <= t.max
                                            /\ connector = "mysql" => Encodable(t.charset, s)}}
      [] t.t = "json" -> {Doc(<<65>>, TRUE), Doc(<<8364>>, TRUE), Doc(<<65, 66, 67>>, TRUE),
                              Doc(<<128512>>, TRUE), Doc([i \in 1..256 |-> 65], TRUE),
                              Doc(<<65>>, FALSE)}
      [] t.t = "binary" ->
            {Bin(b) : b \in IF t.max = None THEN {<<1>>} ELSE {<< >>, <<1>>, <<1, 0>>, <<1, 2>>}}
      [] t.t = "bit_string" ->
            {Bits(BitOrderOf(connector), t.length, b)
                : b \in CASE t.length = 4 -> {<<0>>, <<8>>, <<1>>}
                          [] connector = "mysql" -> {<<0, 0>>, <<0, 1>>, <<8, 0>>, <<15, 15>>, <<0, 16>>}
                          [] OTHER -> {<<0, 16>>, <<128, 0>>, <<255, 240>>}}
      [] t.t = "enum" -> {[v |-> "enum", label |-> l] : l \in Range(t.labels)}
      [] t.t = "set" -> {[v |-> "set", labels |-> l] : l \in {<< >>, t.labels, <<t.labels[2]>>}}
      [] t.t = "local_datetime" ->
            {Local(1970, 1, 1, 0, 0), Local(2000, 2, 29, 86399, IF t.fp = 0 THEN 0 ELSE 999000),
             Local(2023, 12, 31, 60, 0)}
      [] t.t = "instant" ->
            {Instant(0, 0, 0), Instant(11016, 57599, IF t.fp = 0 THEN 0 ELSE 999000000),
             Instant(19722, 86399, 0)}
      [] t.t = "duration" -> {[v |-> "duration", micro |-> n] : n \in {0, IF t.fp = 0 THEN 1000000 ELSE 1000, 2000000}}
      [] t.t = "spatial" -> {Wkb(0), Wkb(4326)}
      [] t.t = "boolean" -> {[v |-> "boolean", value |-> b] : b \in BOOLEAN}
      [] t.t = "year" -> {[v |-> "year", n |-> n] : n \in {0, 2155}}
      [] t.t = "calendar_interval" -> {[v |-> "calendar_interval", months |-> 1, micro |-> 0]}
      [] t.t = "network" -> {Address("ipv4", None), Address("ipv6", 64)}
      [] t.t = "array" -> {List(<< >>), List(<<Whole(Int32, 32768)>>), List(<<[v |-> "null"]>>)}
      [] t.t = "range" -> {Between({}), Between({Whole(Int32, -1), Whole(Int32, 255)})}
      [] t.t = "multi_range" ->
            {[v |-> "multi_range", elems |-> e] : e \in {<< >>, <<Between({Whole(Int32, 1)})>>}}
      [] t.t = "raw" -> {Money(1), Money(build)}
      [] OTHER -> {}

\* BINARY(n) always sends its n bytes.
MCSamples(column) ==
    LET t == ColumnType(column)
        all == SamplesOf(t, column.connector, column.build)
    IN IF column.decl.base = "binary" THEN {v \in all : Len(v.bytes) = t.max}
       ELSE all \cup (IF column.nullable THEN {[v |-> "null"]} ELSE {})
=============================================================================
