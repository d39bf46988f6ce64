--------------------------- MODULE SinkManifests ---------------------------
(***************************************************************************)
(* The capability manifests of the sinks: which conversions a sink offers  *)
(* for a source type and a target column (mysql_8_0/src/compatibility.rs,  *)
(* postgresql_15/src/compatibility.rs).  The code lists every entry; here  *)
(* an operator gives the entries of one sink whose source matches "source" *)
(* (capability_matches_source) and whose native type is the target's       *)
(* (target_representation_matches_binding).                                *)
(*                                                                         *)
(* An entry's rule is identified by a code, the source type (NoType for a  *)
(* template that covers many) and the native type it writes.               *)
(***************************************************************************)
EXTENDS ColumnTypes

NoParams == [none |-> TRUE]
When(condition, entries) == IF condition THEN entries ELSE {}

Lengths == 1..255 \cup {256, 512, 1024, 2048, 4096, 8192, 16383, 32767, 65535}
SupportedCharsets == {"utf8", "utf8mb4", "utf-8", "ascii"} \cup EightBit
Recursive == {"array", "struct", "map", "range", "multi_range"}

-----------------------------------------------------------------------------
(* The four ways a rule is declared.                                       *)

Exact(code, source, native) ==
    [rule |-> [code |-> code, source |-> source, native |-> native],
     qual |-> "exact", risk |-> 0, key |-> TRUE, confirm |-> FALSE,
     kind |-> "", strategy |-> "", range |-> "", options |-> {}, required |-> {},
     carries |-> "value", p |-> NoParams]

Explicit(code, native, kind) ==
    [Exact(code, NoType, native) EXCEPT
        !.qual = "explicit", !.risk = 2, !.key = FALSE, !.confirm = TRUE, !.kind = kind]

RangeChecked(code, native, range, p) ==
    [Exact(code, NoType, native) EXCEPT
        !.qual = "range", !.risk = 1, !.key = FALSE, !.confirm = TRUE, !.range = range, !.p = p]

\* The options of the rules that have some; the others take none.
TextOptions == {"charset", "length", "unit", "collation"}
JsonOptions == TextOptions \cup {"jsonStrategy"}
TemporalOptions == {"precision", "strategy", "zone"}

WithTextOptions(e) == [e EXCEPT !.options = TextOptions, !.required = TextOptions]
WithJsonOptions(e) == [e EXCEPT !.options = JsonOptions, !.required = JsonOptions]
WithTemporalOptions(e) ==
    [e EXCEPT !.options = TemporalOptions, !.required = {"precision", "strategy"}]

ExactBits(code, source, native, order, padding) ==
    [Exact(code, source, native) EXCEPT !.p = [order |-> order, padding |-> padding]]

FixedPadding(length) == IF length % 8 = 0 THEN "none" ELSE "zero"

ExactDecimal(source, native, specials) ==
    [Exact("decimal", source, native) EXCEPT !.p = [specials |-> specials]]

ExactGeometry(code, format) ==
    [Exact(code, NoType, Declared(code, << >>)) EXCEPT !.p = [format |-> format]]

ExactMembers(code, native, strategy) ==
    [Exact(code, NoType, native) EXCEPT !.strategy = strategy]

EnumByLabel == [Explicit("enum_by_label", Declared("enum", << >>), "enum")
                    EXCEPT !.strategy = "enum_label"]

\* An interval has a rule of its own for every precision of the duration.
ExplicitDuration(native, fp) ==
    WithTemporalOptions([Explicit("temporal", native, "temporal")
                            EXCEPT !.rule.source = [t |-> "duration", fp |-> fp]])

LogicalValueCarrier(native, capacity) ==
    [Explicit("logical_value_json_carrier", native, "logical_value_json")
        EXCEPT !.p = [capacity |-> capacity]]

\* Carries the protocol's bytes, never a decoded value.
SourceRepresentationCarrier(native, capacity) ==
    [Explicit("source_representation", native, "source_representation")
        EXCEPT !.carries = "representation", !.p = [capacity |-> capacity]]

-----------------------------------------------------------------------------
(* MySQL 8.0.                                                              *)

MySqlNumbers(source, d) ==
    When(source.t = "integer" /\ d.base \in DOMAIN MySqlInts \ {"bool"},
         When(/\ MySqlInts[d.base] = source.bits
              /\ d.unsigned = ~ source.signed
              /\ d.args \in {<< >>, <<11>>}, {Exact("integer", source, d)})
         \cup When(d.args = << >>,
                   {RangeChecked("integer_domain", d, "integer",
                        [signed |-> ~ d.unsigned, bits |-> MySqlInts[d.base]])}))
    \cup When(source.t = "decimal" /\ d.base = "decimal" /\ Len(d.args) = 2,
         When(d.args = <<source.precision, source.scale>>, {Exact("decimal", source, d)})
         \cup When(source.scale >= 0,
                   {RangeChecked("decimal_domain", d, "decimal",
                        [precision |-> d.args[1], scale |-> d.args[2], specials |-> {}])}))
    \cup When(source.t = "float" /\ d.args = << >>,
         When(<<d.base, source.bits>> \in {<<"float", 32>>, <<"double", 64>>},
              {Exact("float", source, d)})
         \cup When(d.base = "float", {RangeChecked("float_domain", d, "float", [bits |-> 32])}))

MySqlTextColumn(d) ==
    \/ d.base \in {"varchar", "char"} /\ Arg(d, 1, 1) \in Lengths
    \/ d.base \in DOMAIN MySqlTexts

MySqlText(source, d) ==
    When(/\ source.t = "text" /\ source.unit = "characters"
         /\ d.base = "varchar" /\ d.args[1] = source.max /\ source.max \in Lengths
         /\ source.charset \in {"utf8mb4", "utf8", "latin1", "ascii", "UTF8"},
         {Exact("varchar", source, d)})
    \cup When(/\ source.t = "text" /\ source.unit = "characters"
              /\ d.base = "char" /\ Arg(d, 1, 1) = source.max
              /\ source.charset \in {"utf8mb4", "utf8", "latin1", "ascii"},
         {Exact("char", source, d)})
    \cup When(/\ source.t = "text" /\ source.unit = "bytes"
              /\ d.base \in DOMAIN MySqlTexts /\ MySqlTexts[d.base] = source.max
              /\ source.charset \in {"utf8mb4", "utf8", "latin1", "ascii"},
         {Exact("text", source, d)})
    \cup When(source = Text("UTF8", None, "characters") /\ d.base = "longtext",
         {Exact("text_unbounded", source, d)})
    \cup When(source.t = "text" /\ Lower(source.charset) \in SupportedCharsets /\ MySqlTextColumn(d),
         {WithTextOptions(Explicit("text", d, "text"))})
    \cup When(source = Json(TRUE) /\ MySqlTextColumn(d),
         {WithJsonOptions(Explicit("json_text", d, "json"))})

MySqlBytes(source, d) ==
    When(/\ source.t = "binary" /\ source.max \in Lengths
         /\ d.base \in {"varbinary", "binary"} /\ d.args = <<source.max>>,
         {Exact(d.base, source, d)})
    \cup When(/\ source.t = "binary"
              /\ d.base \in DOMAIN MySqlBlobs /\ MySqlBlobs[d.base] = source.max,
         {Exact("blob", source, d)})
    \cup When(source.t = "bit_string" /\ d.base = "bit" /\ d.args = <<source.length>>,
         {ExactBits("bit", source, d, "lsb_first", FixedPadding(source.length))})

MySqlTimes(source, d) ==
    When(source.t \in {"date", "year"} /\ d.base = source.t, {Exact(d.base, source, d)})
    \cup When(source.t \in {"local_datetime", "instant", "duration"}
                 /\ d.base \in DOMAIN MySqlTemporals,
         When(MySqlTemporals[d.base] = source.t /\ Arg(d, 1, 0) = source.fp,
              {Exact("temporal", source, d)})
         \cup When((source.t = "duration") = (d.base = "time"),
                   {WithTemporalOptions(Explicit("temporal", d, "temporal"))}))

MySqlStructures(source, d, targetType) ==
    When(source = Json(TRUE) /\ d.base = "json", {Exact("json", source, d)})
    \cup When(source.t = "spatial" /\ targetType.t = "spatial",
         {ExactGeometry("geometry", "wkb")})
    \cup When(source.t \in Recursive /\ d.base = "json",
         {Explicit("json_value_carrier", d, "recursive")})
    \cup When(d.base = "json", {LogicalValueCarrier(d, None)})
    \cup When(source.t = "raw" /\ d.base = "longblob", {SourceRepresentationCarrier(d, None)})

MySqlMembers(source, d) ==
    When(source.t = "enum" /\ d.base = "enum",
         {ExactMembers("enum", Declared("enum", << >>), "enum_label"), EnumByLabel})
    \cup When(source.t = "set" /\ d.base = "set",
         {ExactMembers("set", Declared("set", << >>), "set_members")})

MySqlFallbacks(source, d) ==
    When(source.t = "boolean" /\ d.base = "tinyint" /\ d.args \in {<< >>, <<1>>} /\ ~ d.unsigned,
         {Explicit("boolean", d, "")})
    \cup When(source.t = "uuid" /\ d.base \in {"char", "varchar"} /\ d.args = <<36>>,
         {Explicit("uuid", d, "")})

MySqlEntries(source, d, targetType) ==
    MySqlNumbers(source, d) \cup MySqlText(source, d) \cup MySqlBytes(source, d)
    \cup MySqlTimes(source, d) \cup MySqlStructures(source, d, targetType)
    \cup MySqlMembers(source, d) \cup MySqlFallbacks(source, d)

-----------------------------------------------------------------------------
(* PostgreSQL 15.                                                          *)

\* Signed integers by their own width, unsigned ones by the width that holds
\* their whole domain; beyond 64 bits that is a numeric.
PgUnsigned(bits) ==
    CASE bits = 8 -> Declared("smallint", << >>)
      [] bits \in {16, 24} -> Declared("integer", << >>)
      [] bits = 32 -> Declared("bigint", << >>)
      [] bits = 64 -> Declared("numeric", <<20, 0>>)

PgNumbers(source, d) ==
    When(source.t = "integer",
         When(\/ ~ source.signed /\ d = PgUnsigned(source.bits)
              \/ source.signed /\ d.base \in DOMAIN PgInts /\ PgInts[d.base] = source.bits,
              {Exact("integer", source, d)})
         \cup When(d.base \in DOMAIN PgInts,
                   {RangeChecked("integer_domain", d, "integer",
                        [signed |-> TRUE, bits |-> PgInts[d.base]])}))
    \cup When(source.t = "decimal" /\ d.base = "numeric" /\ Len(d.args) = 2
                 /\ d.args[2] \in 0..30 /\ d.args[2] <= d.args[1],
         When(d.args = <<source.precision, source.scale>>,
              {ExactDecimal(source, d, {"NaN"})})
         \cup When(source.scale >= 0,
                   {RangeChecked("decimal_domain", d, "decimal",
                        [precision |-> d.args[1], scale |-> d.args[2], specials |-> {"NaN"}])}))
    \cup When(source.t = "float",
         When(<<d.base, source.bits>> \in {<<"real", 32>>, <<"double precision", 64>>},
              {Exact("float", source, d)})
         \cup When(d.base = "real", {RangeChecked("float_domain", d, "float", [bits |-> 32])}))

PgTextColumn(d) == d.base = "text" \/ (d.base = "varchar" /\ Arg(d, 1, 0) \in Lengths)

PgText(source, d) ==
    When(source.t = "text" /\ source.charset \in {"UTF8", "utf8", "utf8mb4"},
         When(/\ source.unit = "characters"
              /\ \/ source.max = None /\ d.base = "text"
                 \/ source.max \in Lengths /\ d.base = "varchar" /\ d.args = <<source.max>>,
              {Exact("text", source, d)})
         \cup When(/\ source.unit = "bytes" /\ source.charset # "UTF8" /\ d.base = "text"
                   /\ \E base \in DOMAIN MySqlTexts : MySqlTexts[base] = source.max,
                   {Exact("text_bytes", source, d)}))
    \cup When(source.t = "text" /\ Lower(source.charset) \in SupportedCharsets /\ PgTextColumn(d),
         {WithTextOptions(Explicit("text", d, "text"))})
    \cup When(source = Json(TRUE) /\ PgTextColumn(d),
         {WithJsonOptions(Explicit("json_text", d, "json"))})

\* Ten widths have an entry of their own beside the one that takes any width.
PgBytes(source, d) ==
    When(source.t = "binary" /\ d.base = "bytea" /\ source.max \in Lengths \cup {None},
         {Exact("bytea", source, d)})
    \cup When(/\ source.t = "bit_string" /\ d.base = "bit" /\ d.args = <<source.length>>
              /\ source.length \in {1, 8, 12, 16, 32, 64, 128, 256, 512, 1024},
         {ExactBits("bit", source, d, "msb_first", FixedPadding(source.length))})
    \cup When(source.t \in {"bit_string", "variable_bit_string"}
                 /\ d.base \in {"bit", "varbit"} /\ d.args # << >>,
         {ExactBits("bit_any", NoType, Declared("bit", << >>), "msb_first", "auto")})

PgTimes(source, d) ==
    When(source.t = "date" /\ d.base = "date", {Exact("date", source, d)})
    \cup When(source.t = "year" /\ d.base = "smallint", {Exact("year", source, d)})
    \cup When(source.t \in {"local_datetime", "instant"} /\ d.base \in {"timestamp", "timestamptz"},
         When(PgTemporals[d.base] = source.t /\ Arg(d, 1, 0) = source.fp,
              {Exact("temporal", source, d)})
         \cup {WithTemporalOptions(Explicit("temporal", d, "temporal"))})
    \cup When(source.t = "duration" /\ d.base = "interval" /\ d.args = << >>,
         {Exact("temporal", source, d)}
         \cup {ExplicitDuration(d, n) : n \in 0..6})

\* What a field of PostgreSQL holds at most.
PgFieldBytes == 1073741823

\* One instance each of the types that a catalog describes.  An inet column is
\* of the family "ip" and never the one meant here.
PgInstances ==
    {<<"integer[]", ArrayOf(Int32)>>,
     <<"integer[]", [ArrayOf(Int32) EXCEPT !.dims = 1, !.bounds = <<1>>]>>,
     <<"cdc_composite",
       [t |-> "struct", fields |-> <<[name |-> "value", type |-> Int32, nullable |-> FALSE]>>]>>,
     <<"cdc_domain",
       [t |-> "domain", name |-> "cdc_domain", elem |-> Int32, digest |-> "catalog-bound"]>>,
     <<"int4range", Containing("range", Int32)>>,
     <<"int4multirange", Containing("multi_range", Int32)>>,
     <<"inet", [t |-> "network", family |-> "inet", cidr |-> FALSE]>>,
     <<"USER-DEFINED", [t |-> "raw", native |-> "USER-DEFINED",
                        codec |-> "postgresql.user-defined.v1", digest |-> "catalog-bound"]>>}

PgStructures(source, d) ==
    When(source = Json(TRUE) /\ d.base = "jsonb", {Exact("jsonb", source, d)})
    \cup When(d.base = "text", {LogicalValueCarrier(d, PgFieldBytes)})
    \cup When(source.t = "raw" /\ d.base = "bytea", {SourceRepresentationCarrier(d, PgFieldBytes)})
    \cup When(source.t = "spatial" /\ d.base \in {"geometry", "geography"},
         {ExactGeometry(d.base, "ewkb")})
    \cup When(source.t \in {"boolean", "uuid", "xml"} /\ d.base = source.t,
         {Exact(d.base, source, d)})
    \cup When(<<d.base, source>> \in PgInstances, {Exact(d.base, source, d)})
    \cup When(source.t = "enum" /\ d.base = "enum",
         {ExactMembers("enum", Declared("enum", << >>), "enum_label"), EnumByLabel})
    \cup When(source.t = "set" /\ d.base = "text array", {Explicit("set", d, "")})

PgEntries(source, d) ==
    PgNumbers(source, d) \cup PgText(source, d) \cup PgBytes(source, d)
    \cup PgTimes(source, d) \cup PgStructures(source, d)

-----------------------------------------------------------------------------
Entries(source, target) ==
    IF target.connector = "mysql"
    THEN MySqlEntries(source, target.decl, target.type)
    ELSE PgEntries(source, target.decl)
=============================================================================
