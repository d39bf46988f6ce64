---------------------------- MODULE ColumnTypes ----------------------------
(***************************************************************************)
(* The LogicalType a source adapter reads in a column declaration:         *)
(* mysql_5_7/src/type_mapping.rs (which MySQL 8.0 and 8.4 follow) and the  *)
(* built-in types of postgresql_15/src/type_mapping.rs, with a few that it *)
(* looks up in the catalog (TypeCatalog has the rest).  A declaration is   *)
(* what the parser of the catalog's text returns: a base name, its         *)
(* numeric arguments, its labels, and the modifiers it allows.  A          *)
(* declaration the adapter refuses has the type NoType.                    *)
(***************************************************************************)
EXTENDS LogicalValues

NoType == [t |-> "none"]

\* MySQL's 4294967295, beyond TLC's integers, is never reached by a length here.
LongLength == 2147483647

Declared(base, args) ==
    [base |-> base, args |-> args, labels |-> << >>, unsigned |-> FALSE, srid |-> None]
Labelled(base, labels) == [Declared(base, << >>) EXCEPT !.labels = labels]
Unsigned(base) == [Declared(base, << >>) EXCEPT !.unsigned = TRUE]
Geometry(base, srid) == [Declared(base, << >>) EXCEPT !.srid = srid]

Arg(d, i, default) == IF Len(d.args) >= i THEN d.args[i] ELSE default

\* Labels are non-empty and unique, and there is at least one.
LabelsWellFormed(labels) ==
    labels # << >> /\ IsInjective(labels) /\ "" \notin Range(labels)

\* PostgreSQL's json keeps the spelling of its input and repeated keys.
Json(normalized) == [t |-> "json", normalized |-> normalized]

Text(charset, max, unit) ==
    [t |-> "text", charset |-> charset, max |-> max, unit |-> unit]

-----------------------------------------------------------------------------
(* MySQL.                                                                  *)

MySqlInts == [tinyint |-> 8, bool |-> 8, smallint |-> 16, mediumint |-> 24,
              int |-> 32, bigint |-> 64]
MySqlTexts == [tinytext |-> 255, text |-> 65535, mediumtext |-> 16777215,
               longtext |-> LongLength]
MySqlBlobs == [tinyblob |-> 255, blob |-> 65535, mediumblob |-> 16777215,
               longblob |-> LongLength]
MySqlTemporals == [datetime |-> "local_datetime", timestamp |-> "instant",
                   time |-> "duration"]
MySqlShapes == {"geometry", "point", "linestring", "polygon", "multipoint",
                "multilinestring", "multipolygon", "geometrycollection", "geomcollection"}

\* FLOAT(p) is a binary32 up to 23 bits of precision, a binary64 above.
MySqlFloatBits(d) == IF Len(d.args) = 1 /\ d.args[1] > 23 THEN 64 ELSE 32

MySqlShapeValid(d) ==
    /\ d.unsigned => d.base \in DOMAIN MySqlInts \cup {"decimal", "float", "double"}
    /\ d.srid # None => d.base \in MySqlShapes
    /\ CASE d.base \in DOMAIN MySqlInts -> Len(d.args) <= 1
         [] d.base = "decimal" ->
               /\ Len(d.args) <= 2
               /\ Arg(d, 1, 10) \in 1..65
               /\ Arg(d, 2, 0) <= 30 /\ Arg(d, 2, 0) <= Arg(d, 1, 10)
         [] d.base = "float" ->
               /\ Len(d.args) <= 2
               /\ Len(d.args) = 1 => d.args[1] <= 53
               /\ Len(d.args) = 2 => d.args[1] \in 1..255 /\ d.args[2] <= 30 /\ d.args[2] <= d.args[1]
         [] d.base = "double" ->
               \/ d.args = << >>
               \/ Len(d.args) = 2 /\ d.args[1] \in 1..255 /\ d.args[2] <= 30 /\ d.args[2] <= d.args[1]
         [] d.base \in {"char", "binary"} -> Len(d.args) <= 1 /\ Arg(d, 1, 1) \in 1..255
         [] d.base \in {"varchar", "varbinary"} -> Len(d.args) = 1 /\ d.args[1] \in 1..65535
         [] d.base = "bit" -> Len(d.args) <= 1 /\ Arg(d, 1, 1) \in 1..64
         [] d.base \in DOMAIN MySqlTemporals -> Len(d.args) <= 1 /\ Arg(d, 1, 0) <= 6
         [] d.base = "year" -> Len(d.args) <= 1 /\ Arg(d, 1, 4) = 4
         [] d.base \in {"enum", "set"} -> LabelsWellFormed(d.labels)
         [] d.base \in DOMAIN MySqlTexts \cup DOMAIN MySqlBlobs \cup MySqlShapes
                       \cup {"date", "json"} -> d.args = << >>
         [] OTHER -> FALSE

\* The subtype of a spatial declaration, two dimensions, the SRID if declared.
MySqlSpatial(d) ==
    IF d.base = "geometry"
    THEN [t |-> "spatial", subtype |-> "*", srid |-> d.srid, dims |-> 0]
    ELSE [t |-> "spatial",
          subtype |-> IF d.base = "geomcollection" THEN "geometrycollection" ELSE d.base,
          srid |-> d.srid, dims |-> 2]

\* Text without a character set from the catalog is refused.
MySqlType(d, charset) ==
    CASE ~ MySqlShapeValid(d) -> NoType
      [] d.base \in DOMAIN MySqlInts ->
            [t |-> "integer", signed |-> ~ d.unsigned, bits |-> MySqlInts[d.base]]
      [] d.base = "decimal" ->
            [t |-> "decimal", precision |-> Arg(d, 1, 10), scale |-> Arg(d, 2, 0)]
      [] d.base = "float" -> [t |-> "float", bits |-> MySqlFloatBits(d)]
      [] d.base = "double" -> [t |-> "float", bits |-> 64]
      [] d.base \in {"char", "varchar"} ->
            IF charset = "" THEN NoType ELSE Text(charset, Arg(d, 1, 1), "characters")
      [] d.base \in DOMAIN MySqlTexts ->
            IF charset = "" THEN NoType ELSE Text(charset, MySqlTexts[d.base], "bytes")
      [] d.base \in {"binary", "varbinary"} -> [t |-> "binary", max |-> Arg(d, 1, 1)]
      [] d.base \in DOMAIN MySqlBlobs -> [t |-> "binary", max |-> MySqlBlobs[d.base]]
      [] d.base = "bit" -> [t |-> "bit_string", length |-> Arg(d, 1, 1)]
      [] d.base \in DOMAIN MySqlTemporals ->
            [t |-> MySqlTemporals[d.base], fp |-> Arg(d, 1, 0)]
      [] d.base \in {"date", "year"} -> [t |-> d.base]
      [] d.base = "json" -> Json(TRUE)
      [] d.base \in MySqlShapes -> MySqlSpatial(d)
      [] d.base \in {"enum", "set"} -> [t |-> d.base, labels |-> d.labels]

-----------------------------------------------------------------------------
(* MySQL's wire encodings of members and geometries.                       *)

\* The binlog numbers ENUM labels from one and packs a SET into a bit mask.
\* << >> stands for the refusal of a number the declaration does not know.
MySqlOrdinal(t, n) ==
    CASE t.t = "enum" ->
            IF n \in 1..Len(t.labels) THEN <<[v |-> "enum", label |-> t.labels[n]]>> ELSE << >>
      [] t.t = "set" ->
            LET bit(i) == (n \div 2 ^ (i - 1)) % 2
            IN IF n >= 2 ^ Len(t.labels) THEN << >>
               ELSE <<[v |-> "set",
                       labels |-> FoldLeftDomain(
                          LAMBDA chosen, i : IF bit(i) = 1 THEN Append(chosen, t.labels[i])
                                             ELSE chosen,
                          << >>, t.labels)]>>

\* A SET value is the little-endian number its bytes spell.
MySqlSetMask(t, bytes) ==
    MySqlOrdinal(t, SumOf([i \in 1..Len(bytes) |-> bytes[i] * 2 ^ (8 * (i - 1))]))

\* The column's own SRID and header must agree with the declaration; MySQL
\* never sends EWKB.
MySqlGeometry(t, w) ==
    IF /\ t.srid \in {None, w.srid}
       /\ ~ w.ewkb /\ w.type # "unknown"
       /\ t.subtype \in {"*", w.type}
       /\ t.dims \in {0, w.dims}
    THEN <<[v |-> "spatial", format |-> "wkb", subtype |-> w.type, dims |-> w.dims,
            srid |-> w.srid, crs |-> "srid", wireType |-> w.type, wireDims |-> w.dims,
            wireSrid |-> None]>>
    ELSE << >>

-----------------------------------------------------------------------------
(* PostgreSQL's built-in types.                                            *)

PgInts == [smallint |-> 16, integer |-> 32, bigint |-> 64]
PgTexts == {"text", "varchar", "char", "name"}
PgTemporals == [time |-> "local_time", timetz |-> "offset_time",
                timestamp |-> "local_datetime", timestamptz |-> "instant",
                interval |-> "calendar_interval"]

\* Types of the catalog whose text depends on the server's locale or on code the
\* adapter does not have.
PgOpaque == {"money"}

\* Without a precision a numeric is unbounded; the scale may be negative.
PgNumeric(d) ==
    IF d.args = << >> THEN [t |-> "decimal_unbounded"]
    ELSE IF d.args[1] \in 1..1000 /\ Arg(d, 2, 0) \in -1000..1000
    THEN [t |-> "decimal", precision |-> d.args[1], scale |-> Arg(d, 2, 0)]
    ELSE NoType

\* Every time keeps six digits unless the declaration says fewer.
PgTemporal(d) ==
    IF Arg(d, 1, 6) <= 6 THEN [t |-> PgTemporals[d.base], fp |-> Arg(d, 1, 6)] ELSE NoType

PgSpatial(d) ==
    IF d.srid >= 0 THEN [t |-> "spatial", subtype |-> d.labels[1], srid |-> d.srid,
                         dims |-> Arg(d, 1, 2)]
    ELSE NoType

\* What the catalog, which has its integers, makes of some types of theirs.
Int32 == [t |-> "integer", signed |-> TRUE, bits |-> 32]
ArrayOf(elem) == [t |-> "array", elem |-> elem, dims |-> None, bounds |-> << >>]
Containing(kind, elem) == [t |-> kind, elem |-> elem]

PgType(d) ==
    CASE d.base \in {"boolean", "uuid", "date", "xml"} -> [t |-> d.base]
      [] d.base \in {"json", "jsonb"} -> Json(d.base = "jsonb")
      [] d.base \in DOMAIN PgInts ->
            [t |-> "integer", signed |-> TRUE, bits |-> PgInts[d.base]]
      [] d.base = "oid" -> [t |-> "integer", signed |-> FALSE, bits |-> 32]
      [] d.base = "real" -> [t |-> "float", bits |-> 32]
      [] d.base = "double precision" -> [t |-> "float", bits |-> 64]
      [] d.base \in PgTexts -> Text("UTF8", Arg(d, 1, None), "characters")
      [] d.base = "bytea" -> [t |-> "binary", max |-> None]
      [] d.base = "bit" ->
            IF Arg(d, 1, 1) \in 1..10000000
            THEN [t |-> "bit_string", length |-> Arg(d, 1, 1)] ELSE NoType
      [] d.base = "varbit" ->
            IF Arg(d, 1, 1) \in 1..10000000
            THEN [t |-> "variable_bit_string", max |-> Arg(d, 1, None)] ELSE NoType
      [] d.base \in DOMAIN PgTemporals -> PgTemporal(d)
      [] d.base = "numeric" -> PgNumeric(d)
      [] d.base \in {"inet", "cidr"} ->
            [t |-> "network", family |-> "ip", cidr |-> d.base = "cidr"]
      [] d.base = "geometry" -> PgSpatial(d)
      [] d.base = "integer[]" -> ArrayOf(Int32)
      [] d.base = "int4range" -> Containing("range", Int32)
      [] d.base = "int4multirange" -> Containing("multi_range", Int32)
      [] d.base = "enum" -> IF LabelsWellFormed(d.labels)
                            THEN [t |-> "enum", labels |-> d.labels] ELSE NoType
      [] d.base \in PgOpaque ->
            [t |-> "raw", native |-> d.base, codec |-> "text-envelope", digest |-> d.base]
      [] OTHER -> NoType

-----------------------------------------------------------------------------
ColumnType(column) ==
    IF column.connector = "mysql" THEN MySqlType(column.decl, column.charset)
    ELSE PgType(column.decl)

\* How the source lays out the bits of a BIT value.
BitOrderOf(connector) == IF connector = "mysql" THEN "lsb_first" ELSE "msb_first"
BitPaddingOf(t) ==
    IF t.t = "variable_bit_string" THEN "variable"
    ELSE IF t.length % 8 = 0 THEN "none" ELSE "zero"
=============================================================================
