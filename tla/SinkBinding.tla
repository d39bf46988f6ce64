---------------------------- MODULE SinkBinding ----------------------------
(***************************************************************************)
(* What a sink's own renderer accepts of a converted datum, as a parameter *)
(* of the statement it writes (mysql_8_0/src/sql.rs,                       *)
(* postgresql_15/src/sql.rs).  A value outside is a Target Capability      *)
(* Failure: the transaction is not written.                                *)
(***************************************************************************)
EXTENDS EventValidation

Carriers == {"logical_value_json", "source_representation"}
Absent == {"unavailable", "unchanged"}

\* A stored plan is looked at again before anything is written under it.
MySqlPlanHeader(plan) ==
    /\ plan.targetField.connector = "mysql"
    /\ plan.qual # "unsupported"
    /\ plan.confirmation # "required"

\* A carrier is a text or a bytea of a known size, and never a key.
PgPlanHeader(plan) ==
    /\ plan.targetField.connector = "postgresql"
    /\ plan.qual # "unsupported"
    /\ plan.confirmation # "required"
    /\ plan.kind \in Carriers =>
          /\ plan.targetField.decl.base = (IF plan.kind = "logical_value_json"
                                           THEN "text" ELSE "bytea")
          /\ plan.p.capacity \in 1..1073741823
          /\ plan.sourceField.key = 0

-----------------------------------------------------------------------------
(* MySQL 8.0.                                                              *)

\* The driver takes a year as an unsigned 16-bit number.
MySqlYear(year) == year \in 0..65535

\* An instant is turned into a civil date in UTC.
MySqlInstant(v) ==
    /\ v.nano % 1000 = 0
    /\ CivilFromDays(v.day).year \in 1..65535

MySqlSpatialValue(v) == v.v = "spatial" /\ v.format = "wkb" /\ v.srid >= 0

MySqlInvalidTemporal(v) == v.kind \in {"date", "local_datetime", "instant"}

BindLogicalValue(v) ==
    CASE v.v = "decimal" -> v.special = "" /\ v.scale \in 0..30 /\ DigitCount(v.coef) <= 65
      [] v.v = "float" -> v.bits \in {32, 64} /\ v.class = "finite"
      [] v.v = "text" -> Lower(v.charset) \in {"utf8", "utf8mb4"}
      [] v.v \in {"date", "local_datetime"} -> MySqlYear(v.year)
      [] v.v = "instant" -> MySqlInstant(v)
      [] v.v = "year" -> v.n >= 0
      [] v.v = "invalid_temporal" -> MySqlInvalidTemporal(v)
      [] v.v = "json" -> v.finite
      [] OTHER -> v.v \in {"boolean", "uuid", "integer", "binary", "bit_string",
                           "local_time", "duration", "enum", "set"}

\* A boolean and a UUID come from columns of those types and are no keys.
SourceValueType(native, v, key) ==
    v.v \in {"boolean", "uuid"} => native = v.v /\ key = 0

\* The same value is written with the plan's own rule where it has one.
MySqlBindsWithPlan(plan, v) ==
    CASE v.v = "envelope" -> plan.kind = "source_representation" /\ ValidateEnvelope(plan, v)
      [] plan.kind \in {"recursive", "logical_value_json"} -> ValidateValue(plan, v)
      [] v.v = "text" -> v.charset \notin {"", "utf-8", "iso-8859-1"}
      [] plan.kind = "spatial" -> MySqlSpatialValue(v)
      [] OTHER -> BindLogicalValue(v)

MySqlSupports(plan, column, v) ==
    \/ column.generated \/ v.v \in Absent \cup {"null"}
    \/ /\ \/ plan.kind \in Carriers \cup {"recursive", "spatial"}
          \/ v.v \in {"envelope", "text"}
          \/ SourceValueType(column.decl.base, v, column.key)
       /\ MySqlBindsWithPlan(plan, v)

-----------------------------------------------------------------------------
(* PostgreSQL 15.                                                          *)

PostgisKind(native) == IF native \in {"geometry", "geography"} THEN native ELSE "none"

\* A numeric's digits are bounded far above what the model reaches.
PgDecimal(v) == v.special # "" => v.scale = 0

PgUtf8(v) == Lower(v.charset) \in {"utf8", "utf8mb4"} /\ v.known

\* Inside an array or a composite some values have no literal.
PgLiteral(v) ==
    CASE v.v = "text" -> PgUtf8(v)
      [] v.v = "decimal" -> PgDecimal(v)
      [] v.v = "json" -> v.finite
      [] v.v = "array" -> \/ v.dims \in {None, 0}
                          \/ v.dims = Len(v.bounds) /\ v.dims = Len(v.lens)
      [] OTHER -> v.v \notin {"duration", "offset_time", "calendar_interval", "infinity",
                              "instant", "map", "invalid_temporal"}

PgValueInput(v) == Throughout(PgLiteral, ValueParts, v)

ParameterFor(v, native) ==
    CASE v.v = "text" -> PgUtf8(v)
      [] v.v = "decimal" -> PgDecimal(v)
      [] v.v = "bit_string" -> v.length \in 1..(8 * Len(v.bytes))
      [] v.v = "instant" -> v.nano % 1000 = 0
      [] v.v = "json" -> v.finite
      [] v.v = "spatial" -> /\ PostgisKind(native) # "none"
                            /\ v.format = "wkb" => v.srid # None
      [] v.v \in {"array", "struct", "range", "multi_range", "network", "xml", "domain"} ->
            PgValueInput(v)
      [] OTHER -> v.v \notin {"map", "null", "invalid_temporal", "offset_time",
                              "calendar_interval", "infinity"}

PgBinds(plan, v, native) ==
    CASE v.v = "envelope" -> plan.kind = "source_representation" /\ ValidateEnvelope(plan, v)
      [] plan.kind = "logical_value_json" -> ValidateValue(plan, v)
      [] OTHER -> ParameterFor(v, native)

\* A generated column must have been observed.
PgSupports(plan, column, v, native) ==
    IF v.v \in Absent THEN ~ column.generated
    ELSE v.v = "null" \/ PgBinds(plan, v, native)

\* The digits PostgreSQL is sent for a bit string, in the order that the value
\* declares (what either server then shows is BitsShown of FieldRoute).
BitText(v) == [i \in 1..v.length |-> BitAt(v.order, v.bytes, i - 1)]
=============================================================================
