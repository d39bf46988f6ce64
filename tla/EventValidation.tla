-------------------------- MODULE EventValidation --------------------------
(***************************************************************************)
(* The gate every transaction passes before a sink sees it                 *)
(* (change_event/src/validate.rs): which values are well formed and which  *)
(* images of a row belong together.  What only concerns the spelling of a  *)
(* number, a name or an encoding has no counterpart in the model's data.   *)
(***************************************************************************)
EXTENDS ValueConversion

\* The proleptic Gregorian calendar, years before 1 included.
LeapYear(year) == year % 4 = 0 /\ (year % 100 # 0 \/ year % 400 = 0)
DaysInMonth(year, month) ==
    CASE month \in {1, 3, 5, 7, 8, 10, 12} -> 31
      [] month \in {4, 6, 9, 11} -> 30
      [] month = 2 -> IF LeapYear(year) THEN 29 ELSE 28
      [] OTHER -> 0

ValidDate(d) == d.day \in 1..DaysInMonth(d.year, d.month)

\* PostgreSQL's 24:00:00 is a time of day of its own.
ValidTime(v) ==
    /\ v.second < 86400 \/ (v.second = 86400 /\ v.micro = 0)
    /\ v.micro < 1000000

ValidBits(v) ==
    /\ v.length > 0
    /\ Len(v.bytes) = ByteCount(v.length)
    /\ (v.length % 8 = 0) = (v.padding = "none")
    /\ \A i \in PaddingPositions(v.length) :
          BitAt(v.order, v.bytes, i) = (IF v.padding = "one" THEN 1 ELSE 0)

\* What the header of the wire form says is what the value says.
ValidSpatial(v) ==
    /\ v.dims \in 2..4
    /\ v.subtype # ""
    /\ v.wireType # "unknown" /\ v.wireType = v.subtype
    /\ v.wireDims = v.dims
    /\ (v.format = "ewkb") = (v.wireSrid # None)
    /\ v.format = "ewkb" => v.wireSrid = v.srid

ValidScalar(v) ==
    CASE v.v = "integer" -> v.bits \in Widths /\ IntFits(v.n, v.signed, v.bits)
      [] v.v = "decimal" -> v.special # "" => v.scale = 0
      [] v.v = "float" -> v.bits \in {32, 64}
      [] v.v = "text" -> v.charset \notin {"", "utf-8", "iso-8859-1"}
      [] v.v = "bit_string" -> ValidBits(v)
      [] v.v = "date" -> ValidDate(v)
      [] v.v = "local_datetime" -> ValidDate(v) /\ ValidTime(v)
      [] v.v \in {"local_time", "offset_time"} -> ValidTime(v)
      [] v.v = "enum" -> v.label # ""
      [] v.v = "set" -> IsInjective(v.labels)
      [] v.v = "spatial" -> ValidSpatial(v)
      [] v.v = "network" -> v.family # "" /\ v.prefix <= 128
      [] v.v = "raw" -> v.reversible
      [] v.v = "json" -> IsInjective(v.keys)
      [] OTHER -> TRUE

ValidLogicalValue(v) == Throughout(ValidScalar, ValueParts, v) /\ WellNested(v)

ValidDatum(d) ==
    CASE d.v \in {"null", "unchanged", "unavailable"} -> TRUE
      [] d.v = "envelope" -> d.intact
      [] OTHER -> ValidLogicalValue(d)

-----------------------------------------------------------------------------
(* Images.  A column of an image is a record: name, native, key (0, or its *)
(* position in the primary key), generated, collation and datum.           *)

\* The key is a value, generated by nobody; what the source leaves out is left
\* out of a before image (unavailable) or kept by an update (unchanged).
ValidImage(row, operation, before) ==
    /\ row # << >>
    /\ \A i, j \in DOMAIN row : row[i].name = row[j].name => i = j
    /\ \A i, j \in DOMAIN row : row[i].key = row[j].key /\ row[i].key # 0 => i = j
    /\ LET keys == {row[i].key : i \in DOMAIN row} \ {0} IN keys = 1..Cardinality(keys)
    /\ \A i \in DOMAIN row :
          /\ row[i].key # 0 =>
                /\ row[i].datum.v \notin {"null", "unchanged", "unavailable", "envelope"}
                /\ ~ row[i].generated
          /\ row[i].datum.v = "unavailable" => before /\ operation # "insert"
          /\ row[i].datum.v = "unchanged" => ~ before /\ operation = "update"
          /\ ValidDatum(row[i].datum)

SameColumns(before, after) ==
    /\ Len(before) = Len(after)
    /\ \A i \in DOMAIN before :
          [before[i] EXCEPT !.datum = ""] = [after[i] EXCEPT !.datum = ""]

\* An image the operation does not have is << >>.
ValidChange(change) ==
    /\ (change.before = << >>) = (change.operation = "insert")
    /\ (change.after = << >>) = (change.operation = "delete")
    /\ change.before # << >> => ValidImage(change.before, change.operation, TRUE)
    /\ change.after # << >> => ValidImage(change.after, change.operation, FALSE)
    /\ change.operation = "update" => SameColumns(change.before, change.after)

ValidTransaction(changes) ==
    changes # << >> /\ \A i \in DOMAIN changes : ValidChange(changes[i])
=============================================================================
