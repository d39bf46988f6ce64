-------------------------- MODULE ValueConversion --------------------------
(***************************************************************************)
(* What a saved ColumnConversionPlan does to one value on its way to the   *)
(* sink (change_event/src/compatibility.rs): validate_value_against_plan   *)
(* decides whether the value is inside the domain the plan was approved    *)
(* for, convert_value_with_plan rewrites it.  A plan is a record:          *)
(*   qual      the qualification, "exact", "range" or "explicit"           *)
(*   range     the range rule that checks values, "" if none               *)
(*   kind      conversion_kind, "" if the value goes through as it is      *)
(*   strategy  value_strategy, used when there is no kind                  *)
(*   source    the source LogicalType                                      *)
(*   p         the parameters of the plan and of its target, a record      *)
(*             whose fields depend on range and kind                       *)
(* The failures of missing or malformed parameters guard against plans     *)
(* that no planner of this build writes and are left out.                  *)
(***************************************************************************)
EXTENDS LogicalValues

-----------------------------------------------------------------------------
(* Numbers.                                                                *)

\* NaN and the infinities go only where the plan lists them.
SpecialAccepted(plan, v) == v.special \in plan.p.specials

ValidateInteger(plan, v) ==
    /\ v.v = "integer"
    /\ v.signed = plan.source.signed
    /\ v.bits = plan.source.bits
    /\ IntFits(v.n, plan.p.signed, plan.p.bits)

\* Mutant: the digits before the point are compared with the whole precision.
ValidateDecimalPrecision(plan, v) ==
    /\ v.v = "decimal"
    /\ \/ v.special # "" /\ SpecialAccepted(plan, v)
       \/ /\ v.special = ""
          /\ v.scale > plan.p.scale => Abs(v.coef) % Ten(v.scale - plan.p.scale) = 0
          /\ IntegerDigits(v.coef, v.scale) <= plan.p.precision

\* A smaller target scale is accepted when the digits it drops are zeros.
ValidateDecimal(plan, v) ==
    /\ v.v = "decimal"
    /\ \/ v.scale = plan.source.scale
       \/ plan.source.scale < 0 /\ v.scale = 0
       \/ v.special = "NaN"
    /\ \/ v.special # "" /\ SpecialAccepted(plan, v)
       \/ /\ v.special = ""
          /\ v.scale > plan.p.scale => Abs(v.coef) % Ten(v.scale - plan.p.scale) = 0
          /\ IntegerDigits(v.coef, v.scale)
                <= (IF plan.p.precision > plan.p.scale
                    THEN plan.p.precision - plan.p.scale ELSE 0)

\* Only binary64 into binary32, and only the values binary32 holds exactly.
ValidateFloat(plan, v) ==
    /\ v.v = "float"
    /\ v.bits = plan.source.bits
    /\ plan.source.bits = 64 /\ plan.p.bits = 32
    /\ v.class = "finite" /\ v.single

-----------------------------------------------------------------------------
(* Bytes and bits.                                                         *)

ValidateBinary(plan, v) ==
    /\ v.v = "binary"
    /\ plan.p.length # None =>
          /\ Len(v.bytes) <= plan.p.length
          /\ plan.p.fixed /\ plan.p.padding = "none" => Len(v.bytes) >= plan.p.length
    /\ plan.p.sourceLength # None =>
          IF plan.p.sourceFixed THEN Len(v.bytes) = plan.p.sourceLength
          ELSE Len(v.bytes) <= plan.p.sourceLength

\* A fixed target is filled up with the padding byte.
ConvertBinary(plan, v) ==
    IF plan.p.fixed /\ plan.p.length # None
    THEN [v EXCEPT !.bytes =
            [i \in 1..plan.p.length |->
                IF i <= Len(v.bytes) THEN v.bytes[i]
                ELSE IF plan.p.padding = "one" THEN 255 ELSE 0]]
    ELSE v

\* The weight of bit number "position" in its byte.
BitMask(order, position) ==
    IF order = "msb_first" THEN <<128, 64, 32, 16, 8, 4, 2, 1>>[(position % 8) + 1]
    ELSE <<1, 2, 4, 8, 16, 32, 64, 128>>[(position % 8) + 1]

BitAt(order, bytes, position) ==
    (bytes[position \div 8 + 1] \div BitMask(order, position)) % 2

ByteCount(length) == (length + 7) \div 8
PaddingPositions(length) == length..(8 * ByteCount(length) - 1)

ValidateBitString(plan, v) ==
    /\ v.v = "bit_string"
    /\ v.length = plan.p.sourceLength
    /\ v.order = plan.p.sourceOrder
    /\ v.padding = plan.p.sourcePadding
    /\ Len(v.bytes) = ByteCount(v.length)
    /\ v.length % 8 = 0 => v.padding = "none"
    /\ \A i \in PaddingPositions(v.length) :
          BitAt(v.order, v.bytes, i) = (IF v.padding = "one" THEN 1 ELSE 0)

\* The byte whose bits, by their numbers, are b0 to b7.
PackedByte(order, b0, b1, b2, b3, b4, b5, b6, b7) ==
    b0 * BitMask(order, 0) + b1 * BitMask(order, 1) + b2 * BitMask(order, 2)
    + b3 * BitMask(order, 3) + b4 * BitMask(order, 4) + b5 * BitMask(order, 5)
    + b6 * BitMask(order, 6) + b7 * BitMask(order, 7)

\* Mutant: only the whole bytes are copied.
ConvertWholeBytes(plan, v) ==
    LET bit(k, i) == BitAt(v.order, v.bytes, 8 * (k - 1) + i)
        byte(k) == IF 8 * k > v.length THEN 0
                   ELSE PackedByte(plan.p.order, bit(k, 0), bit(k, 1), bit(k, 2), bit(k, 3),
                                   bit(k, 4), bit(k, 5), bit(k, 6), bit(k, 7))
    IN [v EXCEPT !.bytes = [k \in 1..Len(v.bytes) |-> byte(k)],
                 !.order = plan.p.order,
                 !.padding = plan.p.padding]

ConvertBitString(plan, v) ==
    LET bit(k, i) == IF 8 * (k - 1) + i < v.length
                     THEN BitAt(v.order, v.bytes, 8 * (k - 1) + i)
                     ELSE IF plan.p.padding = "one" THEN 1 ELSE 0
        byte(k) == PackedByte(plan.p.order, bit(k, 0), bit(k, 1), bit(k, 2), bit(k, 3),
                              bit(k, 4), bit(k, 5), bit(k, 6), bit(k, 7))
    IN [v EXCEPT !.bytes = [k \in 1..Len(v.bytes) |-> byte(k)],
                 !.order = plan.p.order,
                 !.padding = plan.p.padding]

-----------------------------------------------------------------------------
(* Text, JSON and members.                                                 *)

TextFits(plan, charset, text) ==
    /\ Decodable(charset, text)
    /\ Encodable(plan.p.charset, text.chars)
    /\ plan.p.length # None =>
          (IF plan.p.unit = "bytes" THEN EncodedLength(plan.p.charset, text.chars)
           ELSE Len(text.chars)) <= plan.p.length

ValidateText(plan, v) == v.v = "text" /\ TextFits(plan, v.charset, v)

ConvertText(plan, v) == [v EXCEPT !.charset = plan.p.charset, !.known = TRUE]

\* Rendering fails on a number JSON text cannot spell and on a repeated key;
\* raw_text is refused because the event does not keep the source's spelling.
\* The target's length is not looked at.
ValidateJson(plan, v) ==
    /\ v.v = "json"
    /\ plan.p.jsonStrategy = "normalized_text" => v.finite /\ IsInjective(v.keys)
    /\ plan.p.jsonStrategy # "raw_text"

\* The rendering sorts the keys; the text is refused when the target's charset
\* cannot hold it.
JsonConverts(plan, v) ==
    /\ plan.p.jsonStrategy = "normalized_text"
    /\ Encodable(plan.p.charset, v.chars)

ConvertJson(plan, v) ==
    [v |-> "text", charset |-> plan.p.charset, chars |-> v.chars, known |-> TRUE]

\* The members, in the order of the labels.
InOrderOf(labels, members) ==
    LET taken[i \in 0..Len(labels)] ==
            IF i = 0 THEN << >>
            ELSE IF labels[i] \in members THEN Append(taken[i - 1], labels[i])
            ELSE taken[i - 1]
    IN taken[Len(labels)]

ValidateMembers(plan, v) ==
    \/ v.v = "enum" /\ v.label \in Range(plan.p.labels)
    \/ /\ v.v = "set"
       /\ IsInjective(v.labels)
       /\ Range(v.labels) \subseteq Range(plan.p.labels)

\* A SET is rewritten in the order of the target's declaration.
ConvertMembers(plan, v) ==
    IF v.v = "enum" THEN v
    ELSE [v EXCEPT !.labels = InOrderOf(plan.p.labels, Range(v.labels))]

-----------------------------------------------------------------------------
(* Dates and times.  An instant is a day number, the second of that day    *)
(* and nanoseconds; a zone is its offset in seconds.                       *)

ValidateTemporal(plan, v) ==
    /\ v.v = plan.p.sourceKind
    /\ plan.p.sourceKind \in {"local_datetime", "instant", "duration"}
    /\ IF v.v = "instant" THEN NanosecondsMatch(v.nano, plan.p.precision)
       ELSE MicrosecondsMatch(v.micro, plan.p.precision)
    /\ plan.p.sourceKind # plan.p.targetKind =>
          {plan.p.sourceKind, plan.p.targetKind} = {"local_datetime", "instant"}

\* Mutant: the zone is not carried into the day.
ConvertTemporalSameDay(plan, v) ==
    CASE plan.p.sourceKind = plan.p.targetKind -> v
      [] plan.p.targetKind = "instant" ->
            [v |-> "instant", day |-> DaysFromCivil(v.year, v.month, v.day),
             second |-> (v.second - plan.p.zone) % 86400, nano |-> v.micro * 1000]
      [] plan.p.targetKind = "local_datetime" ->
            LET date == CivilFromDays(v.day)
            IN [v |-> "local_datetime", year |-> date.year, month |-> date.month,
                day |-> date.day, second |-> (v.second + plan.p.zone) % 86400,
                micro |-> v.nano \div 1000]

ConvertTemporal(plan, v) ==
    CASE plan.p.sourceKind = plan.p.targetKind -> v
      [] plan.p.targetKind = "instant" ->
            LET seconds == v.second - plan.p.zone
            IN [v |-> "instant",
                day |-> DaysFromCivil(v.year, v.month, v.day) + seconds \div 86400,
                second |-> seconds % 86400,
                nano |-> v.micro * 1000]
      [] plan.p.targetKind = "local_datetime" ->
            LET seconds == v.second + plan.p.zone
                date == CivilFromDays(v.day + seconds \div 86400)
            IN [v |-> "local_datetime", year |-> date.year, month |-> date.month,
                day |-> date.day, second |-> seconds % 86400, micro |-> v.nano \div 1000]

-----------------------------------------------------------------------------
(* Geometries and nested values go through as they are.                    *)

\* The header of the wire form, read back, must say what the value says.
SpatialWire(v, format, subtype, dims) ==
    /\ v.wireType # "unknown"
    /\ subtype \in {"*", v.wireType}
    /\ dims \in {0, v.wireDims}
    /\ (format = "ewkb") = (v.wireSrid # None)
    /\ v.wireSrid = (IF format = "ewkb" THEN v.srid ELSE None)

ValidateSpatial(plan, v) ==
    /\ v.v = "spatial"
    /\ v.format = plan.p.format /\ v.format = plan.p.sourceFormat
    /\ plan.p.subtype \in {"*", v.subtype} /\ plan.source.subtype \in {"*", v.subtype}
    /\ plan.p.dims \in {0, v.dims} /\ plan.source.dims \in {0, v.dims}
    /\ plan.p.srid \in {None, v.srid} /\ plan.source.srid \in {None, v.srid}
    /\ plan.p.crs \in {"", v.crs} /\ plan.p.sourceCrs \in {"", v.crs}
    /\ SpatialWire(v, plan.p.format, plan.p.subtype, plan.p.dims)

\* An Exact plan is refused again at the row when one side is geodetic and the
\* other planar.
GeodeticMismatch(plan, native) ==
    plan.qual = "exact" /\ plan.kind = "spatial"
        /\ (native = "geography") # (plan.p.native = "geography")

Times(a, b) == a * b

\* What a value is asked to be before its parts are looked at.
WellFormed(v) ==
    /\ v.v = "array" =>
          CASE v.dims = None -> TRUE
            [] v.dims = 0 -> v.elems = << >> /\ v.bounds = << >> /\ v.lens = << >>
            [] OTHER -> /\ v.dims = Len(v.bounds)
                        /\ v.lens # << >> =>
                              /\ v.dims = Len(v.lens)
                              /\ Len(v.elems) = FoldLeft(Times, 1, v.lens)
    /\ v.v = "struct" =>
          /\ \A i \in DOMAIN v.fields : v.fields[i].name # ""
          /\ \A i, j \in DOMAIN v.fields : v.fields[i].name = v.fields[j].name => i = j
    /\ v.v = "map" =>
          \A i, j \in DOMAIN v.entries : v.entries[i].key = v.entries[j].key => i = j
    /\ v.v = "range" /\ v.empty => v.bounds = {}
    /\ v.v = "multi_range" => \A i \in DOMAIN v.elems : v.elems[i].v = "range"

WellNested(v) == Throughout(WellFormed, ValueParts, v)

ValidateRecursive(plan, v) ==
    /\ v.v \in {"array", "struct", "map", "range", "multi_range"}
    /\ v.v = plan.p.recursiveKind
    /\ WellNested(v)

-----------------------------------------------------------------------------
(* Carriers: a value kept as tagged JSON, or the bytes of the source's     *)
(* protocol kept with the evidence of where they come from.                *)

\* The part of the tagged JSON that grows with the value.
CarrierSize(v) ==
    CASE v.v \in {"text", "json"} -> Utf8Length(v.chars)
      [] v.v = "binary" -> Len(v.bytes)
      [] OTHER -> 0

ValidateCarrier(plan, v) ==
    /\ MatchesValue(plan.source, v)
    /\ plan.p.capacity # None => CarrierSize(v) <= plan.p.capacity

\* metadata maps every key the source sent to its value; the plan knows the
\* values that define the type and the names of those that vary by row.
ValidateEnvelope(plan, e) ==
    /\ plan.kind = "source_representation"
    /\ e.intact
    /\ plan.p.capacity # None => e.size <= plan.p.capacity
    /\ e.connector = plan.p.connector /\ e.build = plan.p.build
    /\ e.identity = plan.p.identity
    /\ e.protocol = plan.p.protocol /\ e.format = plan.p.format
    /\ \A k \in DOMAIN plan.p.metadata :
          k \in DOMAIN e.metadata /\ e.metadata[k] = plan.p.metadata[k]
    /\ DOMAIN e.metadata = DOMAIN plan.p.metadata \cup plan.p.contextKeys
    /\ e.digest = plan.p.digest
    /\ e.encoding = plan.p.encoding

-----------------------------------------------------------------------------
(* The dispatch.                                                           *)

ValidateByKind(plan, v) ==
    CASE plan.kind = "binary" -> ValidateBinary(plan, v)
      [] plan.kind = "bit_string" -> ValidateBitString(plan, v)
      [] plan.kind = "spatial" -> ValidateSpatial(plan, v)
      [] plan.kind = "recursive" -> ValidateRecursive(plan, v)
      [] plan.kind = "text" -> ValidateText(plan, v)
      [] plan.kind = "json" -> ValidateJson(plan, v)
      [] plan.kind \in {"enum", "set"} -> ValidateMembers(plan, v)
      [] plan.kind = "temporal" -> ValidateTemporal(plan, v)
      [] plan.kind = "" /\ plan.strategy = "structured_json" -> v.v = "json"
      [] plan.kind = "" /\ plan.strategy \in {"enum_label", "set_members"} ->
            ValidateMembers(plan, v)
      [] plan.kind = "" /\ plan.strategy = "" -> TRUE
      [] OTHER -> FALSE

ValidateValue(plan, v) ==
    CASE plan.kind = "logical_value_json" -> ValidateCarrier(plan, v)
      [] plan.kind = "source_representation" -> FALSE
      [] plan.range = "integer" -> ValidateInteger(plan, v)
      [] plan.range = "decimal" -> ValidateDecimal(plan, v)
      [] v.v = "decimal" /\ v.special # "" -> SpecialAccepted(plan, v)
      [] plan.range = "float" -> ValidateFloat(plan, v)
      [] OTHER -> ValidateByKind(plan, v)

\* A datum that is no value is accepted: NULL, an unchanged column, one the
\* source did not send.
ValidateDatum(plan, d) ==
    CASE d.v \in {"null", "unchanged", "unavailable"} -> TRUE
      [] d.v = "envelope" -> ValidateEnvelope(plan, d)
      [] OTHER -> ValidateValue(plan, d)

Converts(plan, d) == plan.kind = "json" /\ d.v = "json" => JsonConverts(plan, d)

ConvertValue(plan, v) ==
    CASE plan.kind = "binary" -> ConvertBinary(plan, v)
      [] plan.kind = "bit_string" -> ConvertBitString(plan, v)
      [] plan.kind = "text" -> ConvertText(plan, v)
      [] plan.kind = "json" -> ConvertJson(plan, v)
      [] \/ plan.kind \in {"enum", "set"}
         \/ plan.kind = "" /\ plan.strategy \in {"enum_label", "set_members"} ->
            ConvertMembers(plan, v)
      [] plan.kind = "temporal" -> ConvertTemporal(plan, v)
      [] OTHER -> v

\* A generated column and a datum that carries no value are left alone.
ConvertDatum(plan, d, generated) ==
    IF generated \/ d.v \in {"null", "unchanged", "unavailable", "envelope"} THEN d
    ELSE ConvertValue(plan, d)
=============================================================================
