--------------------------- MODULE LogicalValues ---------------------------
(***************************************************************************)
(* The types and values a ChangeEvent carries between a source and a sink  *)
(* (change_event/src/compatibility.rs).  A LogicalType is a record tagged  *)
(* by "t", a LogicalValue one tagged by "v".  A length, SRID or precision  *)
(* that the code keeps as None is None here (-1), an absent name is "".    *)
(*                                                                         *)
(* Data is reduced to what the rules tell apart: text is a sequence of     *)
(* code points (and raw bytes when the source could not decode it), a      *)
(* decimal is an integer coefficient with a scale, a float is its class    *)
(* and whether a binary32 holds it exactly, a digest is the value it is    *)
(* the digest of.                                                          *)
(***************************************************************************)
EXTENDS Integers, Sequences, FiniteSets, SequencesExt

None == -1

Widths == {8, 16, 24, 32, 64}
Temporal == {"local_time", "offset_time", "local_datetime", "instant",
             "duration", "calendar_interval"}
Nested == {"array", "struct", "map", "range", "multi_range", "domain"}
Specials == {"NaN", "Infinity", "-Infinity"}

-----------------------------------------------------------------------------
(* Numbers.                                                                *)

\* 10^n and 2^n by table, TLC's integers being 32 bits wide.
Ten(n) == <<1, 10, 100, 1000, 10000, 100000, 1000000, 10000000, 100000000,
            1000000000>>[n + 1]
Abs(n) == IF n < 0 THEN -n ELSE n

\* How many digits the coefficient has once its leading zeros are dropped.
DigitCount(c) == Cardinality({k \in 0..9 : Ten(k) <= Abs(c)})

\* How many zeros the coefficient ends with.
TrailingZeros(c) ==
    IF c = 0 THEN 0
    ELSE Cardinality({k \in 1..8 : Abs(c) % Ten(k) = 0})

\* Every integer TLC has is within 32 bits.
IntFits(n, signed, bits) ==
    IF bits >= 32 THEN signed \/ n >= 0
    ELSE IF signed THEN n \in -(2 ^ (bits - 1))..(2 ^ (bits - 1) - 1)
    ELSE n \in 0..(2 ^ bits - 1)

\* How many digits stand left of the decimal point.
IntegerDigits(c, scale) ==
    IF c = 0 THEN 0
    ELSE IF scale < 0 THEN DigitCount(c) - scale
    ELSE IF DigitCount(c) > scale THEN DigitCount(c) - scale ELSE 0

-----------------------------------------------------------------------------
(* Text.                                                                   *)

Unicode == {"utf8", "utf8mb4", "utf-8"}
EightBit == {"latin1", "iso-8859-1"}
Lower(charset) == IF charset = "UTF8" THEN "utf8" ELSE charset

\* The bytes UTF-8 spends on a code point.
Utf8Width(cp) ==
    IF cp < 128 THEN 1 ELSE IF cp < 2048 THEN 2 ELSE IF cp < 65536 THEN 3 ELSE 4

SumOf(s) == FoldLeft(+, 0, s)
Utf8Length(cps) == SumOf([i \in DOMAIN cps |-> Utf8Width(cps[i])])

Represents(charset, cp) ==
    LET c == Lower(charset) IN
    \/ c \in {"utf8", "utf-8"} /\ Utf8Width(cp) <= 3
    \/ c = "utf8mb4"
    \/ c = "ascii" /\ cp <= 127
    \/ c \in EightBit /\ cp <= 255

\* The bytes the text takes in the charset.
EncodedLength(charset, cps) ==
    IF Lower(charset) \in Unicode THEN Utf8Length(cps) ELSE Len(cps)

Encodable(charset, cps) == \A i \in DOMAIN cps : Represents(charset, cps[i])

\* Text the source decoded (known) and bytes it could only carry along.
Decodable(charset, text) ==
    LET c == Lower(charset) IN
    \/ c \in Unicode /\ text.known
    \/ c = "ascii" /\ \A i \in DOMAIN text.chars : text.chars[i] <= 127
    \/ c \in EightBit

-----------------------------------------------------------------------------
(* Dates.                                                                  *)

\* Days since 1970-01-01 of a proleptic Gregorian date.
DaysFromCivil(y0, month, day) ==
    LET year == y0 - (IF month <= 2 THEN 1 ELSE 0)
        era == year \div 400
        yearOfEra == year - era * 400
        dayOfYear == (153 * (month + (IF month > 2 THEN -3 ELSE 9)) + 2) \div 5
                     + day - 1
        dayOfEra == yearOfEra * 365 + yearOfEra \div 4 - yearOfEra \div 100
                    + dayOfYear
    IN era * 146097 + dayOfEra - 719468

CivilFromDays(days) ==
    LET z == days + 719468
        era == z \div 146097
        dayOfEra == z - era * 146097
        yearOfEra == (dayOfEra - dayOfEra \div 1460 + dayOfEra \div 36524
                      - dayOfEra \div 146096) \div 365
        dayOfYear == dayOfEra - (365 * yearOfEra + yearOfEra \div 4
                                 - yearOfEra \div 100)
        part == (5 * dayOfYear + 2) \div 153
        month == part + (IF part < 10 THEN 3 ELSE -9)
    IN [year |-> yearOfEra + era * 400 + (IF month <= 2 THEN 1 ELSE 0),
        month |-> month,
        day |-> dayOfYear - (153 * part + 2) \div 5 + 1]

MicrosecondsMatch(micro, precision) == precision <= 6 /\ micro % Ten(6 - precision) = 0
NanosecondsMatch(nano, precision) == precision <= 6 /\ nano % Ten(9 - precision) = 0

-----------------------------------------------------------------------------
(* Declarations and values are trees.                                      *)

\* How deep a value may nest; the model asks it of a declaration too.
MaxDepth == 100

\* P holds of x, of its parts, of their parts and so on, and these end.
Throughout(P(_), Parts(_), x) ==
    LET level[n \in 0..MaxDepth + 1] ==
            IF n = 0 THEN <<x>>
            ELSE LET above == level[n - 1]
                 IN FlattenSeq([i \in DOMAIN above |-> Parts(above[i])])
        bottom == CHOOSE n \in 1..MaxDepth + 1 : level[n] = << >> \/ n = MaxDepth + 1
    IN /\ level[bottom] = << >>
       /\ \A n \in 0..bottom - 1 : \A i \in DOMAIN level[n] : P(level[n][i])

TypeParts(t) ==
    CASE t.t \in {"array", "range", "multi_range", "domain"} -> <<t.elem>>
      [] t.t = "map" -> <<t.key, t.elem>>
      [] t.t = "struct" -> [i \in DOMAIN t.fields |-> t.fields[i].type]
      [] OTHER -> << >>

ValueParts(v) ==
    CASE v.v \in {"array", "multi_range"} -> v.elems
      [] v.v = "struct" -> [i \in DOMAIN v.fields |-> v.fields[i].value]
      [] v.v = "map" -> FlattenSeq([i \in DOMAIN v.entries |->
                                       <<v.entries[i].key, v.entries[i].value>>])
      [] v.v = "range" -> SetToSeq(v.bounds)
      [] v.v = "domain" -> <<v.elem>>
      [] OTHER -> << >>

-----------------------------------------------------------------------------
(* Which declarations are well formed.                                     *)

ValidDeclaration(t) ==
    /\ t.t = "integer" => t.bits \in Widths
    /\ t.t = "decimal" => t.precision # 0 /\ t.scale \in -1000..1000
    /\ t.t \in Temporal => t.fp <= 6
    /\ t.t = "float" => t.bits \in {32, 64}
    /\ t.t = "text" => t.charset # ""
    /\ t.t = "bit_string" => t.length # 0
    /\ t.t = "variable_bit_string" => t.max # 0
    /\ t.t = "spatial" =>
          /\ t.subtype # ""
          /\ t.dims \in 2..4 \/ (t.subtype = "*" /\ t.srid = None /\ t.dims = 0)
    /\ t.t = "network" => t.family # ""
    /\ t.t = "array" /\ t.dims # None => t.dims # 0 /\ t.dims = Len(t.bounds)
    /\ t.t = "struct" =>
          /\ \A i \in DOMAIN t.fields : t.fields[i].name # ""
          /\ \A i, j \in DOMAIN t.fields : t.fields[i].name = t.fields[j].name => i = j
    /\ t.t = "domain" => t.name # "" /\ t.digest # ""
    /\ t.t = "raw" => t.codec # "" /\ t.native # ""

ValidType(t) == Throughout(ValidDeclaration, TypeParts, t)

\* The families that several declarations share.
FamilyName(t) ==
    CASE t.t = "decimal_unbounded" -> "decimal"
      [] t.t = "variable_bit_string" -> "bit_string"
      [] OTHER -> t.t

-----------------------------------------------------------------------------
(* Which values belong to a type (LogicalType::matches_value).             *)

MatchesDecimal(t, v) ==
    \/ v.special = "NaN" /\ v.scale = 0
    \/ /\ v.special = ""
       /\ t.scale = v.scale \/ (t.scale < 0 /\ v.scale = 0)
       /\ LET significant == DigitCount(v.coef)
                             - (IF t.scale < 0 THEN TrailingZeros(v.coef) ELSE 0)
          IN significant <= t.precision
       /\ IntegerDigits(v.coef, v.scale)
             <= (IF t.precision > t.scale THEN t.precision - t.scale ELSE 0)
       /\ \/ t.scale >= 0 \/ v.scale # 0 \/ v.coef = 0
          \/ TrailingZeros(v.coef) >= -t.scale

MatchesTemporal(t, v) ==
    /\ t.t = v.v
    /\ CASE t.t = "instant" -> NanosecondsMatch(v.nano, t.fp)
         [] OTHER -> MicrosecondsMatch(v.micro, t.fp)

\* A length in bytes is the length of the text as the program holds it, UTF-8,
\* whatever the column's charset.
MatchesText(t, v) ==
    /\ Lower(t.charset) = Lower(v.charset)
    /\ \/ t.max = None
       \/ (IF v.known /\ t.unit = "bytes" THEN Utf8Length(v.chars) ELSE Len(v.chars))
             <= t.max

MatchesMembers(t, v) ==
    /\ t.labels # << >>
    /\ CASE v.v = "enum" -> v.label \in Range(t.labels)
         [] v.v = "set" -> /\ Range(v.labels) \subseteq Range(t.labels)
                           /\ IsInjective(v.labels)

MatchesSpatial(t, v) ==
    /\ t.subtype \in {"*", v.subtype}
    /\ t.srid \in {None, v.srid}
    /\ t.dims \in {0, v.dims}

MatchesNetwork(t, v) ==
    /\ t.family = v.family \/ (t.family = "ip" /\ v.family \in {"ipv4", "ipv6"})
    /\ IF t.cidr THEN v.prefix # None ELSE t.family = "ip" \/ v.prefix = None

\* Raw bytes are accepted for the type definition they were captured under.
MatchesRaw(t, v) ==
    /\ v.native = t.native
    /\ v.reversible
    /\ t.t = "raw" => v.codec = t.codec /\ v.digest = t.digest

\* What is left of a value to be matched against the parts of its type: pairs.
\* A NULL is left out where it may stand.
MatchedParts(p) ==
    LET t == p[1]
        v == p[2]
        pairs(elem, s) == [i \in DOMAIN s |-> <<elem, s[i]>>]
        present(x) == x.v # "null"
        bounds(r) == pairs(t.elem, SetToSeq(r.bounds))
        field(i) == IF v.fields[i].value.v = "null" /\ t.fields[i].nullable THEN << >>
                    ELSE <<<<t.fields[i].type, v.fields[i].value>>>>
        entry(e) == <<<<t.key, e.key>>>> \o pairs(t.elem, SelectSeq(<<e.value>>, present))
    IN CASE t.t = "domain" -> <<<<t.elem, IF v.v = "domain" THEN v.elem ELSE v>>>>
         [] t.t = "array" /\ v.v = t.t -> pairs(t.elem, SelectSeq(v.elems, present))
         [] t.t = "struct" /\ v.v = t.t /\ Len(t.fields) = Len(v.fields) ->
               FlattenSeq([i \in DOMAIN t.fields |-> field(i)])
         [] t.t = "map" /\ v.v = t.t -> FlattenSeq([i \in DOMAIN v.entries |-> entry(v.entries[i])])
         [] t.t = "range" /\ v.v = t.t -> bounds(v)
         [] t.t = "multi_range" /\ v.v = t.t /\ \A i \in DOMAIN v.elems : v.elems[i].v = "range" ->
               FlattenSeq([i \in DOMAIN v.elems |-> bounds(v.elems[i])])
         [] OTHER -> << >>

\* What is asked of a value before its parts.
MatchesNesting(t, v) ==
    /\ t.t = "domain" \/ v.v = t.t
    /\ t.t = "array" /\ t.dims # None => t.dims = v.dims /\ t.bounds = v.bounds
    /\ t.t = "struct" => /\ Len(t.fields) = Len(v.fields)
                         /\ \A i \in DOMAIN t.fields : t.fields[i].name = v.fields[i].name
    /\ t.t = "multi_range" => \A i \in DOMAIN v.elems : v.elems[i].v = "range"

MatchesOne(p) ==
    LET t == p[1]
        v == p[2]
    IN CASE t.t \in {"boolean", "uuid", "year", "json", "xml"} -> v.v = t.t
         [] t.t = "date" -> \/ v.v = "date"
                            \/ v.v \in {"invalid_temporal", "infinity"} /\ v.kind = "date"
         [] t.t \in {"local_datetime", "instant"} /\ v.v \in {"invalid_temporal", "infinity"} ->
               v.kind = t.t
         [] t.t = "calendar_interval" /\ v.v = "infinity" -> v.kind = t.t
         [] t.t \in Temporal -> MatchesTemporal(t, v)
         [] t.t = "integer" -> v.v = t.t /\ t.signed = v.signed /\ t.bits = v.bits
         [] t.t = "decimal_unbounded" -> v.v = "decimal"
         [] t.t = "decimal" -> v.v = t.t /\ MatchesDecimal(t, v)
         [] t.t = "float" -> v.v = t.t /\ t.bits = v.bits
         [] t.t = "text" -> v.v = t.t /\ MatchesText(t, v)
         [] t.t = "binary" -> v.v = t.t /\ (t.max = None \/ Len(v.bytes) <= t.max)
         [] t.t = "bit_string" -> v.v = t.t /\ t.length = v.length
         [] t.t = "variable_bit_string" ->
               v.v = "bit_string" /\ (t.max = None \/ v.length <= t.max)
         [] t.t \in {"enum", "set"} -> v.v = t.t /\ MatchesMembers(t, v)
         [] t.t = "spatial" -> v.v = t.t /\ MatchesSpatial(t, v)
         [] t.t = "network" -> v.v = t.t /\ MatchesNetwork(t, v)
         [] t.t \in Nested -> MatchesNesting(t, v)
         [] t.t \in {"raw", "opaque"} -> v.v = "raw" /\ MatchesRaw(t, v)
         [] OTHER -> FALSE

MatchesValue(t, v) == Throughout(MatchesOne, MatchedParts, <<t, v>>)
=============================================================================
