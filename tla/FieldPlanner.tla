---------------------------- MODULE FieldPlanner ----------------------------
(***************************************************************************)
(* The planner of one field (explain_field_compatibility_inner and what it *)
(* calls in change_event/src/compatibility.rs, called through              *)
(* web_ui/src/registry.rs): from the definitions of a source and a target  *)
(* column, the options the administrator chose and the risks he confirmed, *)
(* the status of the field and, when there is one, its conversion plan.    *)
(*                                                                         *)
(* A field is a record: connector, build (of its server), decl, charset,   *)
(* collation ("" if none), nullable, key (0, or the position in the        *)
(* primary key), keys (how many columns the primary key of its table has)  *)
(* and generated; Typed adds the logical type, which both definitions      *)
(* carry when the planner sees them.                                       *)
(* Options are a record: rule (NoRule if none is selected) and parameters, *)
(* a function on the names of the parameters given.  A digest is the value *)
(* it is computed from.                                                    *)
(***************************************************************************)
EXTENDS SinkManifests, ValueConversion

NoRule == [code |-> "", source |-> NoType, native |-> Declared("", << >>)]
NoPlan == [none |-> TRUE]
NoOptions == [rule |-> NoRule, parameters |-> << >>]

Typed(field) ==
    [connector |-> field.connector, build |-> field.build, decl |-> field.decl,
     charset |-> field.charset, collation |-> field.collation, nullable |-> field.nullable,
     key |-> field.key, generated |-> field.generated, type |-> ColumnType(field)]

KeyLike(field) == field.key # 0

\* Between two servers of one connector a missing collation differs from one.
CollationMismatch(source, target) ==
    /\ source.collation # target.collation
    /\ source.connector # target.connector => "" \notin {source.collation, target.collation}

-----------------------------------------------------------------------------
(* Which entries of the manifest are candidates.                           *)

\* MySQL's three-byte utf8 and PostgreSQL's UTF8 share a name once case is
\* ignored.
CharsetsCompatible(source, target) ==
    \/ Lower(source) = Lower(target)
    \/ target = "UTF8" /\ source \in {"utf8", "utf8mb4"}
    \/ Lower(source) = "utf8" /\ target = "utf8mb4"

TextBindingExact(source, target) ==
    LET s == source.type
        t == target.type
    IN IF t.t = "text"
       THEN /\ CharsetsCompatible(s.charset, t.charset)
            /\ s.max = t.max /\ s.unit = t.unit
            /\ "" \in {source.collation, target.collation} \/ source.collation = target.collation
       ELSE t = NoType

TemporalKind(t) == IF t.t \in {"local_datetime", "instant", "duration"} THEN t.t ELSE "unknown"

TemporalBindingExact(source, target) ==
    LET s == source.type
        t == target.type
    IN IF TemporalKind(t) = "unknown" THEN t = NoType
       ELSE s.t = t.t /\ s.fp = t.fp

\* Every member of one list is in the other, which is as long.
SameMembers(left, right) == Len(left) = Len(right) /\ Range(left) \subseteq Range(right)

Geographic(field) == field.decl.base = "geography"
SpatialMismatch(source, target) ==
    /\ source.type.t = "spatial" /\ target.type.t = "spatial"
    /\ Geographic(source) # Geographic(target)

\* Numbers may be widened on the word of the manifest; everything else must be
\* declared alike.
ExactMatchesBinding(e, source, target) ==
    LET s == source.type
        t == target.type
    IN \/ e.qual # "exact"
       \/ t = NoType /\ s.t \notin {"binary", "bit_string", "variable_bit_string", "spatial"}
                                   \cup Recursive
       \/ /\ s.t = "text" => TextBindingExact(source, target)
          /\ s.t \in {"local_datetime", "instant", "duration"} => TemporalBindingExact(source, target)
          /\ s.t = "set" => t.t = "set" /\ SameMembers(s.labels, t.labels)
          /\ s.t \in {"enum", "binary", "bit_string", "variable_bit_string", "spatial"}
                     \cup Recursive => s = t
          /\ ~ SpatialMismatch(source, target)

\* An explicit conversion is offered where no exact one applies, or where it
\* was selected, and never for a key.
ExplicitMatchesBinding(e, source, target, selected) ==
    LET s == source.type
        t == target.type
    IN \/ e.kind = ""
       \/ /\ ~ KeyLike(source) /\ ~ KeyLike(target)
          /\ CASE e.kind = "text" ->
                    /\ s.t = "text" /\ Lower(s.charset) \in SupportedCharsets
                    /\ selected \/ ~ TextBindingExact(source, target)
               [] e.kind = "json" -> s.t = "json" /\ t.t = "text"
               [] e.kind = "enum" ->
                    /\ s.t = "enum" /\ t.t = "enum"
                    /\ SameMembers(s.labels, t.labels)
                    /\ selected \/ s.labels # t.labels
               [] e.kind = "temporal" ->
                    /\ TemporalKind(s) # "unknown"
                    /\ selected \/ ~ TemporalBindingExact(source, target)
               [] e.kind = "recursive" -> s.t \in Recursive /\ t.t = "json"
               [] e.kind = "logical_value_json" -> TRUE
               [] e.kind = "source_representation" -> s.t = "raw" /\ t.t = "binary"

\* A raw column sends the protocol's bytes and no value; every other a value.
SupportsPresence(e, s) == (s.t = "raw") = (e.carries = "representation")

IsCandidate(e, source, target, rule) ==
    LET s == source.type IN
    /\ rule \in {NoRule, e.rule}
    /\ SupportsPresence(e, s)
    /\ KeyLike(source) => e.key
    /\ ExactMatchesBinding(e, source, target)
    /\ ExplicitMatchesBinding(e, source, target, rule = e.rule)
    /\ source.generated = target.generated
    /\ source.nullable => target.nullable
    /\ e.range # "" => s # target.type

Candidates(source, target, rule) ==
    {e \in Entries(source.type, target) : IsCandidate(e, source, target, rule)}

KeyBlocked(source, target) ==
    KeyLike(source) /\ \E e \in Entries(source.type, target) : ~ e.key

IsCarrier(e) == e.kind \in {"logical_value_json", "source_representation"}

\* The candidate taken when there are several: the only one that is no
\* carrier, and only if it is exact.
PreferredExact(candidates) ==
    LET native == {e \in candidates : ~ IsCarrier(e)}
    IN IF Cardinality(native) = 1 /\ \A e \in native : e.qual = "exact" THEN native ELSE {}

-----------------------------------------------------------------------------
(* The parameters of an explicit conversion.                               *)

ValidOption(name, value) ==
    CASE name = "charset" -> value \in {"utf8", "utf8mb4", "UTF8", "ascii", "latin1"}
      [] name = "unit" -> value \in {"bytes", "characters"}
      [] name = "strategy" -> value \in {"preserve_local", "preserve_absolute",
                                 "preserve_duration", "local_to_absolute", "absolute_to_local"}
      [] name = "jsonStrategy" -> value \in {"normalized_text", "raw_text"}
      [] OTHER -> TRUE

OptionsInvalid(e, parameters) ==
    \E name \in DOMAIN parameters : name \notin e.options \/ ~ ValidOption(name, parameters[name])

OptionsMissing(e, parameters) == e.required \ DOMAIN parameters

\* Text must be asked for as the target column is declared.
TextParametersMatch(target, parameters) ==
    LET t == target.type IN
    /\ Lower(parameters.charset) \in SupportedCharsets
    /\ parameters.length # 0
    /\ t.t = "text" => /\ Lower(parameters.charset) = Lower(t.charset)
                       /\ parameters.length = t.max
                       /\ parameters.unit = t.unit
    /\ parameters.collation = target.collation

\* An interval takes the precision that was asked for, every other column has
\* its own.
TemporalTarget(target, parameters) ==
    LET t == target.type IN
    IF TemporalKind(t) # "unknown" THEN [kind |-> t.t, precision |-> t.fp]
    ELSE IF target.decl.base = "interval"
    THEN [kind |-> "duration", precision |-> Arg(target.decl, 1, parameters.precision)]
    ELSE [kind |-> "unknown", precision |-> 0]

TemporalStrategy(from, to) ==
    CASE <<from, to>> = <<"local_datetime", "instant">> -> "local_to_absolute"
      [] <<from, to>> = <<"instant", "local_datetime">> -> "absolute_to_local"
      [] <<from, to>> = <<"local_datetime", "local_datetime">> -> "preserve_local"
      [] <<from, to>> = <<"instant", "instant">> -> "preserve_absolute"
      [] <<from, to>> = <<"duration", "duration">> -> "preserve_duration"
      [] OTHER -> "none"

TemporalParametersMatch(source, target, parameters) ==
    LET s == source.type
        t == TemporalTarget(target, parameters)
    IN /\ t.kind # "unknown"
       /\ parameters.precision <= 6 /\ parameters.precision = t.precision
       /\ parameters.strategy = TemporalStrategy(s.t, t.kind)
       /\ s.t # t.kind => "zone" \in DOMAIN parameters
       /\ s.t # t.kind \/ s.fp # t.precision

ParametersMatch(e, source, target, parameters) ==
    CASE e.kind = "text" -> TextParametersMatch(target, parameters)
      [] e.kind = "json" -> /\ TextParametersMatch(target, parameters)
                            /\ parameters.jsonStrategy = "normalized_text"
      [] e.kind = "enum" ->
            SameMembers(source.type.labels, target.type.labels)
      [] e.kind = "temporal" -> TemporalParametersMatch(source, target, parameters)
      [] OTHER -> TRUE

-----------------------------------------------------------------------------
(* The plan.                                                               *)

\* BINARY(n) is fixed and padded with zeros; a length in the declaration wins.
BinaryTarget(source, target) ==
    LET fixed(f) == f.decl.base = "binary"
        length(f) == Arg(f.decl, 1, f.type.max)
    IN [length |-> length(target), fixed |-> fixed(target),
        padding |-> IF fixed(target) THEN "zero" ELSE "none",
        sourceLength |-> length(source), sourceFixed |-> fixed(source)]

BitTarget(e, source, target) ==
    LET s == source.type IN
    [sourceLength |-> s.length,
     sourceOrder |-> BitOrderOf(source.connector), sourcePadding |-> BitPaddingOf(s),
     order |-> e.p.order,
     padding |-> IF e.p.padding = "auto" THEN FixedPadding(target.type.length)
                 ELSE e.p.padding]

\* An SRID that is not declared leaves the CRS open.
Crs(srid) == IF srid = None THEN "" ELSE "srid"

SpatialTarget(e, source, target) ==
    LET s == source.type
        t == target.type
    IN [format |-> e.p.format, sourceFormat |-> e.p.format, subtype |-> t.subtype,
        dims |-> t.dims, srid |-> t.srid, crs |-> Crs(t.srid), sourceCrs |-> Crs(s.srid),
        native |-> target.decl.base]

TemporalPlanTarget(source, target, parameters) ==
    [sourceKind |-> source.type.t,
     targetKind |-> TemporalKind(target.type),
     precision |-> parameters.precision,
     zone |-> IF "zone" \in DOMAIN parameters THEN parameters.zone ELSE 0]

\* Where the protocol's bytes come from, and the session they were printed in.
SourceEvidence(e, source) ==
    [capacity |-> e.p.capacity, connector |-> source.connector, build |-> source.build,
     identity |-> source.decl.base, protocol |-> "pgoutput.v1", format |-> "text",
     metadata |-> [native |-> source.decl.base, timezone |-> "UTC"],
     contextKeys |-> {"relation", "lc_monetary"},
     digest |-> source.type.digest, encoding |-> source.type.codec]

\* Bytes, bits and geometries get a conversion of their own whatever the entry
\* says, unless it carries them.
PlanKind(e, source, target) ==
    LET s == source.type
        t == target.type
    IN IF s.t = t.t /\ s.t \in {"binary", "bit_string", "spatial"} THEN s.t ELSE e.kind

PlanTarget(e, source, target, parameters) ==
    LET s == source.type
        t == target.type
        kind == PlanKind(e, source, target)
    IN CASE e.range = "integer" -> [signed |-> t.signed, bits |-> t.bits]
         [] e.range = "decimal" -> [precision |-> t.precision, scale |-> t.scale,
                                    specials |-> e.p.specials]
         [] e.range = "float" -> [bits |-> t.bits]
         [] kind = "binary" -> BinaryTarget(source, target)
         [] kind = "bit_string" -> BitTarget(e, source, target)
         [] kind = "spatial" -> SpatialTarget(e, source, target)
         [] kind = "recursive" -> [recursiveKind |-> s.t]
         [] kind = "source_representation" -> SourceEvidence(e, source)
         [] kind = "text" -> parameters
         [] kind = "json" -> parameters
         [] s.t \in {"enum", "set"} /\ t.t = s.t -> [labels |-> t.labels]
         [] kind = "temporal" -> TemporalPlanTarget(source, target, parameters)
         [] s.t = "decimal" /\ kind = "" /\ e.range = "" ->
               [specials |-> IF "specials" \in DOMAIN e.p THEN e.p.specials ELSE {}]
         [] OTHER -> e.p

NeedsConfirmation(e, source, target) ==
    e.confirm \/ e.qual = "explicit" \/ CollationMismatch(source, target)

BuildPlan(e, source, target, revision, options) ==
    [revision |-> revision, sourceField |-> source, targetField |-> target,
     options |-> options, rule |-> e.rule,
     qual |-> e.qual,
     risk |-> IF CollationMismatch(source, target) /\ e.risk < 2 THEN 2 ELSE e.risk,
     range |-> e.range, kind |-> PlanKind(e, source, target), strategy |-> e.strategy,
     source |-> source.type,
     p |-> PlanTarget(e, source, target, options.parameters),
     confirmation |-> IF NeedsConfirmation(e, source, target) THEN "required" ELSE "not_required"]

\* What a confirmation names: the rule and the digest of the plan.
ConfirmationOf(plan) ==
    [rule |-> plan.rule, digest |-> [plan EXCEPT !.confirmation = ""]]

\* Mutant: a confirmation holds for every plan of its rule.
ConfirmationOfRule(plan, confirmation) == confirmation.rule = plan.rule

ConfirmationMatches(plan, confirmation) == confirmation = ConfirmationOf(plan)

-----------------------------------------------------------------------------
Result(status, plan) == [status |-> status, plan |-> plan]

NothingQualifies(source, target) ==
    IF \/ KeyBlocked(source, target)
       \/ SpatialMismatch(source, target)
       \/ source.type.t = "spatial"
    THEN "blocked" ELSE "unsupported"

\* A plan that asks for confirmation runs when one of those given names it.
Confirmed(plan, confirmations) ==
    IF plan.confirmation # "required" THEN Result("compatible", plan)
    ELSE IF \E c \in confirmations : ConfirmationMatches(plan, c)
    THEN Result("compatible", [plan EXCEPT !.confirmation = "confirmed"])
    ELSE Result("needs_confirmation", plan)

\* The options of the entry that was taken: wrong ones are reported before
\* missing ones.
Configured(e, source, target, revision, options, confirmations) ==
    LET missing == OptionsMissing(e, options.parameters) IN
    IF \/ OptionsInvalid(e, options.parameters)
       \/ missing = {} /\ ~ ParametersMatch(e, source, target, options.parameters)
    THEN Result("blocked", NoPlan)
    ELSE IF missing # {} THEN Result("needs_configuration", NoPlan)
    ELSE Confirmed(BuildPlan(e, source, target, revision, options), confirmations)

\* The entry taken from the candidates, if that is decided.
Selected(candidates, preferred, source, target, revision, options, confirmations) ==
    IF candidates = {} THEN Result(NothingQualifies(source, target), NoPlan)
    ELSE IF \/ Cardinality(candidates) > 1 /\ preferred = {}
            \/ options.rule = NoRule /\ \A c \in candidates : IsCarrier(c)
    THEN Result("needs_configuration", NoPlan)
    ELSE Configured(CHOOSE e \in (IF preferred # {} THEN preferred ELSE candidates) : TRUE,
                    source, target, revision, options, confirmations)

Explained(source, target, revision, options, confirmations) ==
    IF source.type = NoType THEN Result("unmapped", NoPlan)
    ELSE IF source.key # target.key \/ (CollationMismatch(source, target) /\ KeyLike(source))
    THEN Result("blocked", NoPlan)
    ELSE LET candidates == Candidates(source, target, options.rule)
         IN Selected(candidates, PreferredExact(candidates), source, target, revision,
                     options, confirmations)

\* Every sink's manifest asks for a primary key to locate rows by.
FieldCompatibility(source, target, revision, options, confirmations) ==
    IF ColumnType(source) # NoType /\ source.keys = 0 THEN Result("blocked", NoPlan)
    ELSE Explained(Typed(source), Typed(target), revision, options, confirmations)
=============================================================================
