----------------------------- MODULE TypeCatalog ----------------------------
(***************************************************************************)
(* What a PostgreSQL source knows of the types of its columns: the type    *)
(* directory it reads once, by several statements, before it streams       *)
(* (catalog.rs); the logical type it derives from that for a column        *)
(* (type_mapping.rs); and how a row is decoded with it, or its text kept   *)
(* with the definitions that explain it (types.rs, source_contract.rs).    *)
(*                                                                         *)
(* Meanwhile the database's users create and alter types.  A definition    *)
(* stands for its digest.  OIDs and names are numbers; a type has its OID  *)
(* as its name, unless it shares the name of one of the server's.          *)
(***************************************************************************)
EXTENDS Integers, SequencesExt

CONSTANTS BaseTypes,    \* the types present at first, by OID
          NewOids,      \* OIDs of the types users create
          Labels,       \* labels of enums
          SharedNames,  \* names users may give to a type besides its own
          MaxDdl        \* how often types are created or altered

VARIABLES types,      \* the source's types: pg_type, pg_enum and pg_attribute
          available,  \* extensions in pg_available_extensions
          alters,     \* alterations so far
          column,     \* the OID of the published column, 0 before its table exists
          row,        \* a row in the log and not yet decoded, or NoRow
          step,       \* what the source process does next
          catalog,    \* the directory it holds: types and available extensions
          mapping,    \* of the column: logical type, representation, closure
          delivered   \* the last row: what was written, under what, what came out

\* The OIDs a type may have.  0 is none.
Oids == DOMAIN BaseTypes \cup NewOids

ASSUME OidsAssumption == IsFiniteSet(Oids) /\ Oids \subseteq Nat \ {0}

DefinitionKinds ==
    {"builtin", "pseudo", "enum", "domain", "composite", "array", "range", "multirange",
     "extension"}

\* What the directory has of every type.
Described(d) ==
    /\ {"kind", "schema", "name", "deps", "fields", "labels"} \subseteq DOMAIN d
    /\ d.kind = "builtin" => {"supported", "declared", "named", "listed"} \subseteq DOMAIN d
    /\ d.kind = "extension" => "codec" \in DOMAIN d
    /\ d.kind \in DefinitionKinds
    /\ d.deps \in Seq(Nat) /\ d.fields \in Seq(Nat) /\ d.labels \in Seq(Labels)
    /\ d.kind \in {"domain", "array", "range", "multirange"} => Len(d.deps) = 1
    /\ IF d.kind = "composite" THEN Len(d.fields) = Len(d.deps) ELSE d.fields = << >>

ASSUME BaseTypesAssumption == \A o \in DOMAIN BaseTypes : Described(BaseTypes[o])

\* pg_type is unique in schema and name.
ASSUME NamesAssumption ==
    \A o \in DOMAIN BaseTypes :
        /\ BaseTypes[o].schema # ""
        /\ \A p \in DOMAIN BaseTypes :
              BaseTypes[p].schema = BaseTypes[o].schema /\ BaseTypes[p].name = BaseTypes[o].name
              => p = o

\* What the mapping knows by a name, the decoder knows by its OID.
ASSUME BuiltinsAssumption ==
    \A o \in DOMAIN BaseTypes :
        BaseTypes[o].kind = "builtin" /\ (BaseTypes[o].declared \/ BaseTypes[o].named)
        => BaseTypes[o].supported

ASSUME LabelsAssumption == Labels # {}

vars == <<types, available, alters, column, row, step, catalog, mapping, delivered>>

-----------------------------------------------------------------------------
(* Definitions, and the SourceTypeCatalog made of them.                    *)

\* deps: base, element, subtype or range, or the types of the fields.
Definition(kind, name, deps, fields, labels) ==
    [kind |-> kind, schema |-> "user", name |-> name, deps |-> deps,
     fields |-> fields, labels |-> labels]

Extensions(defs) == {d.name : d \in {e \in Range(defs) : e.kind = "extension"}}

\* F applied n times.
Iterate(F(_), first, n) ==
    LET iterate[k \in Nat] == IF k = 0 THEN first ELSE F(iterate[k - 1]) IN iterate[n]

\* Types do not contain themselves: none is nested deeper than there are types.
Depth(defs) == Cardinality(DOMAIN defs)

\* What can be reached from seen, where deps gives the types a type is made of.
Follow(deps, seen) == seen \cup UNION {deps[o] : o \in seen \cap DOMAIN deps}
Visit(deps, seen) == Iterate(LAMBDA reached : Follow(deps, reached), seen, Depth(deps))

\* The n-th of the OIDs has n - 1 below it.
InOrder(oids) ==
    [n \in 1..Cardinality(oids) |->
        CHOOSE o \in oids : Cardinality({p \in oids : p < o}) = n - 1]

\* Mutant: the element of an array is not followed.
ClosureDependenciesNoArray(defs) ==
    [o \in DOMAIN defs |-> IF defs[o].kind = "array" THEN {} ELSE Range(defs[o].deps)]

ClosureDependencies(defs) == [o \in DOMAIN defs |-> Range(defs[o].deps)]
TypeDefinitionDependencies(defs) == [o \in DOMAIN defs |-> Range(defs[o].deps)]

NoClosure == [types |-> << >>, extensions |-> {}, root |-> 0]

\* In the order of the OIDs, with the extensions they belong to.
DefinitionClosure(defs, oid) ==
    LET seen == Visit(ClosureDependencies(defs), {oid})
        closure == InOrder(seen)
    IN IF ~ (seen \subseteq DOMAIN defs) THEN NoClosure
       ELSE [types |-> [i \in DOMAIN closure |-> <<closure[i], defs[closure[i]]>>],
             extensions |-> Extensions(Restrict(defs, seen)), root |-> oid]

\* The consumer's check, from the evidence alone.
ValidateTypeDefinitionClosure(closure, root) ==
    LET oids == {e[1] : e \in Range(closure.types)}
        defs == [o \in oids |-> (CHOOSE e \in Range(closure.types) : e[1] = o)[2]]
        reachable == Visit(TypeDefinitionDependencies(defs), {root})
    IN /\ root \in oids
       /\ \A i \in 1..(Len(closure.types) - 1) : closure.types[i][1] < closure.types[i + 1][1]
       /\ closure.extensions = Extensions(defs)
       /\ reachable = oids

-----------------------------------------------------------------------------
(* The mapping of a declared type.                                         *)

Logical(t, parts, names) == [t |-> t, parts |-> parts, names |-> names]
Raw == Logical("raw", << >>, << >>)
Unmapped == Logical("error", << >>, << >>)

\* hstore and the PostGIS types have codecs, while their extension is offered.
ExtensionCodec(cat, d) == d.codec /\ d.name \in cat.available

\* below: which of the types nested in this one have a codec.  It is empty where
\* a type would be met again inside itself.
Codec(cat, oid, below) ==
    LET d == cat.types[oid]
        visit(o) == o \in DOMAIN below /\ below[o]
    IN CASE d.kind = "pseudo" -> FALSE
         [] d.kind = "builtin" -> d.supported
         [] d.kind = "enum" -> TRUE
         [] d.kind = "multirange" ->
              /\ d.deps[1] \in DOMAIN cat.types
              /\ cat.types[d.deps[1]].kind = "range"
              /\ visit(cat.types[d.deps[1]].deps[1])
         [] d.kind = "extension" -> ExtensionCodec(cat, d)
         [] OTHER -> \A o \in Range(d.deps) : visit(o)

Codecs(cat, below) == [o \in DOMAIN cat.types |-> Codec(cat, o, below)]

HasSemanticCodec(cat, oid) ==
    /\ oid \in DOMAIN cat.types
    /\ Iterate(LAMBDA below : Codecs(cat, below), << >>, Depth(cat.types))[oid]

\* below: the logical types of the types nested in this one.
LogicalOf(cat, oid, below) ==
    LET d == cat.types[oid]
        part(o) == IF o \in DOMAIN below THEN below[o] ELSE Unmapped
        parts == [i \in DOMAIN d.deps |-> part(d.deps[i])]
    IN CASE d.kind = "pseudo" -> Unmapped
         \* By the name the type has in the catalog.
         [] d.kind = "builtin" -> IF d.named THEN Logical("value", << >>, << >>) ELSE Raw
         [] d.kind = "enum" -> IF d.labels = << >> THEN Unmapped ELSE Logical("enum", << >>, << >>)
         [] d.kind = "extension" ->
              IF ExtensionCodec(cat, d) THEN Logical("value", << >>, << >>) ELSE Raw
         [] d.kind = "multirange" ->
              IF /\ d.deps[1] \in DOMAIN cat.types
                 /\ cat.types[d.deps[1]].kind = "range"
                 /\ part(cat.types[d.deps[1]].deps[1]) # Unmapped
              THEN Logical("multirange", <<part(cat.types[d.deps[1]].deps[1])>>, << >>)
              ELSE Unmapped
         [] OTHER ->
              IF Unmapped \in Range(parts) THEN Unmapped
              ELSE IF d.kind = "array" /\ parts[1] = Raw THEN Raw
              ELSE Logical(d.kind, parts, d.fields)

LogicalTypes(cat, below) == [o \in DOMAIN cat.types |-> LogicalOf(cat, o, below)]

LogicalTypeFromDefinition(cat, oid) ==
    IF oid \notin DOMAIN cat.types THEN Unmapped
    ELSE Iterate(LAMBDA below : LogicalTypes(cat, below), << >>, Depth(cat.types))[oid]

\* How the column query writes a type: the server's own without a schema, an
\* enum as its labels, an array as its element with brackets.
NativeType(defs, oid) ==
    LET array == defs[oid].kind = "array"
        named == IF array THEN defs[oid].deps[1] ELSE oid
    IN [array |-> array, enum |-> defs[named].kind = "enum" /\ ~ array,
        labels |-> defs[named].labels,
        schema |-> IF defs[named].schema = "pg_catalog" THEN "" ELSE defs[named].schema,
        name |-> defs[named].name,
        declared |-> defs[named].kind = "builtin" /\ defs[named].declared]

\* An unqualified name must be the only one of its kind; 0 when there is none.
FindDefinition(cat, native) ==
    LET matches == {o \in DOMAIN cat.types :
                      /\ cat.types[o].name = native.name
                      /\ native.schema \in {"", cat.types[o].schema}}
    IN IF Cardinality(matches) = 1 THEN CHOOSE o \in matches : TRUE ELSE 0

\* The server's types whose names the mapping knows.
BuiltinCatalogName(cat, native) ==
    LET known == {o \in DOMAIN cat.types :
                    /\ cat.types[o].schema = "pg_catalog" /\ cat.types[o].name = native.name
                    /\ cat.types[o].kind = "builtin" /\ cat.types[o].listed}
    IN IF native.schema # "" \/ known = {} THEN 0 ELSE CHOOSE o \in known : TRUE

PseudoElement(cat, oid) ==
    \/ cat.types[oid].kind = "pseudo"
    \/ /\ cat.types[oid].kind = "array" /\ cat.types[oid].deps[1] \in DOMAIN cat.types
       /\ cat.types[cat.types[oid].deps[1]].kind = "pseudo"

\* Mutant: whether a type can be decoded is not asked before it is mapped.
CatalogTypeAlwaysMapped(cat, oid) ==
    IF oid = 0 \/ (oid # 0 /\ PseudoElement(cat, oid)) THEN Unmapped
    ELSE LogicalTypeFromDefinition(cat, oid)

CatalogType(cat, oid) ==
    IF oid = 0 \/ (oid # 0 /\ PseudoElement(cat, oid)) THEN Unmapped
    ELSE IF ~ HasSemanticCodec(cat, oid) /\ cat.types[oid].kind # "extension" THEN Raw
    ELSE LogicalTypeFromDefinition(cat, oid)

NamedType(cat, native) ==
    CASE native.enum -> IF native.labels = << >> THEN Unmapped ELSE Logical("enum", << >>, << >>)
      [] ~ native.enum /\ native.declared -> Logical("value", << >>, << >>)
      [] ~ native.enum /\ ~ native.declared ->
           LET builtin == BuiltinCatalogName(cat, native) IN
           IF builtin # 0 THEN LogicalTypeFromDefinition(cat, builtin)
           ELSE CatalogType(cat, FindDefinition(cat, native))

ArrayDefinitionForElement(cat, native) ==
    LET element == IF FindDefinition(cat, native) # 0 THEN FindDefinition(cat, native)
                   ELSE BuiltinCatalogName(cat, native)
    IN {o \in DOMAIN cat.types : cat.types[o].kind = "array" /\ cat.types[o].deps[1] = element}

LogicalTypeWithCatalog(cat, native) ==
    LET element == NamedType(cat, native) IN
    CASE ~ native.array \/ element = Unmapped -> element
      [] native.array /\ element = Raw ->
           IF ArrayDefinitionForElement(cat, native) = {} THEN Unmapped ELSE Raw
      [] native.array /\ element \notin {Raw, Unmapped} -> Logical("array", <<element>>, << >>)

CapturesSourceRepresentation(cat, oid, logical) ==
    logical = Raw \/ ~ HasSemanticCodec(cat, oid)

-----------------------------------------------------------------------------
(* Values, the text the server writes for them, and what is decoded.       *)

Value(t, s, parts, names) == [t |-> t, s |-> s, parts |-> parts, names |-> names]
Null == Value("null", "", << >>, << >>)
Undecoded == Value("error", "", << >>, << >>)
Leaf(t, s) == Value(t, s, << >>, << >>)

\* Values and texts nested in one another: at most two levels for a type, and an
\* envelope around them.
ValueTags == {"null", "error", "value", "enum", "domain", "composite", "array", "range",
              "multirange", "envelope"}
TextTags == {"null", "plain", "parentheses", "braces", "bounds"}
Atoms == Labels \cup {"", "v"}
Nest(below) ==
    [t : ValueTags \cup TextTags, s : Atoms, parts : Seq(below), names : Seq(Nat)]
MaxNesting == 2 * Cardinality(Oids) + 2
Trees(n) == Iterate(Nest, {}, n)

\* below: the values of the types nested in this one.
ValuesOf(defs, oid, below) ==
    LET d == defs[oid]
        all(o) == IF o \in DOMAIN below THEN below[o] ELSE {}
        each(o) == all(o) \cup {Null}
        ranges(o) == {Value("range", "", << >>, << >>)}
                     \cup {Value("range", "", <<v, Null>>, << >>) : v \in all(o)}
    IN CASE d.kind \in {"builtin", "extension"} -> {Leaf("value", "v")}
         [] d.kind = "pseudo" -> {}
         [] d.kind = "enum" -> {Leaf("enum", l) : l \in Range(d.labels)}
         [] d.kind = "domain" -> {Value("domain", "", <<v>>, << >>) : v \in all(d.deps[1])}
         [] d.kind = "composite" ->
              {Value("composite", "", parts, d.fields) :
                 parts \in {[i \in DOMAIN d.deps |-> f[d.deps[i]]] :
                              f \in {g \in [Range(d.deps) -> UNION {each(o) : o \in Range(d.deps)}] :
                                       \A o \in DOMAIN g : g[o] \in each(o)}}}
         [] d.kind = "array" ->
              {Value("array", "", << >>, << >>)}
              \cup {Value("array", "", <<v>>, << >>) : v \in each(d.deps[1])}
         [] d.kind = "range" -> ranges(d.deps[1])
         [] d.kind = "multirange" ->
              {Value("multirange", "", << >>, << >>)}
              \cup {Value("multirange", "", <<r>>, << >>) : r \in ranges(defs[d.deps[1]].deps[1])}

ValueSets(defs, below) == [o \in DOMAIN defs |-> ValuesOf(defs, o, below)]

Values(defs, oid) ==
    Iterate(LAMBDA below : ValueSets(defs, below), << >>, Depth(defs))[oid]

\* The text of a value, with the brackets that show its form.  A record of one
\* NULL is written like an empty one, a domain like its base, and no text has
\* the names of fields.
Form(t) ==
    CASE t \in {"value", "enum"} -> "plain"
      [] t = "composite" -> "parentheses"
      [] t \in {"array", "multirange"} -> "braces"
      [] t = "range" -> "bounds"

\* below: the texts of the values nested in this one.
TextOf(v, below) ==
    CASE v.t = "domain" -> below[v.parts[1]]
      [] v.t = "composite" /\ v.parts = <<Null>> -> Value("parentheses", "", << >>, << >>)
      [] v.t = "null" -> Null
      [] OTHER -> Value(Form(v.t), v.s, [i \in DOMAIN v.parts |-> below[v.parts[i]]], << >>)

Texts(below) == [v \in Nest(DOMAIN below) |-> TextOf(v, below)]

Output(v) == Iterate(Texts, << >>, MaxNesting)[v]

\* The text itself, beside the definitions of its type.
Envelope(v) == Value("envelope", "", <<Output(v)>>, << >>)

Decoded(t, parts, names) ==
    IF Undecoded \in Range(parts) THEN Undecoded ELSE Value(t, "", parts, names)

\* Mutant: a record without fields is what it looks like.
RecordPartsAsWritten(d, text) == text.parts
\* Mutant: fields and values are paired as far as both go.
RecordPartsZipped(d, text) ==
    IF text.parts = << >> /\ Len(d.deps) = 1 THEN <<Null>>
    ELSE [i \in DOMAIN d.deps |-> IF i \in DOMAIN text.parts THEN text.parts[i] ELSE Null]

RecordParts(d, text) ==
    IF text.parts = << >> /\ Len(d.deps) = 1 THEN <<Null>> ELSE text.parts

\* below: how the types nested in this one are decoded.
DecodedOf(cat, oid, text, below) ==
    LET d == cat.types[oid]
        form == CASE d.kind \in {"builtin", "extension", "enum"} -> "plain"
                  [] d.kind \in {"domain", "pseudo"} -> text.t
                  [] OTHER -> Form(d.kind)
        decode(o, t) == IF t = Null THEN Null
                        ELSE IF o \in DOMAIN below THEN below[o][t] ELSE Undecoded
        range(o, t) ==
            IF t.t # "bounds" THEN Undecoded
            ELSE Decoded("range", [i \in DOMAIN t.parts |-> decode(o, t.parts[i])], << >>)
        parts == RecordParts(d, text)
    IN IF text.t # form THEN Undecoded
       ELSE
       CASE d.kind = "pseudo" -> Undecoded
         [] d.kind = "builtin" -> IF d.supported THEN Leaf("value", text.s) ELSE Undecoded
         [] d.kind = "enum" ->
              IF text.s \in Range(d.labels) THEN Leaf("enum", text.s) ELSE Undecoded
         [] d.kind = "domain" -> Decoded("domain", <<decode(d.deps[1], text)>>, << >>)
         [] d.kind = "composite" ->
              IF Len(parts) # Len(d.deps) THEN Undecoded
              ELSE Decoded("composite", [i \in DOMAIN parts |-> decode(d.deps[i], parts[i])], d.fields)
         [] d.kind = "array" ->
              Decoded("array", [i \in DOMAIN text.parts |-> decode(d.deps[1], text.parts[i])], << >>)
         [] d.kind = "range" -> range(d.deps[1], text)
         [] d.kind = "multirange" ->
              LET subtype == cat.types[d.deps[1]].deps[1] IN
              Decoded("multirange", [i \in DOMAIN text.parts |-> range(subtype, text.parts[i])], << >>)
         [] d.kind = "extension" -> IF d.codec THEN Leaf("value", text.s) ELSE Undecoded

Decoders(cat, below) ==
    [o \in DOMAIN cat.types |->
        [text \in Trees(MaxNesting) |-> DecodedOf(cat, o, text, below)]]

DecodeCatalogValue(cat, oid, text) ==
    IF oid \notin DOMAIN cat.types THEN Undecoded
    ELSE Iterate(LAMBDA below : Decoders(cat, below), << >>, Depth(cat.types))[oid][text]

-----------------------------------------------------------------------------
(* The database and its users (external).                                  *)

NoCatalog == [types |-> << >>, available |-> {}]
NoMapping == [logical |-> Unmapped, representation |-> FALSE, closure |-> NoClosure]
NoRow == [value |-> Null, closure |-> NoClosure]
Nothing == [row |-> NoRow, result |-> Null]

Init ==
    /\ types = BaseTypes
    /\ available \in SUBSET Extensions(BaseTypes)
    /\ alters = 0 /\ column = 0
    /\ row = NoRow
    /\ step = "types"
    /\ catalog = NoCatalog
    /\ mapping = NoMapping
    /\ delivered = Nothing

\* The directory has one array type for an element and no type inside itself.
\* A composite may be the row of one of the server's tables, with a field of a
\* pseudo-type.
NewTypes(name) ==
    LET existing == {o \in DOMAIN types : types[o].kind # "pseudo"}
        of(kind) == {o \in DOMAIN types : types[o].kind = kind}
        one(kind, from) == {Definition(kind, name, <<o>>, << >>, << >>) : o \in from}
    IN {Definition("enum", name, << >>, << >>, labels) :
            labels \in {<< >>, <<CHOOSE l \in Labels : TRUE>>}}
       \cup one("domain", existing) \cup one("range", existing)
       \cup one("multirange", of("range"))
       \cup one("array", {o \in existing \ of("array") :
                            \A a \in of("array") : types[a].deps[1] # o})
       \cup {Definition("composite", name, <<o>>, <<1>>, << >>) : o \in DOMAIN types}

Ddl == alters + Cardinality(NewOids \cap DOMAIN types)

CreateType ==
    /\ Ddl < MaxDdl
    /\ NewOids \ DOMAIN types # {}
    /\ LET o == Min(NewOids \ DOMAIN types)
           taken == {types[p].name : p \in DOMAIN types \cap NewOids}
       IN \E d \in UNION {NewTypes(n) : n \in ({o} \cup SharedNames) \ taken} :
             types' = [p \in DOMAIN types \cup {o} |-> IF p = o THEN d ELSE types[p]]
    /\ UNCHANGED <<available, alters, column, row, step, catalog, mapping, delivered>>

MadeOf(q, o) == o \in Visit([p \in DOMAIN types |-> Range(types[p].deps)], {q})

\* ALTER TYPE ... ADD VALUE, ADD ATTRIBUTE and DROP ATTRIBUTE.
Altered(o, d) ==
    IF d.kind = "enum"
    THEN {[d EXCEPT !.labels = Append(@, l)] : l \in Labels \ Range(d.labels)}
    ELSE {[d EXCEPT !.deps = Append(@, p), !.fields = Append(@, 2 + alters)] :
             p \in {q \in DOMAIN types : types[q].kind # "pseudo" /\ ~ MadeOf(q, o)}}
         \cup {[d EXCEPT !.deps = RemoveAt(@, i), !.fields = RemoveAt(@, i)] : i \in DOMAIN d.deps}

AlterType ==
    /\ Ddl < MaxDdl /\ alters' = alters + 1
    /\ \E o \in DOMAIN types \cap NewOids :
          /\ types[o].kind \in {"enum", "composite"}
          /\ \E d \in Altered(o, types[o]) : types' = [types EXCEPT ![o] = d]
    /\ UNCHANGED <<available, column, row, step, catalog, mapping, delivered>>

CreateTable ==
    /\ column = 0
    /\ \E o \in DOMAIN types : types[o].kind # "pseudo" /\ column' = o
    /\ UNCHANGED <<types, available, alters, row, step, catalog, mapping, delivered>>

WriteRow ==
    /\ column # 0 /\ row = NoRow
    /\ \E v \in Values(types, column) :
          row' = [value |-> v, closure |-> DefinitionClosure(types, column)]
    /\ UNCHANGED <<types, available, alters, column, step, catalog, mapping, delivered>>

-----------------------------------------------------------------------------
(* The source: the directory, then the column, then rows.                  *)

\* pg_type, without what the other directories say.
LoadTypes ==
    /\ step = "types" /\ column # 0
    /\ catalog' = [types |-> [o \in DOMAIN types |-> [types[o] EXCEPT
                       !.labels = << >>,
                       !.deps = IF types[o].kind = "composite" THEN << >> ELSE @,
                       !.fields = << >>]],
                   available |-> {}]
    /\ step' = "labels"
    /\ UNCHANGED <<types, available, alters, column, row, mapping, delivered>>

LoadLabels ==
    /\ step = "labels"
    /\ catalog' = [catalog EXCEPT !.types =
                      [o \in DOMAIN @ |-> [@[o] EXCEPT !.labels = types[o].labels]]]
    /\ step' = "fields"
    /\ UNCHANGED <<types, available, alters, column, row, mapping, delivered>>

LoadFields ==
    /\ step = "fields"
    /\ catalog' = [types |-> [o \in DOMAIN catalog.types |-> [catalog.types[o] EXCEPT
                       !.deps = IF types[o].kind = "composite" THEN types[o].deps ELSE @,
                       !.fields = types[o].fields]],
                   available |-> available]
    /\ step' = "column"
    /\ UNCHANGED <<types, available, alters, column, row, mapping, delivered>>

Refused(logical, closure) == logical = Unmapped \/ closure = NoClosure

\* The column is mapped, and its definitions kept as evidence.
LoadColumn ==
    /\ step = "column"
    /\ LET logical == LogicalTypeWithCatalog(catalog, NativeType(types, column))
           closure == DefinitionClosure(catalog.types, column)
       IN IF Refused(logical, closure)
          THEN step' = "refused" /\ UNCHANGED mapping
          ELSE /\ step' = "streaming"
               /\ mapping' = [logical |-> logical, closure |-> closure,
                              representation |-> CapturesSourceRepresentation(catalog, column, logical)]
    /\ UNCHANGED <<types, available, alters, column, row, catalog, delivered>>

Image ==
    IF mapping.representation THEN Envelope(row.value)
    ELSE DecodeCatalogValue(catalog, column, Output(row.value))

Deliver ==
    /\ step = "streaming" /\ row # NoRow
    /\ delivered' = [row |-> row, result |-> Image]
    /\ IF Image = Undecoded THEN step' = "refused" /\ UNCHANGED row
                            ELSE row' = NoRow /\ UNCHANGED step
    /\ UNCHANGED <<types, available, alters, column, catalog, mapping>>

\* The task is started again and reads the directory anew.
Restart ==
    /\ step \in {"refused", "streaming"}
    /\ step' = "types"
    /\ catalog' = NoCatalog /\ mapping' = NoMapping /\ delivered' = Nothing
    /\ UNCHANGED <<types, available, alters, column, row>>

Next ==
    \/ CreateType \/ AlterType \/ CreateTable \/ WriteRow
    \/ LoadTypes \/ LoadLabels \/ LoadFields \/ LoadColumn
    \/ Deliver \/ Restart

Spec == Init /\ [][Next]_vars

-----------------------------------------------------------------------------
(* Properties.                                                             *)

LogicalKinds == {"value", "raw", "enum", "domain", "composite", "array", "range", "multirange"}

\* A source that streams holds a whole mapping of its column: no error is
\* passed on by LogicalTypeWithCatalog, even inside another type.
TypeOK ==
    /\ column \in {0} \cup DOMAIN types
    /\ DOMAIN types \subseteq Oids
    /\ alters \in Nat /\ Ddl <= MaxDdl
    /\ step \in {"types", "labels", "fields", "column", "streaming", "refused"}
    /\ step = "streaming" =>
          /\ mapping.logical.t \in LogicalKinds
          /\ \A i \in DOMAIN mapping.logical.parts : mapping.logical.parts[i].t \in LogicalKinds

\* A value and the logical type it should have.  Raw may stand for a decoded
\* value inside another type: the decoder knows two of the server's types by OID
\* that the mapping does not know by their catalog names.
Shaped(v, logical) == v.t = logical.t /\ v.names = logical.names

ConformsOne(p) ==
    \/ p[1] = Null
    \/ p[2] = Raw
    \/ p[1].t # "envelope" /\ Shaped(p[1], p[2])

ConformedParts(p) ==
    LET v == p[1]
        of(i) == p[2].parts[IF v.t = "composite" THEN i ELSE 1]
        bounds(r) == {<<r.parts[j], of(1)>> : j \in DOMAIN r.parts}
    IN CASE p[2] = Raw \/ ~ Shaped(v, p[2]) -> {}
         [] p[2] # Raw /\ Shaped(v, p[2]) /\ v.t = "multirange" ->
              UNION {bounds(v.parts[i]) : i \in DOMAIN v.parts}
         [] p[2] # Raw /\ Shaped(v, p[2]) /\ v.t # "multirange" ->
              {<<v.parts[i], of(i)>> : i \in DOMAIN v.parts}

WithParts(pairs) == pairs \cup UNION {ConformedParts(p) : p \in pairs}

Conforms(v, logical) ==
    \A p \in Iterate(WithParts, {<<v, logical>>}, MaxNesting) : ConformsOne(p)

\* The mapping a task is planned with and the decoder agree: what is mapped as
\* raw is delivered as text, and whatever is decoded has the shape mapped,
\* although one goes by names and declarations and the other by OIDs.
DeliveredAsMapped ==
    /\ step = "streaming" => (mapping.representation <=> mapping.logical = Raw)
    /\ step = "streaming" /\ delivered # Nothing =>
          delivered.result = Undecoded \/ Conforms(delivered.result, mapping.logical)

\* The definitions kept with a column explain it completely and pass the
\* check of the contract, whatever was created or altered between the
\* statements that read them.
EvidenceExplains ==
    step = "streaming" =>
        /\ ValidateTypeDefinitionClosure(mapping.closure, column)
        /\ \A e \in Range(mapping.closure.types) :
              Range(e[2].deps) \subseteq {f[1] : f \in Range(mapping.closure.types)}

\* A row of a type that is now defined as it was when the row was written is
\* delivered, and as what was written.
UnchangedIsDelivered ==
    (step \in {"streaming", "refused"} /\ delivered # Nothing
       /\ delivered.row.closure = DefinitionClosure(catalog.types, column))
    => delivered.result = IF mapping.representation THEN Envelope(delivered.row.value)
                          ELSE delivered.row.value

LeavesOf(v, below) ==
    IF v.parts = << >> THEN (IF v.s = "" THEN << >> ELSE <<v.s>>)
    ELSE FlattenSeq([i \in DOMAIN v.parts |-> below[v.parts[i]]])

LeafLists(below) == [v \in Nest(DOMAIN below) |-> LeavesOf(v, below)]

\* What a value holds besides its structure, in order.
Leaves(v) == Iterate(LeafLists, << >>, MaxNesting)[v]

\* A type altered between the writing of a row and the reading of the
\* directory never makes the decoder lose, add or move a value: the row is
\* refused instead.
NothingLost ==
    delivered # Nothing =>
        delivered.result = Undecoded \/ Leaves(delivered.result) = Leaves(delivered.row.value)
=============================================================================
