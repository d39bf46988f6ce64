----------------------------- MODULE FieldRoute -----------------------------
(***************************************************************************)
(* One column on its way from a source to a sink: an administrator looks   *)
(* at the conversion, confirms its risk and saves the task; the worker     *)
(* checks that the saved plan still holds and converts row after row,      *)
(* while the owners of the two databases may redefine the column at any    *)
(* time (web_ui/src/tasks.rs, runtime.rs, task_worker.rs over the planner  *)
(* and the conversion of change_event).                                    *)
(*                                                                         *)
(* A draft is previewed and created as revision 1 of its route; every      *)
(* requalification plans the next revision.                                *)
(***************************************************************************)
EXTENDS FieldPlanner, SinkBinding

CONSTANTS Columns,          \* the columns the databases may have
          Pairs,            \* the source and target columns a route may join
          Redefinitions(_), \* what the owner of a column may redefine it to
          OptionsFor(_, _),    \* the options an administrator may choose for a pair
          Samples(_),       \* the values a source column may hold
          MaxAlters,        \* how often a column is redefined
          MaxRevision       \* how far a task is requalified

ASSUME BoundsAssumption == MaxAlters \in Nat /\ MaxRevision \in Nat \ {0}

\* The type of a SET column: its members in the order of their declaration.
SetTypes == [t : {"set"}, labels : Seq(STRING)]

ASSUME ColumnsAssumption ==
    /\ Pairs \subseteq Columns \X Columns
    /\ \A c \in Columns : Redefinitions(c) \subseteq Columns
    /\ \A c \in Columns : c.key <= c.keys
    /\ \A c \in Columns : c.decl.base = "set" => ColumnType(c) \in SetTypes

BitStrings == [v : {"bit_string"}, length : Nat, bytes : Seq(0..255), order : STRING,
               padding : STRING]
Sets == [v : {"set"}, labels : Seq(STRING)]

\* A column holds NULL or values of its type.  A source lists the members of a
\* SET in the order of its declaration: they come as a bit mask.
SampleOf(c, v) ==
    \/ v.v = "null"
    \/ LET t == ColumnType(c) IN
       /\ t.t = "bit_string" => v \in BitStrings
       /\ t.t = "enum" => v.v = "enum"
       /\ t.t = "set" => v \in Sets /\ v.labels = InOrderOf(t.labels, Range(v.labels))

ASSUME SamplesAssumption == \A c \in Columns : \A v \in Samples(c) : SampleOf(c, v)

VARIABLES source,   \* the source column as the source database declares it
          target,   \* the target column as the sink declares it
          alters,   \* how many redefinitions have happened
          shown,    \* what the last preview said, with the plan it showed
          given,    \* the confirmations in the administrator's form
          task,     \* the saved task
          running,  \* whether its worker runs
          started,  \* the columns as they were when it started
          copied,   \* whether the sink's checkpoint is past the initial copy
          row       \* what became of the last row

vars == <<source, target, alters, shown, given, task, running, started, copied, row>>

NoTask == [revision |-> 0]
NoColumns == [none |-> TRUE]
NoRow == [outcome |-> "none"]
Nothing == Result("none", NoPlan)

Init ==
    /\ \E pair \in Pairs : source = pair[1] /\ target = pair[2]
    /\ alters = 0
    /\ shown = [result |-> Nothing, options |-> NoOptions]
    /\ given = {}
    /\ task = NoTask
    /\ running = FALSE
    /\ started = NoColumns
    /\ copied = (source.connector # "mysql")
    /\ row = NoRow

-----------------------------------------------------------------------------
(* The administrator.                                                      *)

\* The form is previewed with the options chosen so far.
PreviewField(options) ==
    /\ task = NoTask
    /\ shown' = [result |-> FieldCompatibility(source, target, 1, options, given),
                 options |-> options]
    /\ UNCHANGED <<source, target, alters, given, task, running, started, copied, row>>

\* He confirms the plan he is shown.
Confirm ==
    /\ shown.result.status = "needs_confirmation"
    /\ given' = {ConfirmationOf(shown.result.plan)}
    /\ UNCHANGED <<source, target, alters, shown, task, running, started, copied, row>>

\* Saving plans again, from what the databases say now.
CreateTask ==
    /\ task = NoTask
    /\ shown.result.status # "none"
    /\ \E result \in {FieldCompatibility(source, target, 1, shown.options, given)} :
          /\ result.status = "compatible"
          /\ task' = [revision |-> 1, options |-> shown.options, plan |-> result.plan,
                      confirmations |-> given, status |-> "valid"]
    /\ UNCHANGED <<source, target, alters, shown, given, running, started, copied, row>>

PreviewRequalify ==
    /\ task # NoTask /\ ~ running
    /\ task.revision < MaxRevision
    /\ shown' = [result |-> FieldCompatibility(source, target, task.revision + 1, task.options, {}),
                 options |-> task.options]
    /\ UNCHANGED <<source, target, alters, given, task, running, started, copied, row>>

\* What no longer plans leaves the task stale.
RequalifyTask ==
    /\ task # NoTask /\ ~ running
    /\ task.revision < MaxRevision
    /\ \E result \in {FieldCompatibility(source, target, task.revision + 1, task.options, given)} :
          task' = IF result.status = "compatible"
                  THEN [task EXCEPT !.revision = @ + 1, !.plan = result.plan,
                                    !.confirmations = given, !.status = "valid"]
                  ELSE [task EXCEPT !.status = "stale"]
    /\ UNCHANGED <<source, target, alters, shown, given, running, started, copied, row>>

-----------------------------------------------------------------------------
(* The worker.                                                             *)

\* The saved plan, replanned from today's columns with the task's own
\* confirmations, must come out unchanged.
PlanCurrent ==
    FieldCompatibility(source, target, task.revision, task.options, task.confirmations)
        = Result("compatible", task.plan)

Start ==
    /\ task # NoTask /\ ~ running
    /\ task.status = "valid" /\ task.plan.confirmation # "required"
    /\ PlanCurrent
    /\ running' = TRUE
    /\ started' = [source |-> source, target |-> target]
    /\ row' = NoRow
    /\ UNCHANGED <<source, target, alters, shown, given, task, copied>>

RefuseStart ==
    /\ task # NoTask /\ ~ running
    /\ task.status = "valid" /\ task.plan.confirmation # "required"
    /\ ~ PlanCurrent
    /\ task' = [task EXCEPT !.status = "stale"]
    /\ UNCHANGED <<source, target, alters, shown, given, running, started, copied, row>>

Stop ==
    /\ running
    /\ running' = FALSE
    /\ UNCHANGED <<source, target, alters, shown, given, task, started, copied, row>>

\* The sink binds what the conversion hands it, under the names of the plan.
SinkBinds(plan, v) ==
    IF plan.targetField.connector = "mysql"
    THEN MySqlPlanHeader(plan) /\ MySqlSupports(plan, plan.sourceField, v)
    ELSE /\ PgPlanHeader(plan)
         /\ PgSupports(plan, plan.sourceField, v, plan.targetField.decl.base)

\* The event is validated when it is read, before and after its conversion.
Accepted(plan, v) ==
    /\ ValidDatum(v)
    /\ ValidateDatum(plan, v)
    /\ Converts(plan, v)
    /\ ~ GeodeticMismatch(plan, plan.sourceField.decl.base)
    /\ LET converted == ConvertDatum(plan, v, plan.sourceField.generated)
       IN ValidDatum(converted) /\ SinkBinds(plan, converted)

\* The first start of a task with a MySQL source copies the table, with what
\* the sink's renderer makes of the source's own values: the copy knows no plan.
SnapshotSupports(column, v) ==
    \/ v.v = "null"
    \/ IF target.connector = "mysql"
       THEN /\ SourceValueType(column.decl.base, v, column.key)
            /\ CASE v.v = "text" -> v.charset \notin {"", "utf-8", "iso-8859-1"}
                 [] v.v = "spatial" -> MySqlSpatialValue(v)
                 [] OTHER -> BindLogicalValue(v)
       ELSE ParameterFor(v, column.decl.base)

\* What an absolute column holds of a local time: the session's zone is UTC.
Absolute(column) ==
    column.decl.base = (IF column.connector = "mysql" THEN "timestamp" ELSE "timestamptz")

HeldInUtc(column, v) ==
    IF v.v = "local_datetime" /\ Absolute(column)
    THEN [v |-> "instant", day |-> DaysFromCivil(v.year, v.month, v.day) + v.second \div 86400,
          second |-> v.second % 86400, nano |-> v.micro * 1000]
    ELSE v

CopyRow(v) ==
    /\ running /\ ~ copied
    /\ ValidDatum(v) /\ SnapshotSupports(source, v)
    /\ row' = [outcome |-> "copied", value |-> v, stored |-> HeldInUtc(target, v)]
    /\ UNCHANGED <<source, target, alters, shown, given, task, running, started, copied>>

\* The renderer or the sink itself refuses a row: nothing of the copy stays.
RefuseCopy(v) ==
    /\ running /\ ~ copied
    /\ row' = [outcome |-> "refused", value |-> v]
    /\ running' = FALSE
    /\ UNCHANGED <<source, target, alters, shown, given, task, started, copied>>

FinishCopy ==
    /\ running /\ ~ copied
    /\ copied' = TRUE
    /\ row' = NoRow
    /\ UNCHANGED <<source, target, alters, shown, given, task, running, started>>

\* A row is validated and converted before the sink sees it; a value outside
\* the plan's domain stops the task.
Row(v) ==
    /\ running /\ copied
    /\ IF Accepted(task.plan, v)
       THEN /\ row' = [outcome |-> "stored", value |-> v,
                       stored |-> ConvertDatum(task.plan, v, source.generated)]
            /\ UNCHANGED running
       ELSE /\ row' = [outcome |-> "refused", value |-> v]
            /\ running' = FALSE
    /\ UNCHANGED <<source, target, alters, shown, given, task, started, copied>>

-----------------------------------------------------------------------------
(* The databases.                                                          *)

\* The reader stops at a changed definition before any row that follows it;
\* the copy's read view holds off every redefinition until it ends.
AlterSource(column) ==
    /\ alters < MaxAlters
    /\ running => copied
    /\ source' = column
    /\ alters' = alters + 1
    /\ running' = FALSE
    /\ UNCHANGED <<target, shown, given, task, started, copied, row>>

\* The worker looks at the target only when it starts.
AlterTarget(column) ==
    /\ alters < MaxAlters
    /\ target' = column
    /\ alters' = alters + 1
    /\ UNCHANGED <<source, shown, given, task, running, started, copied, row>>

Next ==
    \/ \E options \in OptionsFor(source, target) : PreviewField(options)
    \/ Confirm
    \/ CreateTask
    \/ PreviewRequalify
    \/ RequalifyTask
    \/ Start
    \/ RefuseStart
    \/ Stop
    \/ \E v \in Samples(source) : CopyRow(v) \/ RefuseCopy(v) \/ Row(v)
    \/ FinishCopy
    \/ \E column \in Redefinitions(source) : AlterSource(column)
    \/ \E column \in Redefinitions(target) : AlterTarget(column)

Spec == Init /\ [][Next]_vars

-----------------------------------------------------------------------------
(* What the databases themselves say of a value, independently of the      *)
(* planner: the domains of the column types, the value behind a literal,   *)
(* the calendar.                                                           *)

SignedBits == [tinyint |-> 8, smallint |-> 16, mediumint |-> 24, int |-> 32, bigint |-> 64,
               integer |-> 32]

\* The digits of the number times 10^scale, exactly, if it has them.
HasScale(v, scale) == v.scale <= scale \/ Abs(v.coef) % Ten(v.scale - scale) = 0
Unscaled(v, scale) ==
    IF v.scale <= scale THEN v.coef * Ten(scale - v.scale) ELSE v.coef \div Ten(v.scale - scale)

FitsNumber(column, v) ==
    LET d == column.decl IN
    CASE d.base \in DOMAIN SignedBits ->
            v.v \in {"boolean", "year"} \/ IntFits(v.n, ~ d.unsigned, SignedBits[d.base])
      [] d.base = "numeric" /\ d.args = << >> -> TRUE
      [] d.base \in {"decimal", "numeric"} ->
            \/ v.special = "NaN" /\ d.base = "numeric"
            \/ /\ v.special = ""
               /\ HasScale(v, d.args[2])
               /\ Abs(Unscaled(v, d.args[2])) < Ten(d.args[1])
      [] d.base \in {"float", "real"} -> v.bits = 32 \/ (v.single /\ v.class = "finite")
      [] d.base \in {"double", "double precision"} -> TRUE

\* PostgreSQL's encoding is UTF8; MySQL's utf8 ends at three bytes.
CharsetHolds(column, v) ==
    v.v = "text" /\ column.connector = "mysql" => Encodable(column.charset, v.chars)

FitsString(column, v) ==
    LET d == column.decl IN
    CASE d.base \in {"varchar", "char"} /\ v.v = "text" -> Len(v.chars) <= d.args[1]
      [] d.base = "tinytext" -> EncodedLength(column.charset, v.chars) <= 255
      [] d.base = "varbinary" -> Len(v.bytes) <= d.args[1]
      [] d.base = "binary" -> Len(v.bytes) = d.args[1]
      [] d.base = "bit" -> v.length = d.args[1]
      [] d.base = "varbit" -> v.length <= d.args[1]
      [] d.base = "enum" -> v.label \in Range(d.labels)
      [] d.base = "set" -> Range(v.labels) \subseteq Range(d.labels)
      [] OTHER -> TRUE

FitsTime(column, v) ==
    LET digits == Arg(column.decl, 1, IF column.connector = "mysql" THEN 0 ELSE 6)
    IN (IF v.v = "instant" THEN v.nano \div 1000 ELSE v.micro) % Ten(6 - digits) = 0

Fits(column, v) ==
    \/ v.v \in {"null", "envelope"}
    \/ CASE column.decl.base \in DOMAIN SignedBits \cup
                {"decimal", "numeric", "float", "double", "real", "double precision"} ->
               FitsNumber(column, v)
         [] column.decl.base \in DOMAIN MySqlTemporals \cup {"timestamptz"} -> FitsTime(column, v)
         [] OTHER -> FitsString(column, v)

\* A bit string as its database shows it: PostgreSQL the digits it was sent,
\* MySQL the number its bytes spell, with zeros on the left.  The order that a
\* value declares says nothing to MySQL.
BitsShown(connector, v) ==
    IF connector = "mysql"
    THEN [i \in 1..v.length |-> BitAt("msb_first", v.bytes, 8 * Len(v.bytes) - v.length + i - 1)]
    ELSE BitText(v)

\* The days before a date, month by month and year by year.
DaysBefore(year, month, day) ==
    SumOf([y \in 1..(year - 1970) |-> IF LeapYear(1969 + y) THEN 366 ELSE 365])
    + SumOf([m \in 1..(month - 1) |-> DaysInMonth(year, m)]) + day - 1

\* The instant a value stands for in a zone, as a day and the microseconds of
\* the day in two parts.
Moment(v, zone) ==
    LET day == IF v.v = "instant" THEN v.day ELSE DaysBefore(v.year, v.month, v.day)
        second == v.second - (IF v.v = "instant" THEN 0 ELSE zone)
    IN <<day + second \div 86400, second % 86400,
         IF v.v = "instant" THEN v.nano \div 1000 ELSE v.micro>>

\* A number without the zeros it ends with.
Reduced(v) == <<v.special, IF v.coef = 0 THEN 0 ELSE v.coef \div Ten(TrailingZeros(v.coef)),
                IF v.coef = 0 THEN 0 ELSE v.scale - TrailingZeros(v.coef)>>

SameMeaning(v, stored, zone) ==
    CASE v.v = "decimal" -> stored.v = "decimal" /\ Reduced(v) = Reduced(stored)
      [] v.v \in {"text", "json"} -> stored.v \in {"text", "json"} /\ v.chars = stored.chars
      [] v.v = "binary" -> v.bytes = SubSeq(stored.bytes, 1, Len(v.bytes))
      [] v.v = "bit_string" -> BitsShown(started.source.connector, v)
                                   = BitsShown(started.target.connector, stored)
      [] v.v = "set" -> Range(v.labels) = Range(stored.labels)
      [] v.v \in {"local_datetime", "instant"} -> Moment(v, zone) = Moment(stored, zone)
      [] OTHER -> v = stored

-----------------------------------------------------------------------------
(* Properties.                                                             *)

TypeOK ==
    /\ alters \in 0..MaxAlters
    /\ shown.result.status \in {"none", "unmapped", "blocked", "unsupported",
                                 "needs_configuration", "needs_confirmation", "compatible"}
    /\ task # NoTask => /\ task.revision \in 1..MaxRevision
                        /\ task.status \in {"valid", "stale"}
    /\ running => task # NoTask /\ started # NoColumns
    /\ row.outcome \in {"none", "copied", "stored", "refused"}

\* Nothing asks how long a JSON document is as a text.
JsonLengthUnchecked(plan) == plan.kind = "json"

\* PostgreSQL's UTF8 passes for MySQL's three-byte utf8 of the same name.
NarrowerUtf8(plan) ==
    /\ plan.kind = "" /\ plan.source.t = "text" /\ plan.source.charset = "UTF8"
    /\ plan.targetField.charset = "utf8"

\* Whatever the sink is asked to store fits the column it was planned for: the
\* planner's entries, the value checks of the plan and the sink's own binding
\* leave no overflow, no cut text, no unknown label and no lost fraction to the
\* target database.  Two conversions are excepted, each in the one respect in
\* which it is not checked: the length of JSON that becomes text, and the
\* characters of PostgreSQL's UTF8 that MySQL's utf8 does not have.
StoredFits ==
    row.outcome = "stored" =>
        /\ Fits(started.target, row.stored) \/ JsonLengthUnchecked(task.plan)
        /\ CharsetHolds(started.target, row.stored) \/ NarrowerUtf8(task.plan)

\* The length policy of every text conversion is "reject" (mysql_8_0
\* compatibility.rs 935-952), and issue-18-logical-type-mapping.md:83 leaves no
\* overflow to run time.
\* The code does not keep this; the README says how (known disagreements).
LengthRejected == row.outcome = "stored" => Fits(started.target, row.stored)

\* change_event compatibility.rs 7722-7724: the legacy three-byte utf8 is "safe
\* only when the target is the wider encoding, never in the reverse direction".
\* The code does not keep this; the README says how (known disagreements).
NeverNarrowerUtf8 == row.outcome = "stored" => CharsetHolds(started.target, row.stored)

\* A MySQL BIT and a PostgreSQL bit string count their positions from opposite
\* ends.
BitsReordered == row.value.v = "bit_string" /\ started.source.connector # started.target.connector

\* What is stored means in the target what it meant in the source: the same
\* number, the same characters and labels, the same bytes up to padding, the
\* same moment in the zone the administrator gave, and between two servers of
\* one kind the same bit string.  From MySQL to PostgreSQL or back a bit string
\* only keeps each bit at the position the adapters give it, least significant
\* first for MySQL: BIT(12) 1 arrives as B'000000001000'.
MeaningKept ==
    row.outcome = "stored" /\ row.value.v # "null" =>
        IF BitsReordered THEN BitText(row.value) = BitText(row.stored)
        ELSE SameMeaning(row.value, row.stored,
                         IF task.plan.kind = "temporal" THEN task.plan.p.zone ELSE 0)

\* issue-18-logical-type-mapping.md:35: a short value of MySQL's BIT(M) has
\* zeros on the left.  An exact plan keeps the bit string.
\* The code does not keep this; the README says how (known disagreements).
BitsKept ==
    row.outcome = "stored" /\ row.value.v = "bit_string" => SameMeaning(row.value, row.stored, 0)

\* A worker that runs under a confirmed plan runs the conversion that was on
\* the screen when the administrator confirmed it, between the columns he was
\* shown, whatever was redefined between preview, save, start and now.
RunsWhatWasConfirmed ==
    running /\ task.plan.confirmation = "confirmed" =>
        \E c \in task.confirmations :
            /\ c.digest.sourceField = Typed(started.source)
            /\ c.digest.targetField = Typed(started.target)
            /\ c.digest.p = task.plan.p /\ c.digest.kind = task.plan.kind

\* Two rows with different keys never meet under one key in the target: no
\* conversion of a key column merges two of its values.  BINARY(n), which is
\* padded, is the exception.
KeysStayDistinct ==
    running /\ started.source.key # 0 /\ started.target.decl.base # "binary" =>
        \A v, w \in Samples(started.source) :
            /\ Accepted(task.plan, v) /\ Accepted(task.plan, w)
            /\ ConvertDatum(task.plan, v, FALSE) = ConvertDatum(task.plan, w, FALSE)
            => v = w

\* The plan the administrator confirmed is used for every row of the task: a
\* copied row stands for the same moment as the row that replaces it later.
PlanUsedForEveryRow ==
    row.outcome = "copied" /\ row.value.v = "local_datetime" /\ row.stored.v = "instant" =>
        SameMeaning(row.value, row.stored,
                    IF task.plan.kind = "temporal" THEN task.plan.p.zone ELSE 0)
=============================================================================
