-------------------------- MODULE FieldRouteProofs --------------------------
(***************************************************************************)
(* Proofs about FieldRoute, for all columns, redefinitions, options and    *)
(* values.                                                                 *)
(*                                                                         *)
(* A running worker's plan is what the planner makes of the columns as     *)
(* they were when it started (StartedPlanned): Start replans before it     *)
(* runs, nothing changes the saved task while it runs, and a source that   *)
(* is redefined stops it.  The rest is what the planner promises of a plan *)
(* it calls compatible.                                                    *)
(***************************************************************************)
EXTENDS FieldRoute, WellFoundedInduction, TLAPS

(* The worker runs the plan of the columns it started with.                *)
StartedPlanned ==
    running =>
        /\ task # NoTask
        /\ FieldCompatibility(started.source, started.target, task.revision, task.options,
                              task.confirmations) = Result("compatible", task.plan)

LEMMA InitStartedPlanned == Init => StartedPlanned
BY DEF Init, StartedPlanned

(* Every action keeps the plan, the columns it was made for and the worker *)
(* together.                                                               *)
LEMMA StepKeepsStartedPlanned == StartedPlanned /\ [Next]_vars => StartedPlanned'
<1> SUFFICES ASSUME StartedPlanned, [Next]_vars PROVE StartedPlanned'
  OBVIOUS
<1>1. ASSUME UNCHANGED <<task, started, running>> PROVE StartedPlanned'
  BY <1>1 DEF StartedPlanned
<1>2. ASSUME running' = FALSE PROVE StartedPlanned'
  BY <1>2 DEF StartedPlanned
<1>3. CASE \E options \in OptionsFor(source, target) : PreviewField(options)
  BY <1>3, <1>1 DEF PreviewField
<1>4. CASE Confirm
  BY <1>4, <1>1 DEF Confirm
<1>5. CASE CreateTask
  BY <1>5, <1>2 DEF CreateTask, StartedPlanned
<1>6. CASE PreviewRequalify
  BY <1>6, <1>1 DEF PreviewRequalify
<1>7. CASE RequalifyTask
  BY <1>7, <1>2 DEF RequalifyTask, StartedPlanned
<1>8. CASE Start
  <2>1. /\ task' = task /\ task # NoTask /\ PlanCurrent
        /\ started' = [source |-> source, target |-> target]
    BY <1>8 DEF Start
  <2>2. started'.source = source /\ started'.target = target
    BY <2>1
  <2> QED
    BY <2>1, <2>2 DEF StartedPlanned, PlanCurrent
<1>9. CASE RefuseStart
  BY <1>9, <1>2 DEF RefuseStart, StartedPlanned
<1>10. CASE Stop
  BY <1>10, <1>2 DEF Stop
<1>11. ASSUME NEW v \in Samples(source), CopyRow(v) \/ RefuseCopy(v) \/ Row(v)
       PROVE  StartedPlanned'
  BY <1>11, <1>1, <1>2 DEF CopyRow, RefuseCopy, Row
<1>12. CASE FinishCopy
  BY <1>12, <1>1 DEF FinishCopy
<1>13. CASE \E column \in Redefinitions(source) : AlterSource(column)
  BY <1>13, <1>2 DEF AlterSource
<1>14. CASE \E column \in Redefinitions(target) : AlterTarget(column)
  BY <1>14, <1>1 DEF AlterTarget
<1>15. CASE UNCHANGED vars
  BY <1>15, <1>1 DEF vars
<1> QED
  BY <1>3, <1>4, <1>5, <1>6, <1>7, <1>8, <1>9, <1>10, <1>11, <1>12, <1>13, <1>14, <1>15 DEF Next

-----------------------------------------------------------------------------
(* What the planner promises.                                              *)

(* A field is compatible through one candidate entry of the manifest, with *)
(* the options it asks for, under its plan or the confirmed form of it.    *)
LEMMA CompatiblePlan ==
    ASSUME NEW s, NEW t, NEW revision, NEW options, NEW confirmations, NEW plan,
           FieldCompatibility(s, t, revision, options, confirmations) = Result("compatible", plan)
    PROVE  /\ Typed(s).key = Typed(t).key
           /\ \E e \in Candidates(Typed(s), Typed(t), options.rule) :
                 Confirmed(BuildPlan(e, Typed(s), Typed(t), revision, options), confirmations)
                     = Result("compatible", plan)
<1> DEFINE from == Typed(s)
           to == Typed(t)
           candidates == Candidates(from, to, options.rule)
           preferred == PreferredExact(candidates)
           e == CHOOSE x \in (IF preferred # {} THEN preferred ELSE candidates) : TRUE
<1>1. \A status, p : Result(status, p) = Result("compatible", plan) => status = "compatible"
  BY DEF Result
<1>2. Explained(from, to, revision, options, confirmations) = Result("compatible", plan)
  <2> DEFINE keyless == ColumnType(s) # NoType /\ s.keys = 0
             blocked == Result("blocked", NoPlan)
             explained == Explained(from, to, revision, options, confirmations)
  <2>1. blocked # Result("compatible", plan)
    BY <1>1
  <2>2. (IF keyless THEN blocked ELSE explained) = Result("compatible", plan)
    BY DEF FieldCompatibility
  <2> HIDE DEF keyless, blocked, explained
  <2>3. explained = Result("compatible", plan)
    BY <2>1, <2>2, Zenon
  <2> QED
    BY <2>3 DEF explained
<1>3. /\ from.key = to.key
      /\ Selected(candidates, preferred, from, to, revision, options, confirmations)
            = Result("compatible", plan)
  BY <1>1, <1>2 DEF Explained
<1>4. NothingQualifies(from, to) # "compatible"
  BY DEF NothingQualifies
<1>5. /\ candidates # {}
      /\ Configured(e, from, to, revision, options, confirmations) = Result("compatible", plan)
  <2> HIDE DEF from, to, candidates, preferred
  <2> QED
    BY <1>1, <1>3, <1>4 DEF Selected
<1>6. e \in candidates
  BY <1>5 DEF PreferredExact
<1>7. Confirmed(BuildPlan(e, from, to, revision, options), confirmations)
        = Result("compatible", plan)
  <2> HIDE DEF from, to, e
  <2> QED
    BY <1>1, <1>5 DEF Configured
<1> QED
  BY <1>3, <1>6, <1>7

(* A plan that is confirmed is the plan one of the confirmations names.    *)
LEMMA ConfirmedPlan ==
    ASSUME NEW e, NEW s, NEW t, NEW revision, NEW options, NEW confirmations, NEW plan,
           Confirmed(BuildPlan(e, s, t, revision, options), confirmations)
               = Result("compatible", plan),
           plan.confirmation = "confirmed"
    PROVE  \E c \in confirmations :
               /\ c.digest.sourceField = s /\ c.digest.targetField = t
               /\ c.digest.p = plan.p /\ c.digest.kind = plan.kind
<1> DEFINE built == BuildPlan(e, s, t, revision, options)
<1>1. built.confirmation \in {"required", "not_required"}
  BY DEF BuildPlan
<1>2. built.sourceField = s /\ built.targetField = t
  BY DEF BuildPlan
<1>3. [built EXCEPT !.confirmation = "confirmed"].p = built.p
      /\ [built EXCEPT !.confirmation = "confirmed"].kind = built.kind
  BY DEF BuildPlan
<1>4. /\ [built EXCEPT !.confirmation = ""].p = built.p
      /\ [built EXCEPT !.confirmation = ""].kind = built.kind
      /\ [built EXCEPT !.confirmation = ""].sourceField = built.sourceField
      /\ [built EXCEPT !.confirmation = ""].targetField = built.targetField
  BY DEF BuildPlan
<1> HIDE DEF built
<1>5. /\ \E c \in confirmations : ConfirmationMatches(built, c)
      /\ plan = [built EXCEPT !.confirmation = "confirmed"]
  <2>0. Confirmed(built, confirmations) = Result("compatible", plan)
    BY DEF built
  <2>1. \A status, p : Result(status, p) = Result("compatible", plan)
                         => status = "compatible" /\ p = plan
    BY DEF Result
  <2>2. CASE built.confirmation # "required"
    BY <1>1, <2>0, <2>1, <2>2 DEF Confirmed
  <2>3. CASE built.confirmation = "required"
    BY <2>0, <2>1, <2>3 DEF Confirmed
  <2> QED
    BY <2>2, <2>3
<1>6. PICK c \in confirmations : c = ConfirmationOf(built)
  BY <1>5 DEF ConfirmationMatches
<1>7. c.digest = [built EXCEPT !.confirmation = ""]
  BY <1>6 DEF ConfirmationOf
<1> QED
  BY <1>2, <1>3, <1>4, <1>5, <1>7

LEMMA FieldInvariant == Spec => []StartedPlanned
<1>1. QED
  BY InitStartedPlanned, StepKeepsStartedPlanned, PTL DEF Spec

(* A worker under a confirmed plan runs the conversion its administrator   *)
(* was shown, between the columns he was shown (create_task,               *)
(* requalify_task and the worker's check of the plan when it starts).      *)
THEOREM RunsWhatWasConfirmedHolds == Spec => []RunsWhatWasConfirmed
<1>1. StartedPlanned => RunsWhatWasConfirmed
  <2> SUFFICES ASSUME StartedPlanned, running, task.plan.confirmation = "confirmed"
               PROVE  \E c \in task.confirmations :
                          /\ c.digest.sourceField = Typed(started.source)
                          /\ c.digest.targetField = Typed(started.target)
                          /\ c.digest.p = task.plan.p /\ c.digest.kind = task.plan.kind
    BY DEF RunsWhatWasConfirmed
  <2>1. PICK e : Confirmed(BuildPlan(e, Typed(started.source), Typed(started.target),
                                     task.revision, task.options), task.confirmations)
                   = Result("compatible", task.plan)
    BY CompatiblePlan DEF StartedPlanned
  <2> QED
    BY <2>1, ConfirmedPlan
<1> QED
  BY <1>1, FieldInvariant, PTL

-----------------------------------------------------------------------------
(* Keys.                                                                   *)

(* What the proof needs of an entry: none that checks ranges is for keys,  *)
(* and the strategies for members are for members.                         *)
Sound(e, s, d) ==
    /\ e.key => e.range = ""
    /\ e.strategy \in {"", "enum_label", "set_members"}
    /\ e.strategy = "enum_label" => s.t = "enum"
    /\ e.strategy = "set_members" => s.t = "set" /\ d.base = "set"

LEMMA ExactSound ==
    ASSUME NEW s, NEW d, NEW code, NEW from, NEW native, NEW order, NEW padding, NEW specials, NEW format
    PROVE  /\ Sound(Exact(code, from, native), s, d)
           /\ Sound(ExactBits(code, from, native, order, padding), s, d)
           /\ Sound(ExactDecimal(from, native, specials), s, d)
           /\ Sound(ExactGeometry(code, format), s, d)
BY DEF Sound, Exact, ExactBits, ExactDecimal, ExactGeometry

LEMMA ExplicitSound ==
    ASSUME NEW s, NEW d, NEW code, NEW native, NEW kind, NEW fp
    PROVE  /\ Sound(Explicit(code, native, kind), s, d)
           /\ Sound(WithTextOptions(Explicit(code, native, kind)), s, d)
           /\ Sound(WithJsonOptions(Explicit(code, native, kind)), s, d)
           /\ Sound(WithTemporalOptions(Explicit(code, native, kind)), s, d)
           /\ Sound(ExplicitDuration(native, fp), s, d)
<1>1. Sound(Explicit(code, native, kind), s, d)
  BY DEF Sound, Exact, Explicit
<1>2. Sound(WithTextOptions(Explicit(code, native, kind)), s, d)
  BY DEF Sound, Exact, Explicit, WithTextOptions
<1>3. Sound(WithJsonOptions(Explicit(code, native, kind)), s, d)
  BY DEF Sound, Exact, Explicit, WithJsonOptions
<1>4. Sound(WithTemporalOptions(Explicit(code, native, kind)), s, d)
  BY DEF Sound, Exact, Explicit, WithTemporalOptions
<1>5. Sound(ExplicitDuration(native, fp), s, d)
  BY DEF Sound, Exact, Explicit, WithTemporalOptions, ExplicitDuration
<1> QED
  BY <1>1, <1>2, <1>3, <1>4, <1>5

LEMMA RangeSound ==
    ASSUME NEW s, NEW d, NEW code, NEW native, NEW range, NEW p
    PROVE  Sound(RangeChecked(code, native, range, p), s, d)
BY DEF Sound, Exact, RangeChecked

LEMMA MembersSound ==
    ASSUME NEW s, NEW d, NEW code, NEW native
    PROVE  /\ s.t = "enum" => /\ Sound(ExactMembers(code, native, "enum_label"), s, d)
                              /\ Sound(EnumByLabel, s, d)
           /\ s.t = "set" /\ d.base = "set" => Sound(ExactMembers(code, native, "set_members"), s, d)
BY DEF Sound, Exact, Explicit, ExactMembers, EnumByLabel

LEMMA CarrierSound ==
    ASSUME NEW s, NEW d, NEW native, NEW capacity
    PROVE  /\ Sound(LogicalValueCarrier(native, capacity), s, d)
           /\ Sound(SourceRepresentationCarrier(native, capacity), s, d)
BY DEF Sound, Exact, Explicit, LogicalValueCarrier, SourceRepresentationCarrier

LEMMA MySqlSound ==
    ASSUME NEW s, NEW d, NEW t, NEW e \in MySqlEntries(s, d, t)
    PROVE  Sound(e, s, d)
<1>1. ASSUME e \in MySqlNumbers(s, d) PROVE Sound(e, s, d)
  <2>1. \/ \E code : e = Exact(code, s, d)
        \/ \E code, range, p : e = RangeChecked(code, d, range, p)
    BY <1>1, SMT DEF MySqlNumbers, When
  <2> QED
    BY <2>1, ExactSound, RangeSound, Zenon
<1>2. ASSUME e \in MySqlText(s, d) PROVE Sound(e, s, d)
  <2>1. \/ \E code : e = Exact(code, s, d)
        \/ e = WithTextOptions(Explicit("text", d, "text"))
        \/ e = WithJsonOptions(Explicit("json_text", d, "json"))
    BY <1>2, SMT DEF MySqlText, When, Json
  <2> QED
    BY <2>1, ExactSound, ExplicitSound, Zenon
<1>3. ASSUME e \in MySqlBytes(s, d) PROVE Sound(e, s, d)
  <2>1. \/ \E code : e = Exact(code, s, d)
        \/ \E order, padding : e = ExactBits("bit", s, d, order, padding)
    BY <1>3, SMT DEF MySqlBytes, When
  <2> QED
    BY <2>1, ExactSound, Zenon
<1>4. ASSUME e \in MySqlTimes(s, d) PROVE Sound(e, s, d)
  <2>1. \/ \E code : e = Exact(code, s, d)
        \/ e = WithTemporalOptions(Explicit("temporal", d, "temporal"))
    BY <1>4, SMT DEF MySqlTimes, When
  <2> QED
    BY <2>1, ExactSound, ExplicitSound, Zenon
<1>5. ASSUME e \in MySqlStructures(s, d, t) PROVE Sound(e, s, d)
  <2>1. \/ \E code : e = Exact(code, s, d)
        \/ e = ExactGeometry("geometry", "wkb")
        \/ e = Explicit("json_value_carrier", d, "recursive")
        \/ \E capacity : e = LogicalValueCarrier(d, capacity)
        \/ \E capacity : e = SourceRepresentationCarrier(d, capacity)
    BY <1>5, SMT DEF MySqlStructures, When, Json
  <2> QED
    BY <2>1, ExactSound, ExplicitSound, CarrierSound, Zenon
<1>6. ASSUME e \in MySqlMembers(s, d) PROVE Sound(e, s, d)
  BY <1>6, MembersSound, ZenonT(40) DEF MySqlMembers, When
<1>7. ASSUME e \in MySqlFallbacks(s, d) PROVE Sound(e, s, d)
  BY <1>7, ExplicitSound, ZenonT(40) DEF MySqlFallbacks, When
<1> QED
  BY <1>1, <1>2, <1>3, <1>4, <1>5, <1>6, <1>7 DEF MySqlEntries

LEMMA PgSound ==
    ASSUME NEW s, NEW d, NEW e \in PgEntries(s, d)
    PROVE  Sound(e, s, d)
<1>1. ASSUME e \in PgNumbers(s, d) PROVE Sound(e, s, d)
  <2>1. \/ \E code : e = Exact(code, s, d)
        \/ e = ExactDecimal(s, d, {"NaN"})
        \/ e = RangeChecked("integer_domain", d, "integer", [signed |-> TRUE, bits |-> PgInts[d.base]])
        \/ e = RangeChecked("decimal_domain", d, "decimal",
                   [precision |-> d.args[1], scale |-> d.args[2], specials |-> {"NaN"}])
        \/ e = RangeChecked("float_domain", d, "float", [bits |-> 32])
    BY <1>1, ZenonT(60) DEF PgNumbers, When
  <2> QED
    BY <2>1, ExactSound, RangeSound, Zenon
<1>2. ASSUME e \in PgText(s, d) PROVE Sound(e, s, d)
  <2>1. \/ \E code : e = Exact(code, s, d)
        \/ e = WithTextOptions(Explicit("text", d, "text"))
        \/ e = WithJsonOptions(Explicit("json_text", d, "json"))
    BY <1>2, SMT DEF PgText, When, Json
  <2> QED
    BY <2>1, ExactSound, ExplicitSound, Zenon
<1>3. ASSUME e \in PgBytes(s, d) PROVE Sound(e, s, d)
  <2>1. \/ \E code : e = Exact(code, s, d)
        \/ \E code, from, native, order, padding : e = ExactBits(code, from, native, order, padding)
    BY <1>3, SMT DEF PgBytes, When
  <2> QED
    BY <2>1, ExactSound, Zenon
<1>4. ASSUME e \in PgTimes(s, d) PROVE Sound(e, s, d)
  <2>1. \/ \E code : e = Exact(code, s, d)
        \/ e = WithTemporalOptions(Explicit("temporal", d, "temporal"))
        \/ \E fp : e = ExplicitDuration(d, fp)
    BY <1>4, SMT DEF PgTimes, When
  <2> QED
    BY <2>1, ExactSound, ExplicitSound, Zenon
<1>5. ASSUME e \in PgStructures(s, d) PROVE Sound(e, s, d)
  <2>1. \/ \E code : e = Exact(code, s, d)
        \/ e = LogicalValueCarrier(d, PgFieldBytes)
        \/ e = SourceRepresentationCarrier(d, PgFieldBytes)
        \/ e = ExactGeometry(d.base, "ewkb")
        \/ s.t = "enum" /\ e = ExactMembers("enum", Declared("enum", << >>), "enum_label")
        \/ s.t = "enum" /\ e = EnumByLabel
        \/ e = Explicit("set", d, "")
    BY <1>5, ZenonT(60) DEF PgStructures, When
  <2> QED
    BY <2>1, ExactSound, ExplicitSound, CarrierSound, MembersSound, Zenon
<1> QED
  BY <1>1, <1>2, <1>3, <1>4, <1>5 DEF PgEntries

LEMMA EntriesSound ==
    ASSUME NEW s, NEW to, NEW e \in Entries(s, to)
    PROVE  Sound(e, s, to.decl)
BY MySqlSound, PgSound DEF Entries

(* A plan that runs is the plan that was built, confirmed or not.          *)
LEMMA PlanIsBuilt ==
    ASSUME NEW e, NEW s, NEW t, NEW revision, NEW options, NEW confirmations, NEW plan,
           Confirmed(BuildPlan(e, s, t, revision, options), confirmations)
               = Result("compatible", plan)
    PROVE  /\ plan.kind = PlanKind(e, s, t)
           /\ plan.range = e.range /\ plan.strategy = e.strategy
           /\ plan.p = PlanTarget(e, s, t, options.parameters)
<1> DEFINE built == BuildPlan(e, s, t, revision, options)
           asked == [built EXCEPT !.confirmation = "confirmed"]
<1>1. /\ built.kind = PlanKind(e, s, t)
      /\ built.range = e.range /\ built.strategy = e.strategy
      /\ built.p = PlanTarget(e, s, t, options.parameters)
  BY DEF BuildPlan
<1>2. /\ asked.kind = built.kind
      /\ asked.range = built.range /\ asked.strategy = built.strategy
      /\ asked.p = built.p
  BY DEF BuildPlan
<1>3. plan = built \/ plan = asked
  <2>0. Confirmed(built, confirmations) = Result("compatible", plan)
    OBVIOUS
  <2>1. \A status, p : Result(status, p) = Result("compatible", plan)
                         => status = "compatible" /\ p = plan
    BY DEF Result
  <2> HIDE DEF built
  <2> QED
    BY <2>0, <2>1 DEF Confirmed
<1> QED
  BY <1>1, <1>2, <1>3

(* What a compatible plan of a key column may do.                          *)
KeyPlan(plan, s, t) ==
    /\ plan.range = ""
    /\ plan.kind \in {"", "binary", "bit_string", "spatial"}
    /\ plan.kind = "binary" => plan.p.fixed = (t.decl.base = "binary")
    /\ plan.kind = "bit_string" => ColumnType(s).t = "bit_string"
    /\ plan.strategy \in {"", "enum_label", "set_members"}
    /\ plan.strategy = "enum_label" => ColumnType(s).t = "enum"
    /\ plan.strategy = "set_members" =>
          ColumnType(s).t = "set" /\ plan.kind = "" /\ plan.p.labels \in Seq(STRING)

LEMMA KeyPlanHolds ==
    ASSUME NEW s \in Columns, NEW t \in Columns, NEW revision, NEW options, NEW confirmations,
           NEW plan, s.key # 0,
           FieldCompatibility(s, t, revision, options, confirmations) = Result("compatible", plan)
    PROVE  KeyPlan(plan, s, t)
<1> DEFINE from == Typed(s)
           to == Typed(t)
<1>1. PICK e \in Candidates(from, to, options.rule) :
         Confirmed(BuildPlan(e, from, to, revision, options), confirmations)
             = Result("compatible", plan)
  BY CompatiblePlan
<1>2. /\ from.key = s.key /\ from.type = ColumnType(s)
      /\ to.type = ColumnType(t) /\ to.decl = t.decl
  BY DEF Typed
<1>3. from.key = to.key
  BY CompatiblePlan
<1> HIDE DEF from, to
<1>4. /\ e \in Entries(from.type, to)
      /\ IsCandidate(e, from, to, options.rule)
  BY <1>1 DEF Candidates
<1>5. Sound(e, from.type, to.decl)
  BY <1>4, EntriesSound
<1>6. e.key
  BY <1>2, <1>4 DEF IsCandidate, KeyLike
<1>7. e.kind = ""
  BY <1>2, <1>4 DEF IsCandidate, ExplicitMatchesBinding, KeyLike
<1>8. e.range = ""
  BY <1>5, <1>6 DEF Sound
<1>9. /\ plan.kind = PlanKind(e, from, to)
      /\ plan.range = e.range /\ plan.strategy = e.strategy
      /\ plan.p = PlanTarget(e, from, to, options.parameters)
  BY <1>1, PlanIsBuilt, SMT
<1>10. PlanKind(e, from, to) \in {"", "binary", "bit_string", "spatial"}
  BY <1>7 DEF PlanKind
<1>11. PlanKind(e, from, to) = "bit_string" => ColumnType(s).t = "bit_string"
  BY <1>2, <1>7 DEF PlanKind
<1>12. ASSUME plan.kind = "binary" PROVE plan.p.fixed = (t.decl.base = "binary")
  <2>0. from.type.t = "binary"
    BY <1>7, <1>9, <1>12 DEF PlanKind
  <2>1. plan.p = BinaryTarget(from, to)
    BY <1>8, <1>9, <1>12, <2>0 DEF PlanTarget
  <2>2. BinaryTarget(from, to).fixed = (to.decl.base = "binary")
    BY DEF BinaryTarget
  <2> QED
    BY <1>2, <2>1, <2>2
<1>13. ASSUME plan.strategy = "set_members"
       PROVE  ColumnType(s).t = "set" /\ plan.kind = "" /\ plan.p.labels \in Seq(STRING)
  <2>1. ColumnType(s).t = "set" /\ t.decl.base = "set"
    BY <1>2, <1>5, <1>9, <1>13 DEF Sound
  <2>2. ColumnType(t) \in SetTypes
    BY <2>1, ColumnsAssumption
  <2>3. ColumnType(t).t = "set" /\ ColumnType(t).labels \in Seq(STRING)
    BY <2>2 DEF SetTypes
  <2>4. plan.kind = ""
    BY <1>2, <1>7, <1>9, <2>1 DEF PlanKind
  <2>5. plan.p = [labels |-> to.type.labels]
    BY <1>2, <1>8, <1>9, <2>1, <2>3, <2>4 DEF PlanTarget
  <2>6. plan.p.labels = ColumnType(t).labels
    BY <1>2, <2>5
  <2> QED
    BY <2>1, <2>3, <2>4, <2>6
<1> QED
  BY <1>2, <1>5, <1>8, <1>9, <1>10, <1>11, <1>12, <1>13 DEF KeyPlan, Sound

(* The columns are columns of the databases.                               *)
ColumnsKnown ==
    /\ source \in Columns /\ target \in Columns
    /\ running => started.source \in Columns /\ started.target \in Columns

LEMMA InitColumnsKnown == Init => ColumnsKnown
<1> SUFFICES ASSUME Init PROVE ColumnsKnown
  OBVIOUS
<1>1. PICK pair \in Pairs : source = pair[1] /\ target = pair[2]
  BY DEF Init
<1>2. pair \in Columns \X Columns
  BY ColumnsAssumption
<1> QED
  BY <1>1, <1>2 DEF Init, ColumnsKnown

LEMMA StepKeepsColumnsKnown == ColumnsKnown /\ [Next]_vars => ColumnsKnown'
<1> SUFFICES ASSUME ColumnsKnown, [Next]_vars PROVE ColumnsKnown'
  OBVIOUS
<1>1. ASSUME UNCHANGED <<source, target, started>>, running' => running PROVE ColumnsKnown'
  BY <1>1 DEF ColumnsKnown
<1>2. CASE \E options \in OptionsFor(source, target) : PreviewField(options)
  BY <1>2, <1>1 DEF PreviewField
<1>3. CASE Confirm \/ CreateTask \/ PreviewRequalify \/ RequalifyTask
  BY <1>3, <1>1 DEF Confirm, CreateTask, PreviewRequalify, RequalifyTask
<1>4. CASE Start
  <2>1. /\ source' = source /\ target' = target
        /\ started' = [source |-> source, target |-> target]
    BY <1>4 DEF Start
  <2>2. started'.source = source /\ started'.target = target
    BY <2>1
  <2> QED
    BY <2>1, <2>2 DEF ColumnsKnown
<1>5. CASE RefuseStart \/ Stop \/ FinishCopy
  BY <1>5, <1>1 DEF RefuseStart, Stop, FinishCopy
<1>6. ASSUME NEW v \in Samples(source), CopyRow(v) \/ RefuseCopy(v) \/ Row(v)
      PROVE  ColumnsKnown'
  BY <1>6, <1>1 DEF CopyRow, RefuseCopy, Row
<1>7. ASSUME NEW column \in Redefinitions(source), AlterSource(column) PROVE ColumnsKnown'
  BY <1>7, ColumnsAssumption DEF AlterSource, ColumnsKnown
<1>8. ASSUME NEW column \in Redefinitions(target), AlterTarget(column) PROVE ColumnsKnown'
  BY <1>8, ColumnsAssumption DEF AlterTarget, ColumnsKnown
<1>9. CASE UNCHANGED vars
  BY <1>9, <1>1 DEF vars
<1> QED
  BY <1>2, <1>3, <1>4, <1>5, <1>6, <1>7, <1>8, <1>9 DEF Next

(* The bits of a number of eight bits can be read back.                    *)
Number(a0, a1, a2, a3, a4, a5, a6, a7) ==
    a0 + 2*a1 + 4*a2 + 8*a3 + 16*a4 + 32*a5 + 64*a6 + 128*a7

BitsAre(n, a0, a1, a2, a3, a4, a5, a6, a7) ==
    /\ a0 = n % 2 /\ a1 = (n \div 2) % 2
    /\ a2 = ((n \div 2) \div 2) % 2 /\ a3 = (((n \div 2) \div 2) \div 2) % 2
    /\ a4 = ((((n \div 2) \div 2) \div 2) \div 2) % 2
    /\ a5 = (((((n \div 2) \div 2) \div 2) \div 2) \div 2) % 2
    /\ a6 = ((((((n \div 2) \div 2) \div 2) \div 2) \div 2) \div 2) % 2
    /\ a7 = (((((((n \div 2) \div 2) \div 2) \div 2) \div 2) \div 2) \div 2) % 2

LEMMA BitsOfNumber ==
    ASSUME NEW a0 \in 0..1, NEW a1 \in 0..1, NEW a2 \in 0..1, NEW a3 \in 0..1,
           NEW a4 \in 0..1, NEW a5 \in 0..1, NEW a6 \in 0..1, NEW a7 \in 0..1,
           NEW n, n = Number(a0, a1, a2, a3, a4, a5, a6, a7)
    PROVE  BitsAre(n, a0, a1, a2, a3, a4, a5, a6, a7)
<1>1. \A p \in 0..1 : \A x, y \in Int : y = p + 2*x => p = y % 2 /\ x = y \div 2
  OBVIOUS
<1>2. a0 = n % 2 /\ a1 + 2*a2 + 4*a3 + 8*a4 + 16*a5 + 32*a6 + 64*a7 = (n \div 2)
  <2>1. n = a0 + 2*(a1 + 2*a2 + 4*a3 + 8*a4 + 16*a5 + 32*a6 + 64*a7)
    BY DEF Number
  <2> QED
    BY <1>1, <2>1
<1>3. a1 = (n \div 2) % 2 /\ a2 + 2*a3 + 4*a4 + 8*a5 + 16*a6 + 32*a7 = ((n \div 2) \div 2)
  <2>1. (n \div 2) = a1 + 2*(a2 + 2*a3 + 4*a4 + 8*a5 + 16*a6 + 32*a7)
    BY <1>2
  <2> QED
    BY <1>1, <2>1
<1>4. a2 = ((n \div 2) \div 2) % 2 /\ a3 + 2*a4 + 4*a5 + 8*a6 + 16*a7 = (((n \div 2) \div 2) \div 2)
  <2>1. ((n \div 2) \div 2) = a2 + 2*(a3 + 2*a4 + 4*a5 + 8*a6 + 16*a7)
    BY <1>3
  <2> QED
    BY <1>1, <2>1
<1>5. a3 = (((n \div 2) \div 2) \div 2) % 2 /\ a4 + 2*a5 + 4*a6 + 8*a7 = ((((n \div 2) \div 2) \div 2) \div 2)
  <2>1. (((n \div 2) \div 2) \div 2) = a3 + 2*(a4 + 2*a5 + 4*a6 + 8*a7)
    BY <1>4
  <2> QED
    BY <1>1, <2>1
<1>6. a4 = ((((n \div 2) \div 2) \div 2) \div 2) % 2 /\ a5 + 2*a6 + 4*a7 = (((((n \div 2) \div 2) \div 2) \div 2) \div 2)
  <2>1. ((((n \div 2) \div 2) \div 2) \div 2) = a4 + 2*(a5 + 2*a6 + 4*a7)
    BY <1>5
  <2> QED
    BY <1>1, <2>1
<1>7. a5 = (((((n \div 2) \div 2) \div 2) \div 2) \div 2) % 2 /\ a6 + 2*a7 = ((((((n \div 2) \div 2) \div 2) \div 2) \div 2) \div 2)
  <2>1. (((((n \div 2) \div 2) \div 2) \div 2) \div 2) = a5 + 2*(a6 + 2*a7)
    BY <1>6
  <2> QED
    BY <1>1, <2>1
<1>8. a6 = ((((((n \div 2) \div 2) \div 2) \div 2) \div 2) \div 2) % 2 /\ a7 = (((((((n \div 2) \div 2) \div 2) \div 2) \div 2) \div 2) \div 2)
  <2>1. ((((((n \div 2) \div 2) \div 2) \div 2) \div 2) \div 2) = a6 + 2*(a7)
    BY <1>7
  <2> QED
    BY <1>1, <2>1
<1>9. a7 = a7 % 2
  OBVIOUS
<1> QED
  BY <1>2, <1>3, <1>4, <1>5, <1>6, <1>7, <1>8, <1>9 DEF BitsAre

(* Eight bits make one byte.                                               *)
SameBits(a0, a1, a2, a3, a4, a5, a6, a7, b0, b1, b2, b3, b4, b5, b6, b7) ==
    /\ a0 = b0 /\ a1 = b1 /\ a2 = b2 /\ a3 = b3
    /\ a4 = b4 /\ a5 = b5 /\ a6 = b6 /\ a7 = b7

LEMMA PackedDiffers ==
    ASSUME NEW order,
           NEW a0 \in 0..1, NEW a1 \in 0..1, NEW a2 \in 0..1, NEW a3 \in 0..1,
           NEW a4 \in 0..1, NEW a5 \in 0..1, NEW a6 \in 0..1, NEW a7 \in 0..1,
           NEW b0 \in 0..1, NEW b1 \in 0..1, NEW b2 \in 0..1, NEW b3 \in 0..1,
           NEW b4 \in 0..1, NEW b5 \in 0..1, NEW b6 \in 0..1, NEW b7 \in 0..1,
           PackedByte(order, a0, a1, a2, a3, a4, a5, a6, a7)
               = PackedByte(order, b0, b1, b2, b3, b4, b5, b6, b7)
    PROVE  SameBits(a0, a1, a2, a3, a4, a5, a6, a7, b0, b1, b2, b3, b4, b5, b6, b7)
<1> DEFINE n == PackedByte(order, a0, a1, a2, a3, a4, a5, a6, a7)
<1>1. CASE order = "msb_first"
  <2>1. /\ BitMask(order, 0) = 128 /\ BitMask(order, 1) = 64
        /\ BitMask(order, 2) = 32 /\ BitMask(order, 3) = 16
        /\ BitMask(order, 4) = 8 /\ BitMask(order, 5) = 4
        /\ BitMask(order, 6) = 2 /\ BitMask(order, 7) = 1
    BY <1>1 DEF BitMask
  <2>2. PackedByte(order, a0, a1, a2, a3, a4, a5, a6, a7) = Number(a7, a6, a5, a4, a3, a2, a1, a0)
    BY <2>1 DEF PackedByte, Number
  <2>3. PackedByte(order, b0, b1, b2, b3, b4, b5, b6, b7) = Number(b7, b6, b5, b4, b3, b2, b1, b0)
    BY <2>1 DEF PackedByte, Number
  <2>4. n = Number(a7, a6, a5, a4, a3, a2, a1, a0) /\ n = Number(b7, b6, b5, b4, b3, b2, b1, b0)
    BY <2>2, <2>3
  <2> HIDE DEF n
  <2>5. BitsAre(n, a7, a6, a5, a4, a3, a2, a1, a0)
    BY <2>4, BitsOfNumber
  <2>6. BitsAre(n, b7, b6, b5, b4, b3, b2, b1, b0)
    BY <2>4, BitsOfNumber
  <2> QED
    BY <2>5, <2>6, Zenon DEF BitsAre, SameBits
<1>2. CASE order # "msb_first"
  <2>1. /\ BitMask(order, 0) = 1 /\ BitMask(order, 1) = 2
        /\ BitMask(order, 2) = 4 /\ BitMask(order, 3) = 8
        /\ BitMask(order, 4) = 16 /\ BitMask(order, 5) = 32
        /\ BitMask(order, 6) = 64 /\ BitMask(order, 7) = 128
    BY <1>2 DEF BitMask
  <2>2. PackedByte(order, a0, a1, a2, a3, a4, a5, a6, a7) = Number(a0, a1, a2, a3, a4, a5, a6, a7)
    BY <2>1 DEF PackedByte, Number
  <2>3. PackedByte(order, b0, b1, b2, b3, b4, b5, b6, b7) = Number(b0, b1, b2, b3, b4, b5, b6, b7)
    BY <2>1 DEF PackedByte, Number
  <2>4. n = Number(a0, a1, a2, a3, a4, a5, a6, a7) /\ n = Number(b0, b1, b2, b3, b4, b5, b6, b7)
    BY <2>2, <2>3
  <2> HIDE DEF n
  <2>5. BitsAre(n, a0, a1, a2, a3, a4, a5, a6, a7)
    BY <2>4, BitsOfNumber
  <2>6. BitsAre(n, b0, b1, b2, b3, b4, b5, b6, b7)
    BY <2>4, BitsOfNumber
  <2> QED
    BY <2>5, <2>6, Zenon DEF BitsAre, SameBits
<1> QED
  BY <1>1, <1>2

(* A byte is its eight bits.                                               *)
BitwiseAlike(a, b) ==
    /\ a % 2 = b % 2 /\ (a \div 2) % 2 = (b \div 2) % 2
    /\ (a \div 4) % 2 = (b \div 4) % 2 /\ (a \div 8) % 2 = (b \div 8) % 2
    /\ (a \div 16) % 2 = (b \div 16) % 2 /\ (a \div 32) % 2 = (b \div 32) % 2
    /\ (a \div 64) % 2 = (b \div 64) % 2 /\ (a \div 128) % 2 = (b \div 128) % 2

LEMMA ByteFromBits ==
    ASSUME NEW a \in 0..255, NEW b \in 0..255, BitwiseAlike(a, b)
    PROVE  a = b
<1>1. \A x, y \in Int : x % 2 = y % 2 /\ x \div 2 = y \div 2 => x = y
  OBVIOUS
<1>2. \A x \in Int : /\ (x \div 2) \div 2 = x \div 4 /\ (x \div 4) \div 2 = x \div 8
                    /\ (x \div 8) \div 2 = x \div 16 /\ (x \div 16) \div 2 = x \div 32
  OBVIOUS
<1>3. \A x \in Int : (x \div 32) \div 2 = x \div 64 /\ (x \div 64) \div 2 = x \div 128
  OBVIOUS
<1>4. \A x \in 0..255 : (x \div 128) \in 0..1
  OBVIOUS
<1>5. a \div 128 = b \div 128
  BY <1>4 DEF BitwiseAlike
<1>6. a \div 64 = b \div 64
  BY <1>1, <1>3, <1>5 DEF BitwiseAlike
<1>7. a \div 32 = b \div 32
  BY <1>1, <1>3, <1>6 DEF BitwiseAlike
<1>8. a \div 16 = b \div 16
  BY <1>1, <1>2, <1>7 DEF BitwiseAlike
<1>9. a \div 8 = b \div 8
  BY <1>1, <1>2, <1>8 DEF BitwiseAlike
<1>10. a \div 4 = b \div 4
  BY <1>1, <1>2, <1>9 DEF BitwiseAlike
<1>11. a \div 2 = b \div 2
  BY <1>1, <1>2, <1>10 DEF BitwiseAlike
<1> QED
  BY <1>1, <1>11 DEF BitwiseAlike

(* The bit a position names.                                               *)
LEMMA BitOfByte ==
    ASSUME NEW order, NEW bytes, NEW k \in Nat \ {0}, NEW i \in 0..7
    PROVE  BitAt(order, bytes, 8 * (k - 1) + i) = (bytes[k] \div BitMask(order, i)) % 2
<1>1. /\ (8 * (k - 1) + i) \div 8 = k - 1
      /\ (8 * (k - 1) + i) % 8 = i /\ i % 8 = i
  OBVIOUS
<1>2. (k - 1) + 1 = k
  OBVIOUS
<1>3. BitMask(order, 8 * (k - 1) + i) = BitMask(order, i)
  BY <1>1 DEF BitMask
<1> QED
  BY <1>1, <1>2, <1>3 DEF BitAt

AlikeAt(order, f, g, k) ==
    \A i \in 0..7 : BitAt(order, f, 8 * (k - 1) + i) = BitAt(order, g, 8 * (k - 1) + i)

SameAt(f, g, k) == f[k] = g[k]

LEMMA BytesFromBits ==
    ASSUME NEW order, NEW f, NEW g, NEW k \in Nat \ {0}, f[k] \in 0..255, g[k] \in 0..255,
           AlikeAt(order, f, g, k)
    PROVE  SameAt(f, g, k)
<1>1. \A i \in 0..7 : (f[k] \div BitMask(order, i)) % 2 = (g[k] \div BitMask(order, i)) % 2
  BY BitOfByte DEF AlikeAt
<1>2. CASE order = "msb_first"
  <2>1. /\ BitMask(order, 0) = 128 /\ BitMask(order, 1) = 64
        /\ BitMask(order, 2) = 32 /\ BitMask(order, 3) = 16
        /\ BitMask(order, 4) = 8 /\ BitMask(order, 5) = 4
        /\ BitMask(order, 6) = 2 /\ BitMask(order, 7) = 1
    BY <1>2 DEF BitMask
  <2>2. \A i \in {0, 1, 2, 3, 4, 5, 6, 7} : i \in 0..7
    OBVIOUS
  <2>3. /\ f[k] % 2 = g[k] % 2 /\ (f[k] \div 2) % 2 = (g[k] \div 2) % 2
        /\ (f[k] \div 4) % 2 = (g[k] \div 4) % 2 /\ (f[k] \div 8) % 2 = (g[k] \div 8) % 2
    BY <1>1, <2>1, <2>2
  <2>4. /\ (f[k] \div 16) % 2 = (g[k] \div 16) % 2 /\ (f[k] \div 32) % 2 = (g[k] \div 32) % 2
        /\ (f[k] \div 64) % 2 = (g[k] \div 64) % 2 /\ (f[k] \div 128) % 2 = (g[k] \div 128) % 2
    BY <1>1, <2>1, <2>2
  <2>5. f[k] = g[k]
    <3>1. BitwiseAlike(f[k], g[k])
      BY <2>3, <2>4 DEF BitwiseAlike
    <3> QED
      BY <3>1, ByteFromBits, Zenon
  <2> QED
    BY <2>5 DEF SameAt
<1>3. CASE order # "msb_first"
  <2>1. /\ BitMask(order, 0) = 1 /\ BitMask(order, 1) = 2
        /\ BitMask(order, 2) = 4 /\ BitMask(order, 3) = 8
        /\ BitMask(order, 4) = 16 /\ BitMask(order, 5) = 32
        /\ BitMask(order, 6) = 64 /\ BitMask(order, 7) = 128
    BY <1>3 DEF BitMask
  <2>2. \A i \in {0, 1, 2, 3, 4, 5, 6, 7} : i \in 0..7
    OBVIOUS
  <2>3. /\ f[k] % 2 = g[k] % 2 /\ (f[k] \div 2) % 2 = (g[k] \div 2) % 2
        /\ (f[k] \div 4) % 2 = (g[k] \div 4) % 2 /\ (f[k] \div 8) % 2 = (g[k] \div 8) % 2
    BY <1>1, <2>1, <2>2
  <2>4. /\ (f[k] \div 16) % 2 = (g[k] \div 16) % 2 /\ (f[k] \div 32) % 2 = (g[k] \div 32) % 2
        /\ (f[k] \div 64) % 2 = (g[k] \div 64) % 2 /\ (f[k] \div 128) % 2 = (g[k] \div 128) % 2
    BY <1>1, <2>1, <2>2
  <2>5. f[k] = g[k]
    <3>1. BitwiseAlike(f[k], g[k])
      BY <2>3, <2>4 DEF BitwiseAlike
    <3> QED
      BY <3>1, ByteFromBits, Zenon
  <2> QED
    BY <2>5 DEF SameAt
<1> QED
  BY <1>2, <1>3

(* What ConvertBitString writes as bit i of byte k.                        *)
WrittenBit(plan, u, k, i) ==
    IF 8 * (k - 1) + i < u.length THEN BitAt(u.order, u.bytes, 8 * (k - 1) + i)
    ELSE IF plan.p.padding = "one" THEN 1 ELSE 0

WrittenByte(plan, u, k) ==
    PackedByte(plan.p.order, WrittenBit(plan, u, k, 0), WrittenBit(plan, u, k, 1),
               WrittenBit(plan, u, k, 2), WrittenBit(plan, u, k, 3), WrittenBit(plan, u, k, 4),
               WrittenBit(plan, u, k, 5), WrittenBit(plan, u, k, 6), WrittenBit(plan, u, k, 7))

LEMMA WrittenBytes ==
    ASSUME NEW plan, NEW u \in BitStrings
    PROVE  /\ ConvertBitString(plan, u).v = "bit_string"
           /\ ConvertBitString(plan, u).bytes
                  = [k \in 1..Len(u.bytes) |-> WrittenByte(plan, u, k)]
<1> DEFINE f == [k \in 1..Len(u.bytes) |-> WrittenByte(plan, u, k)]
<1>1. ConvertBitString(plan, u)
        = [u EXCEPT !.bytes = f, !.order = plan.p.order, !.padding = plan.p.padding]
  BY DEF ConvertBitString, WrittenByte, WrittenBit
<1> HIDE DEF f
<1>2. [u EXCEPT !.bytes = f, !.order = plan.p.order, !.padding = plan.p.padding].v = "bit_string"
      /\ [u EXCEPT !.bytes = f, !.order = plan.p.order, !.padding = plan.p.padding].bytes = f
  BY DEF BitStrings
<1> QED
  BY <1>1, <1>2 DEF f

LEMMA ElementIn ==
    ASSUME NEW S, NEW f \in Seq(S), NEW k \in 1..Len(f)
    PROVE  f[k] \in S
OBVIOUS

LEMMA SameElements ==
    ASSUME NEW S, NEW f \in Seq(S), NEW g \in Seq(S), Len(f) = Len(g),
           \A k \in 1..Len(f) : f[k] = g[k]
    PROVE  f = g
OBVIOUS

LEMMA ParityIsBit ==
    ASSUME NEW x \in 0..255, NEW m \in {1, 2, 4, 8, 16, 32, 64, 128}
    PROVE  (x \div m) % 2 \in 0..1
<1>1. /\ (x \div 1) % 2 \in 0..1 /\ (x \div 2) % 2 \in 0..1
      /\ (x \div 4) % 2 \in 0..1 /\ (x \div 8) % 2 \in 0..1
  OBVIOUS
<1>2. /\ (x \div 16) % 2 \in 0..1 /\ (x \div 32) % 2 \in 0..1
      /\ (x \div 64) % 2 \in 0..1 /\ (x \div 128) % 2 \in 0..1
  OBVIOUS
<1> QED
  BY <1>1, <1>2

LEMMA BitIsBit ==
    ASSUME NEW u \in BitStrings, NEW k \in 1..Len(u.bytes), NEW i \in 0..7
    PROVE  BitAt(u.order, u.bytes, 8 * (k - 1) + i) \in 0..1
<1>0. u.bytes \in Seq(0..255)
  BY DEF BitStrings
<1>1. u.bytes[k] \in 0..255 /\ k \in Nat \ {0}
  <2>1. u.bytes[k] \in 0..255
    BY <1>0, ElementIn, Zenon
  <2>2. Len(u.bytes) \in Nat
    BY <1>0
  <2> QED
    BY <2>1, <2>2
<1>2. BitMask(u.order, i) \in {1, 2, 4, 8, 16, 32, 64, 128}
  BY SMTT(30) DEF BitMask
<1>3. (u.bytes[k] \div BitMask(u.order, i)) % 2 \in 0..1
  <2>1. PICK x \in 0..255 : x = u.bytes[k]
    BY <1>1, Zenon
  <2>2. PICK m \in {1, 2, 4, 8, 16, 32, 64, 128} : m = BitMask(u.order, i)
    BY <1>2, Zenon
  <2>3. (x \div m) % 2 \in 0..1
    BY ParityIsBit
  <2> QED
    BY <2>1, <2>2, <2>3, Zenon
<1>4. BitAt(u.order, u.bytes, 8 * (k - 1) + i) = (u.bytes[k] \div BitMask(u.order, i)) % 2
  BY <1>1, BitOfByte
<1> QED
  BY <1>3, <1>4

(* No two bit strings of one column are written alike.                     *)
LEMMA BitsDistinct ==
    ASSUME NEW plan, NEW v \in BitStrings, NEW w \in BitStrings,
           ValidateBitString(plan, v), ValidateBitString(plan, w),
           ConvertBitString(plan, v) = ConvertBitString(plan, w)
    PROVE  v = w
<1>1. /\ v.length = w.length /\ v.order = w.order /\ v.padding = w.padding
      /\ Len(v.bytes) = Len(w.bytes) /\ Len(v.bytes) = ByteCount(v.length)
  BY DEF ValidateBitString
<1>2. /\ v.length \in Nat /\ v.bytes \in Seq(0..255) /\ w.bytes \in Seq(0..255)
      /\ v.v = "bit_string" /\ w.v = "bit_string"
  BY DEF BitStrings
<1>3. ASSUME NEW k \in 1..Len(v.bytes) PROVE v.bytes[k] = w.bytes[k]
  <2>1. WrittenByte(plan, v, k) = WrittenByte(plan, w, k)
    <3>1. ConvertBitString(plan, v).bytes = [j \in 1..Len(v.bytes) |-> WrittenByte(plan, v, j)]
      BY WrittenBytes
    <3>2. ConvertBitString(plan, w).bytes = [j \in 1..Len(v.bytes) |-> WrittenByte(plan, w, j)]
      BY <1>1, WrittenBytes
    <3>3. ConvertBitString(plan, v).bytes[k] = WrittenByte(plan, v, k)
      BY <3>1
    <3>4. ConvertBitString(plan, w).bytes[k] = WrittenByte(plan, w, k)
      BY <3>2
    <3> QED
      BY <3>3, <3>4
  <2>2. ASSUME NEW u \in BitStrings, NEW i \in 0..7, k \in 1..Len(u.bytes)
        PROVE  WrittenBit(plan, u, k, i) \in 0..1
    <3>1. BitAt(u.order, u.bytes, 8 * (k - 1) + i) \in 0..1
      BY <2>2, BitIsBit
    <3> QED
      BY <3>1 DEF WrittenBit
  <2>3. k \in 1..Len(w.bytes)
    BY <1>1
  <2>4. ASSUME NEW i \in 0..7 PROVE WrittenBit(plan, v, k, i) = WrittenBit(plan, w, k, i)
    <3>1. \A i_1 \in 0..7 : WrittenBit(plan, v, k, i_1) \in 0..1 /\ WrittenBit(plan, w, k, i_1) \in 0..1
      BY <2>2, <2>3
    <3>2. /\ WrittenBit(plan, v, k, 0) = WrittenBit(plan, w, k, 0)
          /\ WrittenBit(plan, v, k, 1) = WrittenBit(plan, w, k, 1)
          /\ WrittenBit(plan, v, k, 2) = WrittenBit(plan, w, k, 2)
          /\ WrittenBit(plan, v, k, 3) = WrittenBit(plan, w, k, 3)
          /\ WrittenBit(plan, v, k, 4) = WrittenBit(plan, w, k, 4)
          /\ WrittenBit(plan, v, k, 5) = WrittenBit(plan, w, k, 5)
          /\ WrittenBit(plan, v, k, 6) = WrittenBit(plan, w, k, 6)
          /\ WrittenBit(plan, v, k, 7) = WrittenBit(plan, w, k, 7)
      <4>1. \A i_1 \in {0, 1, 2, 3, 4, 5, 6, 7} : i_1 \in 0..7
        OBVIOUS
      <4>2. PICK a0 \in 0..1, a1 \in 0..1, a2 \in 0..1, a3 \in 0..1,
                 a4 \in 0..1, a5 \in 0..1, a6 \in 0..1, a7 \in 0..1 :
               /\ a0 = WrittenBit(plan, v, k, 0) /\ a1 = WrittenBit(plan, v, k, 1)
               /\ a2 = WrittenBit(plan, v, k, 2) /\ a3 = WrittenBit(plan, v, k, 3)
               /\ a4 = WrittenBit(plan, v, k, 4) /\ a5 = WrittenBit(plan, v, k, 5)
               /\ a6 = WrittenBit(plan, v, k, 6) /\ a7 = WrittenBit(plan, v, k, 7)
        BY <3>1, <4>1, Zenon
      <4>3. PICK b0 \in 0..1, b1 \in 0..1, b2 \in 0..1, b3 \in 0..1,
                 b4 \in 0..1, b5 \in 0..1, b6 \in 0..1, b7 \in 0..1 :
               /\ b0 = WrittenBit(plan, w, k, 0) /\ b1 = WrittenBit(plan, w, k, 1)
               /\ b2 = WrittenBit(plan, w, k, 2) /\ b3 = WrittenBit(plan, w, k, 3)
               /\ b4 = WrittenBit(plan, w, k, 4) /\ b5 = WrittenBit(plan, w, k, 5)
               /\ b6 = WrittenBit(plan, w, k, 6) /\ b7 = WrittenBit(plan, w, k, 7)
        BY <3>1, <4>1, Zenon
      <4>4. PackedByte(plan.p.order, a0, a1, a2, a3, a4, a5, a6, a7)
              = PackedByte(plan.p.order, b0, b1, b2, b3, b4, b5, b6, b7)
        BY <2>1, <4>2, <4>3 DEF WrittenByte
      <4>5. SameBits(a0, a1, a2, a3, a4, a5, a6, a7, b0, b1, b2, b3, b4, b5, b6, b7)
        BY <4>4, PackedDiffers
      <4> QED
        BY <4>2, <4>3, <4>5 DEF SameBits
    <3>3. i \in {0, 1, 2, 3, 4, 5, 6, 7}
      OBVIOUS
    <3> QED
      BY <3>2, <3>3
  <2>5. ASSUME NEW i \in 0..7
        PROVE  BitAt(v.order, v.bytes, 8 * (k - 1) + i) = BitAt(v.order, w.bytes, 8 * (k - 1) + i)
    <3>1. CASE 8 * (k - 1) + i < v.length
      BY <1>1, <2>4, <3>1 DEF WrittenBit
    <3>2. CASE ~ (8 * (k - 1) + i < v.length)
      <4>1. 8 * (k - 1) + i \in PaddingPositions(v.length)
        BY <1>1, <1>2, <3>2, SMTT(30) DEF PaddingPositions, ByteCount
      <4> QED
        BY <1>1, <4>1 DEF ValidateBitString
    <3> QED
      BY <3>1, <3>2
  <2>6. v.bytes[k] \in 0..255 /\ w.bytes[k] \in 0..255 /\ k \in Nat \ {0}
    <3>1. v.bytes[k] \in 0..255 /\ w.bytes[k] \in 0..255
      BY <1>2, <2>3, ElementIn, Zenon
    <3>2. Len(v.bytes) \in Nat
      BY <1>2
    <3> QED
      BY <3>1, <3>2
  <2>7. AlikeAt(v.order, v.bytes, w.bytes, k)
    BY <2>5 DEF AlikeAt
  <2>8. SameAt(v.bytes, w.bytes, k)
    BY <2>6, <2>7, BytesFromBits, Zenon
  <2> QED
    BY <2>8 DEF SameAt
<1>4. v.bytes = w.bytes
  BY <1>1, <1>2, <1>3, SameElements, Zenon
<1> QED
  BY <1>1, <1>2, <1>4 DEF BitStrings

-----------------------------------------------------------------------------
(* Members.                                                                *)

(* A non-empty set of naturals has a least element.                        *)
Below == {p \in Nat \X Nat : p[1] < p[2]}

LEMMA LeastExists ==
  ASSUME NEW S \in SUBSET Nat, S # {}
  PROVE  \E m \in S : \A k \in S : m <= k
<1>1. IsWellFoundedOn(Below, Nat)
  BY NatLessThanWellFounded DEF OpToRel, Below
<1>2. PICK m \in S : \A k \in S : ~ (<<k, m>> \in Below)
  BY <1>1, WFMin
<1>3. ASSUME NEW k \in S, k < m PROVE FALSE
  <2>1. <<k, m>> \in Nat \X Nat /\ <<k, m>>[1] < <<k, m>>[2]
    BY <1>3
  <2>2. QED
    BY <1>2, <2>1 DEF Below
<1>4. QED
  BY <1>3, <1>2

(* f holds, for every i up to n, the members among the first i labels.     *)
Takes(f, labels, members, n) ==
    /\ f \in [0..n -> Seq(STRING)]
    /\ f[0] = << >>
    /\ \A i \in 1..n : f[i] = IF labels[i] \in members THEN Append(f[i - 1], labels[i])
                              ELSE f[i - 1]

LEMMA TakesExists ==
    ASSUME NEW labels \in Seq(STRING), NEW members, NEW n \in 0..Len(labels)
    PROVE  \E f : Takes(f, labels, members, n)
<1> DEFINE S == {k \in 0..Len(labels) : ~ \E f : Takes(f, labels, members, k)}
<1> SUFFICES ASSUME S # {} PROVE FALSE
  OBVIOUS
<1>1. PICK m \in S : \A k \in S : m <= k
  <2>1. S \in SUBSET Nat
    OBVIOUS
  <2> HIDE DEF S
  <2> QED
    BY <2>1, LeastExists
<1>2. m # 0
  <2>1. Takes([i \in 0..0 |-> << >>], labels, members, 0)
    BY DEF Takes
  <2> QED
    BY <2>1
<1>3. m - 1 \in 0..Len(labels) /\ m - 1 \notin S /\ m \in 1..Len(labels)
  BY <1>1, <1>2
<1>4. PICK f : Takes(f, labels, members, m - 1)
  BY <1>3
<1> DEFINE last == IF labels[m] \in members THEN Append(f[m - 1], labels[m]) ELSE f[m - 1]
           g == [i \in 0..m |-> IF i = m THEN last ELSE f[i]]
<1>5. \A i \in 0..(m - 1) : f[i] \in Seq(STRING)
  BY <1>4 DEF Takes
<1>6. last \in Seq(STRING)
  <2>1. labels[m] \in STRING /\ f[m - 1] \in Seq(STRING)
    BY <1>3, <1>5, ElementIn
  <2>2. Append(f[m - 1], labels[m]) \in Seq(STRING)
    BY <2>1
  <2> QED
    BY <2>1, <2>2, Zenon
<1> HIDE DEF last
<1>7. g \in [0..m -> Seq(STRING)]
  BY <1>3, <1>5, <1>6
<1>8. g[0] = << >>
  BY <1>3, <1>4 DEF Takes
<1>9. ASSUME NEW i \in 1..m
      PROVE  g[i] = IF labels[i] \in members THEN Append(g[i - 1], labels[i]) ELSE g[i - 1]
  <2>1. g[i - 1] = f[i - 1]
    BY <1>3, <1>9
  <2>2. CASE i = m
    BY <2>1, <2>2 DEF last
  <2>3. CASE i # m
    <3>1. g[i] = f[i] /\ i \in 1..(m - 1)
      BY <1>3, <2>3
    <3> QED
      BY <1>4, <2>1, <3>1 DEF Takes
  <2> QED
    BY <2>2, <2>3
<1> HIDE DEF g
<1>10. Takes(g, labels, members, m)
  BY <1>7, <1>8, <1>9 DEF Takes
<1> QED
  BY <1>1, <1>10

(* InOrderOf lists the members that are labels.                            *)
LEMMA InOrderOfTakes ==
    ASSUME NEW labels \in Seq(STRING), NEW members
    PROVE  \E f : Takes(f, labels, members, Len(labels)) /\ InOrderOf(labels, members) = f[Len(labels)]
<1> DEFINE n == Len(labels)
           taken[i \in 0..n] ==
               IF i = 0 THEN << >>
               ELSE IF labels[i] \in members THEN Append(taken[i - 1], labels[i])
               ELSE taken[i - 1]
<1>0. n \in 0..Len(labels)
  OBVIOUS
<1>1. PICK f : Takes(f, labels, members, n)
  BY <1>0, TakesExists
<1>2. f = [i \in 0..n |-> IF i = 0 THEN << >>
                         ELSE IF labels[i] \in members THEN Append(f[i - 1], labels[i])
                         ELSE f[i - 1]]
  <2>1. f = [i \in 0..n |-> f[i]]
    BY <1>1 DEF Takes
  <2>2. \A i \in 0..n : i # 0 => i \in 1..n
    OBVIOUS
  <2>3. ASSUME NEW i \in 0..n
        PROVE  f[i] = IF i = 0 THEN << >>
                      ELSE IF labels[i] \in members THEN Append(f[i - 1], labels[i])
                      ELSE f[i - 1]
    BY <1>1, <2>2 DEF Takes
  <2> QED
    BY <2>1, <2>3, Zenon
<1>3. taken = [i \in 0..n |-> IF i = 0 THEN << >>
                             ELSE IF labels[i] \in members THEN Append(taken[i - 1], labels[i])
                             ELSE taken[i - 1]]
  BY <1>2
<1>4. InOrderOf(labels, members) = taken[n]
  BY DEF InOrderOf
<1> HIDE DEF taken
<1>5. \A i \in 0..n : taken[i] = f[i]
  <2> DEFINE S == {i \in 0..n : taken[i] # f[i]}
  <2> SUFFICES ASSUME S # {} PROVE FALSE
    OBVIOUS
  <2>1. PICK m \in S : \A k \in S : m <= k
    <3>1. S \in SUBSET Nat
      OBVIOUS
    <3> HIDE DEF S
    <3> QED
      BY <3>1, LeastExists
  <2>2. m # 0
    BY <1>1, <1>3 DEF Takes
  <2>3. m - 1 \in 0..n /\ m - 1 \notin S /\ m \in 1..n
    BY <2>1, <2>2
  <2>4. taken[m] = IF labels[m] \in members THEN Append(taken[m - 1], labels[m])
                   ELSE taken[m - 1]
    BY <1>3, <2>2
  <2>5. f[m] = IF labels[m] \in members THEN Append(f[m - 1], labels[m]) ELSE f[m - 1]
    BY <1>1, <2>3 DEF Takes
  <2> QED
    BY <2>3, <2>4, <2>5
<1> QED
  BY <1>1, <1>4, <1>5

LEMMA TakenMembers ==
    ASSUME NEW labels \in Seq(STRING), NEW members, NEW f,
           Takes(f, labels, members, Len(labels)), NEW x
    PROVE  x \in Range(f[Len(labels)]) <=> x \in members /\ x \in Range(labels)
<1> DEFINE n == Len(labels)
           In(i) == \E j \in 1..Len(f[i]) : f[i][j] = x
           Right(i) == In(i) <=> x \in members /\ \E j \in 1..i : labels[j] = x
           S == {i \in 0..n : ~ Right(i)}
<1>1. \A i \in 0..n : f[i] \in Seq(STRING)
  BY DEF Takes
<1>2. Right(0)
  BY DEF Takes
<1>3. ASSUME NEW m \in 1..n, Right(m - 1) PROVE Right(m)
  <2>1. m - 1 \in 0..n /\ f[m - 1] \in Seq(STRING) /\ labels[m] \in STRING
    BY <1>1
  <2>2. CASE labels[m] \in members
    <3>1. f[m] = Append(f[m - 1], labels[m])
      BY <2>2 DEF Takes
    <3>2. In(m) <=> In(m - 1) \/ labels[m] = x
      BY <2>1, <3>1
    <3> QED
      BY <1>3, <2>2, <3>2
  <2>3. CASE labels[m] \notin members
    <3>1. f[m] = f[m - 1]
      BY <2>3 DEF Takes
    <3> QED
      BY <1>3, <2>3, <3>1
  <2> QED
    BY <2>2, <2>3
<1>4. S = {}
  <2> SUFFICES ASSUME S # {} PROVE FALSE
    OBVIOUS
  <2>1. PICK m \in S : \A k \in S : m <= k
    <3>1. S \in SUBSET Nat
      OBVIOUS
    <3> HIDE DEF S
    <3> QED
      BY <3>1, LeastExists
  <2> HIDE DEF Right
  <2>2. m \in 1..n /\ m - 1 \in 0..n /\ m - 1 \notin S
    BY <1>2, <2>1
  <2> QED
    BY <1>3, <2>1, <2>2
<1>5. Right(n)
  <2> HIDE DEF Right
  <2> QED
    BY <1>4
<1>6. x \in Range(labels) <=> \E j \in 1..n : labels[j] = x
  BY DEF Range
<1>7. x \in Range(f[n]) <=> In(n)
  BY <1>1 DEF Range
<1> QED
  BY <1>5, <1>6, <1>7

(* Two sets of labels that are written alike are alike.                    *)
LEMMA InOrderDistinct ==
    ASSUME NEW labels \in Seq(STRING), NEW A, NEW B,
           A \subseteq Range(labels), B \subseteq Range(labels),
           InOrderOf(labels, A) = InOrderOf(labels, B)
    PROVE  A = B
<1>1. PICK f : Takes(f, labels, A, Len(labels)) /\ InOrderOf(labels, A) = f[Len(labels)]
  BY InOrderOfTakes
<1>2. PICK g : Takes(g, labels, B, Len(labels)) /\ InOrderOf(labels, B) = g[Len(labels)]
  BY InOrderOfTakes
<1>3. ASSUME NEW x PROVE x \in A <=> x \in B
  <2>1. x \in Range(f[Len(labels)]) <=> x \in A /\ x \in Range(labels)
    BY <1>1, TakenMembers
  <2>2. x \in Range(g[Len(labels)]) <=> x \in B /\ x \in Range(labels)
    BY <1>2, TakenMembers
  <2>3. f[Len(labels)] = g[Len(labels)]
    BY <1>1, <1>2
  <2> QED
    BY <2>1, <2>2, <2>3
<1> QED
  BY <1>3

(* No two values of a SET are written alike.                               *)
LEMMA SetsDistinct ==
    ASSUME NEW plan, NEW labels, NEW v \in Sets, NEW w \in Sets, plan.p.labels \in Seq(STRING),
           v.labels = InOrderOf(labels, Range(v.labels)),
           w.labels = InOrderOf(labels, Range(w.labels)),
           ValidateMembers(plan, v), ValidateMembers(plan, w),
           ConvertMembers(plan, v) = ConvertMembers(plan, w)
    PROVE  v = w
<1>1. v.v = "set" /\ w.v = "set"
  BY DEF Sets
<1>2. /\ Range(v.labels) \subseteq Range(plan.p.labels)
      /\ Range(w.labels) \subseteq Range(plan.p.labels)
  BY <1>1 DEF ValidateMembers
<1>3. ASSUME NEW u \in Sets
      PROVE  ConvertMembers(plan, u).labels = InOrderOf(plan.p.labels, Range(u.labels))
  <2>1. u.v = "set"
    BY DEF Sets
  <2> DEFINE new == InOrderOf(plan.p.labels, Range(u.labels))
  <2>2. ConvertMembers(plan, u) = [u EXCEPT !.labels = new]
    BY <2>1 DEF ConvertMembers
  <2> HIDE DEF new
  <2>3. [u EXCEPT !.labels = new].labels = new
    BY DEF Sets
  <2> QED
    BY <2>2, <2>3 DEF new
<1>4. InOrderOf(plan.p.labels, Range(v.labels)) = InOrderOf(plan.p.labels, Range(w.labels))
  BY <1>3
<1>5. Range(v.labels) = Range(w.labels)
  BY <1>2, <1>4, InOrderDistinct
<1>6. v.labels = w.labels
  BY <1>5
<1> QED
  BY <1>1, <1>6 DEF Sets

(* What a key's conversion leaves alone.                                   *)
LEMMA KeptAsItIs ==
    ASSUME NEW plan, NEW s, NEW t, NEW v, KeyPlan(plan, s, t), t.decl.base # "binary",
           plan.kind # "bit_string",
           plan.strategy = "set_members" => v.v = "null",
           plan.strategy = "enum_label" => v.v \in {"null", "enum"}
    PROVE  ConvertDatum(plan, v, FALSE) = v
<1>1. CASE v.v = "null"
  BY <1>1 DEF ConvertDatum
<1>2. CASE v.v # "null"
  <2>1. plan.strategy # "set_members"
    BY <1>2
  <2>2. plan.kind \in {"", "binary", "spatial"} /\ plan.strategy \in {"", "enum_label"}
    BY <2>1 DEF KeyPlan
  <2>3. CASE plan.kind = "binary"
    <3>1. plan.p.fixed = FALSE
      BY <2>3 DEF KeyPlan
    <3>2. ConvertBinary(plan, v) = v
      BY <3>1 DEF ConvertBinary
    <3>3. ConvertValue(plan, v) = ConvertBinary(plan, v)
      BY <2>3 DEF ConvertValue
    <3> QED
      BY <3>2, <3>3 DEF ConvertDatum
  <2>4. CASE plan.kind = "" /\ plan.strategy = "enum_label"
    <3>1. ConvertMembers(plan, v) = v
      BY <1>2, <2>4 DEF ConvertMembers
    <3>2. ConvertValue(plan, v) = ConvertMembers(plan, v)
      BY <2>4 DEF ConvertValue
    <3> QED
      BY <3>1, <3>2 DEF ConvertDatum
  <2>5. CASE plan.kind = "spatial" \/ (plan.kind = "" /\ plan.strategy = "")
    <3>1. ConvertValue(plan, v) = v
      BY <2>5 DEF ConvertValue
    <3> QED
      BY <3>1 DEF ConvertDatum
  <2> QED
    BY <2>2, <2>3, <2>4, <2>5
<1> QED
  BY <1>1, <1>2

(* The checks a bit string and a SET go through.                           *)
LEMMA BitsChecked ==
    ASSUME NEW plan, NEW s, NEW t, NEW v \in BitStrings, KeyPlan(plan, s, t),
           plan.kind = "bit_string", Accepted(plan, v)
    PROVE  /\ ValidateBitString(plan, v)
           /\ ConvertDatum(plan, v, FALSE) = ConvertBitString(plan, v)
<1>1. v.v = "bit_string" /\ plan.range = ""
  BY DEF BitStrings, KeyPlan
<1>2. ValidateDatum(plan, v)
  BY DEF Accepted
<1>3. ValidateValue(plan, v)
  BY <1>1, <1>2 DEF ValidateDatum
<1>4. ValidateByKind(plan, v)
  BY <1>1, <1>3 DEF ValidateValue
<1>5. ValidateBitString(plan, v)
  BY <1>4 DEF ValidateByKind
<1>6. ConvertValue(plan, v) = ConvertBitString(plan, v)
  BY DEF ConvertValue
<1> QED
  BY <1>1, <1>5, <1>6 DEF ConvertDatum

LEMMA SetChecked ==
    ASSUME NEW plan, NEW s, NEW t, NEW v \in Sets, KeyPlan(plan, s, t),
           plan.strategy = "set_members", Accepted(plan, v)
    PROVE  /\ ValidateMembers(plan, v)
           /\ ConvertDatum(plan, v, FALSE) = ConvertMembers(plan, v)
<1>1. v.v = "set" /\ plan.range = "" /\ plan.kind = ""
  BY DEF Sets, KeyPlan
<1>2. ValidateDatum(plan, v)
  BY DEF Accepted
<1>3. ValidateValue(plan, v)
  BY <1>1, <1>2 DEF ValidateDatum
<1>4. ValidateByKind(plan, v)
  BY <1>1, <1>3 DEF ValidateValue
<1>5. ValidateMembers(plan, v)
  BY <1>1, <1>4 DEF ValidateByKind
<1>6. ConvertValue(plan, v) = ConvertMembers(plan, v)
  BY <1>1 DEF ConvertValue
<1> QED
  BY <1>1, <1>5, <1>6 DEF ConvertDatum

(* A NULL stays NULL, and nothing else becomes one.                        *)
LEMMA NullKept ==
    ASSUME NEW plan, NEW v, v.v = "null"
    PROVE  ConvertDatum(plan, v, FALSE) = v
BY DEF ConvertDatum

LEMMA SetStaysSet ==
    ASSUME NEW plan, NEW w \in Sets
    PROVE  ConvertMembers(plan, w).v = "set"
<1>1. w.v = "set"
  BY DEF Sets
<1> DEFINE new == InOrderOf(plan.p.labels, Range(w.labels))
<1>2. ConvertMembers(plan, w) = [w EXCEPT !.labels = new]
  BY <1>1 DEF ConvertMembers
<1> HIDE DEF new
<1>3. [w EXCEPT !.labels = new].v = "set"
  BY DEF Sets
<1> QED
  BY <1>2, <1>3

LEMMA KeysDistinct ==
    ASSUME NEW s \in Columns, NEW t \in Columns, NEW plan, KeyPlan(plan, s, t),
           t.decl.base # "binary", NEW v \in Samples(s), NEW w \in Samples(s),
           Accepted(plan, v), Accepted(plan, w),
           ConvertDatum(plan, v, FALSE) = ConvertDatum(plan, w, FALSE)
    PROVE  v = w
<1>1. SampleOf(s, v) /\ SampleOf(s, w)
  BY SamplesAssumption
<1>2. CASE v.v = "null" /\ w.v = "null"
  <2>1. ConvertDatum(plan, v, FALSE) = v
    BY <1>2, NullKept
  <2>2. ConvertDatum(plan, w, FALSE) = w
    BY <1>2, NullKept
  <2> QED
    BY <2>1, <2>2, Zenon
<1>3. CASE plan.kind = "bit_string"
  <2>1. ColumnType(s).t = "bit_string"
    BY <1>3 DEF KeyPlan
  <2>2. (v.v = "null" \/ v \in BitStrings) /\ (w.v = "null" \/ w \in BitStrings)
    BY <1>1, <2>1 DEF SampleOf
  <2>3. ASSUME NEW u \in BitStrings, Accepted(plan, u)
        PROVE  /\ ValidateBitString(plan, u)
               /\ ConvertDatum(plan, u, FALSE) = ConvertBitString(plan, u)
               /\ ConvertDatum(plan, u, FALSE).v = "bit_string"
    <3>1. /\ ValidateBitString(plan, u)
          /\ ConvertDatum(plan, u, FALSE) = ConvertBitString(plan, u)
      BY <1>3, <2>3, BitsChecked, Zenon
    <3>2. ConvertBitString(plan, u).v = "bit_string"
      BY WrittenBytes, Zenon
    <3> QED
      BY <3>1, <3>2, Zenon
  <2>4. CASE v \in BitStrings /\ w \in BitStrings
    BY <2>3, <2>4, BitsDistinct
  <2>5. CASE v.v = "null" /\ w \in BitStrings
    BY <2>3, <2>5, NullKept
  <2>6. CASE w.v = "null" /\ v \in BitStrings
    BY <2>3, <2>6, NullKept
  <2> QED
    BY <1>2, <2>2, <2>4, <2>5, <2>6
<1>4. CASE plan.kind # "bit_string" /\ plan.strategy = "set_members"
  <2>1. ColumnType(s).t = "set" /\ plan.p.labels \in Seq(STRING)
    BY <1>4 DEF KeyPlan
  <2> DEFINE labels == ColumnType(s).labels
  <2>2. /\ v.v = "null" \/ (v \in Sets /\ v.labels = InOrderOf(labels, Range(v.labels)))
        /\ w.v = "null" \/ (w \in Sets /\ w.labels = InOrderOf(labels, Range(w.labels)))
    BY <1>1, <2>1 DEF SampleOf
  <2> HIDE DEF labels
  <2>3. ASSUME NEW u \in Sets, Accepted(plan, u)
        PROVE  /\ ValidateMembers(plan, u)
               /\ ConvertDatum(plan, u, FALSE) = ConvertMembers(plan, u)
               /\ ConvertDatum(plan, u, FALSE).v = "set"
    BY <1>4, <2>3, SetChecked, SetStaysSet
  <2>4. CASE v.v # "null" /\ w.v # "null"
    <3>1. /\ v \in Sets /\ v.labels = InOrderOf(labels, Range(v.labels))
          /\ w \in Sets /\ w.labels = InOrderOf(labels, Range(w.labels))
      BY <2>2, <2>4
    <3>2. /\ ValidateMembers(plan, v) /\ ValidateMembers(plan, w)
          /\ ConvertMembers(plan, v) = ConvertMembers(plan, w)
      BY <2>3, <3>1
    <3> QED
      BY <2>1, <3>1, <3>2, SetsDistinct
  <2>5. CASE v.v = "null" /\ w.v # "null"
    BY <2>2, <2>3, <2>5, NullKept
  <2>6. CASE w.v = "null" /\ v.v # "null"
    BY <2>2, <2>3, <2>6, NullKept
  <2> QED
    BY <1>2, <2>4, <2>5, <2>6
<1>5. CASE plan.kind # "bit_string" /\ plan.strategy # "set_members"
  <2>1. ASSUME NEW u, SampleOf(s, u) PROVE ConvertDatum(plan, u, FALSE) = u
    <3>1. plan.strategy = "enum_label" => u.v \in {"null", "enum"}
      BY <2>1 DEF KeyPlan, SampleOf
    <3> QED
      BY <1>5, <3>1, KeptAsItIs
  <2> QED
    BY <1>1, <2>1
<1> QED
  BY <1>3, <1>4, <1>5

(* Two rows with different keys never meet under one key: whatever plan a  *)
(* worker runs for a key column, the conversion of convert_value_with_plan *)
(* tells apart all the values of the column that it accepts.               *)
THEOREM KeysStayDistinctHolds == Spec => []KeysStayDistinct
<1>1. StartedPlanned /\ ColumnsKnown => KeysStayDistinct
  <2> SUFFICES ASSUME StartedPlanned, ColumnsKnown, running, started.source.key # 0,
                      started.target.decl.base # "binary",
                      NEW v \in Samples(started.source), NEW w \in Samples(started.source),
                      Accepted(task.plan, v), Accepted(task.plan, w),
                      ConvertDatum(task.plan, v, FALSE) = ConvertDatum(task.plan, w, FALSE)
               PROVE  v = w
    BY DEF KeysStayDistinct
  <2>1. started.source \in Columns /\ started.target \in Columns
    BY DEF ColumnsKnown
  <2>2. FieldCompatibility(started.source, started.target, task.revision, task.options,
                           task.confirmations) = Result("compatible", task.plan)
    BY DEF StartedPlanned
  <2>3. KeyPlan(task.plan, started.source, started.target)
    BY <2>1, <2>2, KeyPlanHolds
  <2> QED
    BY <2>1, <2>3, KeysDistinct
<1>2. Spec => []ColumnsKnown
  BY InitColumnsKnown, StepKeepsColumnsKnown, PTL DEF Spec
<1> QED
  BY <1>1, <1>2, FieldInvariant, PTL

=============================================================================
