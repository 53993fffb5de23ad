----------------------------- MODULE Assemblies -----------------------------
(***************************************************************************)
(* The assessment of a fastener assembly against the engineering library:  *)
(* the pairing of bolt and nut records                                     *)
(* (src/backend/library/compatibility_engine.py) and of strength classes   *)
(* (library/strength_compatibility.py), what the data of a friction        *)
(* condition supports (calculation_engine/friction_readiness.py and        *)
(* friction_recommendations.py), and the fourteen checks with their score  *)
(* (calculation_engine/assembly_intelligence.py).  An assessment reads the *)
(* library, which no request changes, and nothing else: it is a function   *)
(* of its inputs.  Messages are abstracted to the finding they report;     *)
(* lengths are in tenths of a millimetre, and None is an input not given   *)
(* or a field not recorded.                                                *)
(***************************************************************************)
EXTENDS Requests

CONSTANTS
  BoltRecords,         \* bolt library, in file order
  NutRecords,          \* nut library, in file order
  ThreadRecords,       \* thread library: designation and diameter
  WasherRecords,       \* washer library: standard and bolt sizes
  FrictionRecords,     \* friction condition library
  CoatingIds,          \* coating library
  LubricantIds,        \* lubrication library
  RegisteredStandards, \* backend.standards
  AssemblyInputs       \* the inputs of the requests

\* The inputs of an assembly: the parameters of assess_assembly.
InputFields ==
  {"bolt", "nut", "boltClass", "nutClass", "diameter", "thread", "size", "washer",
   "friction", "standard", "oem", "automotive", "temperature", "coating"}

\* Records of one designation share the diameter: the designation names it.
\* A friction range runs upwards (find_friction_min_max_violations).
ASSUME LibraryAssumption ==
  /\ \A i, j \in DOMAIN BoltRecords :
       BoltRecords[i].designation = BoltRecords[j].designation
         => BoltRecords[i].diameter = BoltRecords[j].diameter
  /\ \A i, j \in DOMAIN NutRecords :
       NutRecords[i].designation = NutRecords[j].designation
         => NutRecords[i].diameter = NutRecords[j].diameter
  /\ \A r \in FrictionRecords :
       r.overall # None => r.overall \in Nat \X Nat /\ r.overall[1] <= r.overall[2]
  /\ \A in \in AssemblyInputs : in = [f \in InputFields |-> in[f]]
  /\ None \notin Nat

----------------------------------------------------------------------------
(* Strength classes *)

CarbonBolts ==
  {"4.6", "4.8", "5.6", "5.8", "6.8", "8.8", "9.8", "10.9", "12.9"}

StainlessBolts == {"A2-70", "A4-70", "A4-80"}

\* The nut classes with a record in bolt_nut_strength_classes.json
NutClasses == {"04", "4", "5", "6", "8", "9", "10", "12"}

\* float(designation) of the nut classes; any other class raises.
NutNumeral ==
  [c \in NutClasses \cup {"05"} |->
     CASE c \in {"04", "4"} -> 4 [] c \in {"05", "5"} -> 5 [] c = "6" -> 6 [] c = "8" -> 8
       [] c = "9" -> 9 [] c = "10" -> 10 [] c = "12" -> 12]

\* MINIMUM_NUT_CLASS_FOR_BOLT_CLASS of the record pairing, as numerals
RecordMinimum ==
  [c \in CarbonBolts \cup {"3.6", "6.9"} |->
     CASE c \in {"3.6", "4.6", "4.8"} -> 4 [] c \in {"5.6", "5.8"} -> 5
       [] c \in {"6.8", "6.9"} -> 6 [] c = "8.8" -> 8 [] c = "9.8" -> 9
       [] c = "10.9" -> 10 [] c = "12.9" -> 12]

\* Mutant of ClassMinimum: 5.8 is taken for the weakest of the next numeral.
ClassMinimumRaised ==
  [c \in CarbonBolts |->
     CASE c \in {"4.6", "4.8"} -> 4 [] c = "5.6" -> 5 [] c \in {"5.8", "6.8"} -> 6
       [] c = "8.8" -> 8 [] c = "9.8" -> 9 [] c = "10.9" -> 10 [] c = "12.9" -> 12]

\* _MINIMUM_NUT_NUMERAL_FOR_BOLT_CLASS of the class pairing
ClassMinimum ==
  [c \in CarbonBolts |->
     CASE c \in {"4.6", "4.8"} -> 4 [] c \in {"5.6", "5.8"} -> 5 [] c = "6.8" -> 6
       [] c = "8.8" -> 8 [] c = "9.8" -> 9 [] c = "10.9" -> 10 [] c = "12.9" -> 12]

\* compatible_bolt_classes of the nut records.  NutPropertyClassRecord says the
\* pairing rules live here; no engine reads it: both pair by the numerals above.
CompatibleBolts ==
  [c \in NutClasses |->
     CASE c = "04" -> {"3.6", "4.6"}
       [] c = "4"  -> {"3.6", "4.6", "4.8"}
       [] c = "5"  -> {"4.6", "4.8", "5.6", "5.8"}
       [] c = "6"  -> {"5.6", "5.8", "6.8"}
       [] c = "8"  -> {"6.8", "8.8"}
       [] c = "9"  -> {"8.8", "9.8"}
       [] c = "10" -> {"9.8", "10.9"}
       [] c = "12" -> {"10.9", "12.9"}]

RecommendedNumerals == {4, 5, 6, 8, 9, 10, 12}

\* Mutant of RecommendedNut: the numeral must exceed what the bolt asks for.
RecommendedNutAbove(bolt) ==
  LET enough == IF bolt \in DOMAIN ClassMinimum
                  THEN {v \in RecommendedNumerals : v > ClassMinimum[bolt]} ELSE {}
  IN  IF enough = {} THEN None
      ELSE CHOOSE c \in NutClasses \ {"4"} : NutNumeral[c] = Min(enough)

\* The smallest numeral that suffices, written as a designation.
RecommendedNut(bolt) ==
  IF bolt \notin DOMAIN ClassMinimum THEN None
  ELSE LET n == Min({v \in RecommendedNumerals : v >= ClassMinimum[bolt]}) IN
         IF n = 4 THEN "04"
         ELSE CHOOSE c \in NutClasses : NutNumeral[c] = n

\* Bolt classes are recorded for M5 to M39, nut classes from M1.6 but for 9.
OutsideRange(bolt, nut, diameter) ==
  /\ diameter # None
  /\ ~(diameter \in 50..390 /\ diameter \in (IF nut = "9" THEN 50 ELSE 16)..390)

\* check_bolt_nut_strength_compatibility.  No nut class is stainless, so a
\* stainless bolt always crosses both material and standard family.
StrengthPairing(bolt, nut, diameter) ==
  IF bolt \notin CarbonBolts \cup StainlessBolts \/ nut \notin NutClasses
    THEN [status |-> "unknown", reasons |-> {"unrecognised"}, recommended |-> None]
    ELSE
      LET reasons ==
            (IF bolt \in DOMAIN ClassMinimum /\ NutNumeral[nut] < ClassMinimum[bolt]
               THEN {"strength"} ELSE {})
            \cup (IF bolt \in StainlessBolts THEN {"material", "standard"} ELSE {})
      IN  [status |-> IF reasons # {} THEN "not_compatible"
                      ELSE IF OutsideRange(bolt, nut, diameter) THEN "conditionally_compatible"
                      ELSE "compatible",
           reasons |-> reasons,
           recommended |-> RecommendedNut(bolt)]

----------------------------------------------------------------------------
(* A bolt record and a nut record *)

\* Two recorded values that differ; one that is not recorded differs from none.
Mismatch(a, b) == a # None /\ b # None /\ a # b

PairingErrors(bolt, nut) ==
  (IF None \in {bolt.diameter, nut.diameter} \/ bolt.diameter # nut.diameter
     THEN {"diameter"} ELSE {})
  \cup (IF Mismatch(bolt.pitch, nut.pitch) THEN {"pitch"} ELSE {})
  \cup (IF Mismatch(bolt.cut, nut.cut) THEN {"coarse_or_fine"} ELSE {})
  \cup (IF /\ bolt.class \in DOMAIN RecordMinimum
           /\ nut.class \in DOMAIN NutNumeral
           /\ NutNumeral[nut.class] < RecordMinimum[bolt.class]
          THEN {"strength"} ELSE {})

\* Findings that never block a pair.
PairingWarnings(bolt, nut) ==
  (IF None \notin {bolt.tolerance, nut.tolerance}
       /\ ~(bolt.tolerance = "external" /\ nut.tolerance = "internal")
     THEN {"tolerance"} ELSE {})
  \cup (IF /\ bolt.class \in DOMAIN RecordMinimum
           /\ nut.class \notin DOMAIN NutNumeral \cup {None}
          THEN {"strength_not_compared"} ELSE {})
  \cup (IF bolt.class # None /\ bolt.class \notin DOMAIN RecordMinimum
          THEN {"unrecognised_class"} ELSE {})
  \cup (IF /\ None \notin {bolt.min, bolt.max, nut.min, nut.max}
           /\ Max({bolt.min, nut.min}) > Min({bolt.max, nut.max})
          THEN {"temperature"} ELSE {})
  \cup (IF /\ bolt.coatings # {} /\ nut.coatings # {}
           /\ bolt.coatings \cap nut.coatings = {}
          THEN {"coating"} ELSE {})
  \cup (IF nut.singleUse THEN {"reuse"} ELSE {})
  \cup (IF Mismatch(bolt.family, nut.family) THEN {"standard_family"} ELSE {})
  \cup (IF Mismatch(bolt.lubrication, nut.lubrication) THEN {"lubrication"} ELSE {})

----------------------------------------------------------------------------
(* Friction conditions *)

FrictionRecord(id) == CHOOSE r \in FrictionRecords : r.id = id

\* An unknown id, a reference to no record or data without a source raises.
Resolvable(id) ==
  \E r \in FrictionRecords :
    /\ r.id = id
    /\ r.coating \in CoatingIds \cup {None}
    /\ r.lubricant \in LubricantIds \cup {None}
    /\ r.sourced

\* assess_friction_readiness.  A range with one end missing is no range.
FrictionReadiness(id, geometry, preload) ==
  LET r == FrictionRecord(id)
      mode == IF r.muThread # None /\ r.muBearing # None /\ geometry /\ preload
                THEN "separated"
              ELSE IF r.overall # None THEN "combined"
              ELSE "blocked"
  IN  [mode |-> mode,
       decomposition |-> mode = "separated",
       scenarios |-> mode = "combined",
       reasons |->
         IF mode = "separated" THEN {}
         ELSE IF mode = "blocked" THEN {"insufficient_friction_data"}
         ELSE {"unsupported_friction_model"}
              \cup (IF None \in {r.muThread, r.muBearing}
                      THEN {"insufficient_friction_data"} ELSE {})
              \cup (IF geometry THEN {} ELSE {"missing_joint_geometry"})]

HasSplit(r) == r.muThread # None /\ r.muBearing # None

FrictionWarnings(id) ==
  LET r == FrictionRecord(id)
      readiness == FrictionReadiness(id, FALSE, FALSE)
  IN  (IF r.model = "combined_or_unspecified" THEN {"combined"} ELSE {})
      \cup (IF r.referenceOnly THEN {"reference_only"} ELSE {})
      \cup (IF r.legacy THEN {"restricted_legacy"} ELSE {})
      \cup (IF readiness.reasons # {} /\ ~readiness.decomposition
              THEN {"torque_calculation"} ELSE {})

UseLevel ==
  [reference_comparison    |-> 2,
   engineering_calculation |-> 3,
   production_release      |-> 4]

Capabilities ==
  {"reference_comparison", "torque_sensitivity", "torque_recommendation",
   "lubricant_recommendation", "coating_recommendation", "production_approval"}

\* assess_recommendation_readiness: levels are numbered from warnings_only, 1,
\* to production_recommendation_ready, 4.  A use that asks for more than the
\* data supports is answered with a warning.
RecommendationReadiness(id, use) ==
  LET r == FrictionRecord(id)
      incomplete == r.coating = None /\ r.lubricant = None
      available ==
        (IF r.overall # None /\ ~incomplete THEN {"reference_comparison"} ELSE {})
        \cup (IF HasSplit(r) \/ r.kFactor # None THEN {"torque_sensitivity"} ELSE {})
      level == IF "reference_comparison" \in available THEN 2 ELSE 1
  IN  [available |-> ~incomplete,
       level |-> level,
       capabilities |-> available,
       blocked |-> Capabilities \ available,
       warnings |-> FrictionWarnings(id)
         \cup (IF use \in DOMAIN UseLevel /\ level < UseLevel[use]
                 THEN {"intended_use"} ELSE {})]

RangeRelation(a, b) ==
  IF None \in {a, b} THEN "not_comparable"
  ELSE IF a = b THEN "identical"
  ELSE IF a[2] < b[1] THEN "a_lower"
  ELSE IF b[2] < a[1] THEN "b_lower"
  ELSE "overlapping"

WidthRelation(a, b) ==
  IF None \in {a, b} THEN "not_comparable"
  ELSE LET wa == a[2] - a[1]
           wb == b[2] - b[1]
       IN  IF wa = wb THEN "equal_width" ELSE IF wa < wb THEN "a_narrower" ELSE "b_narrower"

\* compare_friction_conditions
Comparison(idA, idB) ==
  LET a == FrictionRecord(idA)
      b == FrictionRecord(idB)
  IN  [range |-> RangeRelation(a.overall, b.overall),
       width |-> WidthRelation(a.overall, b.overall),
       source |-> IF a.referenceOnly = b.referenceOnly THEN "same" ELSE "different"]

----------------------------------------------------------------------------
(* The fourteen checks *)

Verdict(ok) == IF ok THEN "compatible" ELSE "incompatible"

\* The first record of a designation, whatever class and standard it has.
Resolve(records, designation) ==
  LET found == {i \in DOMAIN records : records[i].designation = designation} IN
    IF designation = None \/ found = {} THEN None ELSE records[Min(found)]

CheckPair(bolt, nut) ==
  IF None \in {bolt, nut} THEN "insufficient_data"
  ELSE Verdict(PairingErrors(bolt, nut) = {})

CheckStrength(in) ==
  IF None \in {in.boltClass, in.nutClass} THEN "insufficient_data"
  ELSE LET status == StrengthPairing(in.boltClass, in.nutClass, in.diameter).status IN
         IF status = "unknown" THEN "insufficient_data" ELSE Verdict(status = "compatible")

CheckThread(in) ==
  IF in.thread = None THEN "insufficient_data"
  ELSE Verdict(\E r \in ThreadRecords :
                 /\ r.designation = in.thread
                 /\ in.diameter \in {None, r.diameter})

WashersFor(size) == {w \in WasherRecords : size \in w.sizes}

CheckWasher(in) ==
  IF in.size = None THEN "insufficient_data" ELSE Verdict(WashersFor(in.size) # {})

\* No washer of that size at all is for the check before this one.
CheckWasherDiameter(in) ==
  IF None \in {in.size, in.washer} \/ WashersFor(in.size) = {} THEN "insufficient_data"
  ELSE Verdict(\E w \in WashersFor(in.size) : w.standard = in.washer)

CheckFriction(in) ==
  IF in.friction = None THEN "insufficient_data"
  ELSE IF ~Resolvable(in.friction) THEN "incompatible"
  ELSE LET readiness == FrictionReadiness(in.friction, FALSE, FALSE) IN
         IF readiness.decomposition \/ readiness.scenarios
           THEN "compatible" ELSE "insufficient_data"

CheckReference(name) ==
  IF name = None THEN "insufficient_data" ELSE Verdict(name \in RegisteredStandards)

\* A record whose range is incomplete rejects nothing.
CheckTemperature(bolt, nut, temperature) ==
  IF None \in {bolt, nut, temperature} \/ (bolt.min = None /\ nut.min = None)
    THEN "insufficient_data"
    ELSE Verdict(\A r \in {bolt, nut} :
                   None \notin {r.min, r.max} => temperature \in r.min..r.max)

CheckCoating(bolt, nut, coating) ==
  IF None \in {bolt, nut, coating} \/ (bolt.coatings = {} /\ nut.coatings = {})
    THEN "insufficient_data"
    ELSE Verdict(\A r \in {bolt, nut} : r.coatings # {} => coating \in r.coatings)

AssemblyChecks(in) ==
  LET bolt == Resolve(BoltRecords, in.bolt)
      nut == Resolve(NutRecords, in.nut)
  IN  [bolt_nut_dimensional |-> CheckPair(bolt, nut),
       bolt_washer |-> CheckWasher(in),
       washer_diameter |-> CheckWasherDiameter(in),
       thread |-> CheckThread(in),
       strength_class |-> CheckStrength(in),
       friction_condition |-> CheckFriction(in),
       intended_use |-> "blocked_authoritative_source",
       operating_temperature |-> CheckTemperature(bolt, nut, in.temperature),
       coating |-> CheckCoating(bolt, nut, in.coating),
       material |-> "blocked_authoritative_source",
       standard |-> CheckReference(in.standard),
       oem_recommendation |-> CheckReference(in.oem),
       defence_recommendation |-> "blocked_authoritative_source",
       automotive_recommendation |-> CheckReference(in.automotive)]

With(checks, statuses) == {c \in DOMAIN checks : checks[c] \in statuses}

\* round(part / whole * 100, 2), in hundredths
Percent(part, whole) == (20000 * part + whole) \div (2 * whole)

Percentages == 0..10000

\* Mutant of AssessAssembly: what cannot be assessed counts as compatible.
AssessAssemblyOptimistic(in) ==
  LET checks == AssemblyChecks(in)
      assessed == With(checks, {"compatible", "incompatible", "insufficient_data"})
      critical == With(checks, {"incompatible"})
  IN  [checks |-> checks,
       score |-> IF assessed = {} THEN None
                 ELSE Percent(Cardinality(assessed \ critical), Cardinality(assessed)),
       assessed |-> Cardinality(assessed),
       insufficient |-> Cardinality(With(checks, {"insufficient_data"})),
       blocked |-> Cardinality(With(checks, {"blocked_authoritative_source"})),
       coverage |-> Percent(Cardinality(assessed), Cardinality(DOMAIN checks)),
       critical |-> critical]

AssessAssembly(in) ==
  LET checks == AssemblyChecks(in)
      assessed == With(checks, {"compatible", "incompatible"})
      critical == With(checks, {"incompatible"})
  IN  [checks |-> checks,
       score |-> IF assessed = {} THEN None
                 ELSE Percent(Cardinality(assessed \ critical), Cardinality(assessed)),
       assessed |-> Cardinality(assessed),
       insufficient |-> Cardinality(With(checks, {"insufficient_data"})),
       blocked |-> Cardinality(With(checks, {"blocked_authoritative_source"})),
       coverage |-> Percent(Cardinality(assessed), Cardinality(DOMAIN checks)),
       critical |-> critical]

----------------------------------------------------------------------------
(* The requests: each is answered from the library alone. *)

\* The pairing of the resolved records is passed through with its findings.
Pairing(in) ==
  LET bolt == Resolve(BoltRecords, in.bolt)
      nut == Resolve(NutRecords, in.nut)
  IN  IF None \in {bolt, nut} THEN None
      ELSE [errors |-> PairingErrors(bolt, nut), warnings |-> PairingWarnings(bolt, nut)]

AskAssembly(t) ==
  /\ IsIdle(t)
  /\ \E in \in AssemblyInputs :
       Goto(t, [at |-> "assembly_answered", in |-> in, pairing |-> Pairing(in),
                answer |-> AssessAssembly(in)])

FrictionIds == {r.id : r \in FrictionRecords}

AskFriction(t) ==
  /\ IsIdle(t)
  /\ \E id \in FrictionIds, use \in DOMAIN UseLevel \cup {None},
        geometry, preload \in BOOLEAN :
       /\ Resolvable(id)
       /\ Goto(t, [at |-> "friction_answered", id |-> id, use |-> use,
                   readiness |-> FrictionReadiness(id, geometry, preload),
                   answer |-> RecommendationReadiness(id, use)])

AskComparison(t) ==
  /\ IsIdle(t)
  /\ \E a, b \in FrictionIds :
       /\ Resolvable(a)
       /\ Resolvable(b)
       /\ Goto(t, [at |-> "comparison_answered", a |-> a, b |-> b,
                   answer |-> Comparison(a, b)])

AssemblyStep(t) == AskAssembly(t) \/ AskFriction(t) \/ AskComparison(t)

AssembliesNext == \E t \in Threads : AssemblyStep(t) \/ Leave(t)

AssembliesSpec == InitCalls /\ [][AssembliesNext]_calls
----------------------------------------------------------------------------
(* What is promised. *)

AssembliesTypeOK ==
  \A t \in Threads :
    \/ calls[t] = Idle
    \/ /\ At(t, "assembly_answered")
       /\ calls[t].in \in AssemblyInputs
       /\ calls[t].answer.score \in Percentages \cup {None}
       /\ calls[t].answer.coverage \in Percentages
    \/ /\ At(t, "friction_answered")
       /\ calls[t].id \in FrictionIds
       /\ calls[t].answer.level \in 1..4
       /\ calls[t].answer.capabilities \subseteq Capabilities
    \/ At(t, "comparison_answered") /\ {calls[t].a, calls[t].b} \subseteq FrictionIds

\* The score never hides an incompatibility: a full score means that something
\* was assessed and nothing rejected, checks without data neither raise nor
\* lower it, and every check is counted in exactly one way.
ScoreHidesNothing ==
  \A call \in Answered("assembly_answered") :
    LET answer == call.answer
        good == With(answer.checks, {"compatible"})
    IN  /\ answer.score = None <=> answer.critical \cup good = {}
        /\ answer.score # None => (answer.score = 10000 <=> answer.critical = {})
        /\ answer.score # None => (answer.score = 0 <=> good = {})
        /\ answer.assessed + answer.insufficient + answer.blocked = 14
        /\ answer.assessed = Cardinality(answer.critical \cup good)

\* To withhold an input never brings an incompatibility to light, and to give
\* one never makes an incompatibility disappear.
MoreInputHidesNothing ==
  \A call \in Answered("assembly_answered") :
    \A f \in {g \in DOMAIN call.in : call.in[g] # None} :
      With(AssemblyChecks([call.in EXCEPT ![f] = None]), {"incompatible"})
        \subseteq call.answer.critical

\* The two strength tables agree: of records whose classes both engines know,
\* the pairing of the records rejects the nut exactly when the pairing of the
\* classes does.
EnginesAgree ==
  \A call \in Answered("assembly_answered") : call.pairing # None =>
    LET bolt == Resolve(BoltRecords, call.in.bolt).class
        nut == Resolve(NutRecords, call.in.nut).class
        byClass == StrengthPairing(bolt, nut, None)
    IN  byClass.status # "unknown" =>
          ("strength" \in byClass.reasons <=> "strength" \in call.pairing.errors)

\* By the engine's own numerals, the recommended nut is strong enough for the
\* bolt, and no weaker one is.
RecommendedNutSuffices ==
  \A call \in Answered("assembly_answered") :
    LET bolt == call.in.boltClass
        best == RecommendedNut(bolt)
    IN  best # None => \A nut \in NutClasses :
          "strength" \in StrengthPairing(bolt, nut, None).reasons
            <=> NutNumeral[nut] < NutNumeral[best]

\* The numerals against the pairs the nut records list: no listed pair is
\* rejected for strength, and the record of the recommended nut lists the bolt,
\* but for one class: 4.8 is recommended nut "04", whose record does not list it.
RecordedPairsAccepted ==
  \A call \in Answered("assembly_answered") :
    LET bolt == call.in.boltClass
        best == RecommendedNut(bolt)
    IN  /\ \A nut \in NutClasses :
             bolt \in CompatibleBolts[nut]
               => "strength" \notin StrengthPairing(bolt, nut, None).reasons
        /\ best # None => (bolt \in CompatibleBolts[best] <=> bolt # "4.8")

\* Reference data never passes for more: no condition is ready for engineering
\* or production use, a use that needs it is warned of, and without separate
\* thread and bearing values no torque is decomposed and the answer says so.
FrictionNeverOverclaims ==
  \A call \in Answered("friction_answered") :
    LET r == FrictionRecord(call.id) IN
      /\ call.answer.level < 3
      /\ call.use \in {"engineering_calculation", "production_release"}
           => "intended_use" \in call.answer.warnings
      /\ ~HasSplit(r) => /\ ~call.readiness.decomposition
                         /\ "torque_calculation" \in call.answer.warnings
      /\ call.readiness.scenarios => call.readiness.reasons # {}

Mirror == [a_lower |-> "b_lower", b_lower |-> "a_lower",
           a_narrower |-> "b_narrower", b_narrower |-> "a_narrower"]

Mirrored(relation) ==
  IF relation \in DOMAIN Mirror THEN Mirror[relation] ELSE relation

\* A comparison says the same from either side, and one range is called lower
\* exactly when each of its values is below each value of the other.
ComparisonsMirrored ==
  \A call \in Answered("comparison_answered") :
    LET a == FrictionRecord(call.a).overall
        b == FrictionRecord(call.b).overall
        back == Comparison(call.b, call.a)
    IN  /\ back.range = Mirrored(call.answer.range)
        /\ back.width = Mirrored(call.answer.width)
        /\ None \notin {a, b} =>
             (call.answer.range = "a_lower"
                <=> \A x \in a[1]..a[2], y \in b[1]..b[2] : x < y)

\* The engines that assess an assembly hide no finding behind a score, agree
\* with each other and with the pairs the nut records list, but for one named
\* class, and claim no more than the records support (assess_assembly,
\* assess_friction_readiness, compare_friction_conditions,
\* check_bolt_nut_compatibility, check_bolt_nut_strength_compatibility).
AssessmentsSound ==
  /\ ScoreHidesNothing /\ MoreInputHidesNothing /\ EnginesAgree
  /\ RecommendedNutSuffices /\ RecordedPairsAccepted /\ FrictionNeverOverclaims
  /\ ComparisonsMirrored
=============================================================================
