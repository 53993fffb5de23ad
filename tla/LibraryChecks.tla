--------------------------- MODULE LibraryChecks ---------------------------
(***************************************************************************)
(* The checks over the data files of the engineering library               *)
(* (src/backend/library/validator.py, strength_validator.py,               *)
(* washer_resolution_validator.py and the integrity checks of              *)
(* population.py).  A library is the sequence of its records in file       *)
(* order; a check returns the positions of the records it flags, and a     *)
(* report the positions by check.  Nothing at run time waits for a clean   *)
(* report: what is promised is that a clean library serves the engines     *)
(* that read it.                                                           *)
(*                                                                         *)
(* A field is None when it is absent or empty text, and Null when it is    *)
(* there without a usable value.  Diameters and pitches are in hundredths  *)
(* of a millimetre, and a thread designation is <<diameter, pitch>>, its   *)
(* pitch None where it is left to the coarse series.  Of a number that is  *)
(* compared with a formula the records keep the difference, in thousandths *)
(* of the tolerance's unit.  The thread of a bolt or nut is its thread     *)
(* field: every record of the data files has one.                          *)
(***************************************************************************)
EXTENDS Assemblies, Functions, TLC

CONSTANTS
  Null,         \* JSON null, or text that does not parse
  DataSets,     \* contents of the files of population.py
  ClassFiles,   \* contents of bolt_nut_strength_classes.json
  Ledgers       \* resolution ledgers with the ids of the washer library

\* The libraries, and the records of each in file order.
Libraries ==
  {"threads", "bolts", "nuts", "washers", "hardware", "lubrications",
   "conditions", "coatings", "materials", "rules", "classes"}

\* The pairs of fields that are a range.
RangeFields == {"friction", "overall", "muThread", "muBearing", "kFactor"}

\* An end of a range is a number or is missing.
Ends == Int \cup {None, Null}

\* A file is a list of records.  The standard of a strength class is a
\* required field (BoltStrengthClassRecord).
ASSUME ChecksAssumption ==
  /\ Null # None /\ {None, Null} \cap (Int \cup (Ends \X Ends)) = {}
  /\ \A d \in DataSets : \A lib \in Libraries : d[lib] \in Seq(Range(d[lib]))
  /\ \A d \in DataSets : \A i \in DOMAIN d.conditions : \A f \in RangeFields :
       d.conditions[i][f] \in Ends \X Ends
  /\ \A file \in ClassFiles :
       /\ file \in Seq(Range(file))
       /\ \A i \in DOMAIN file :
            file[i].standard # None /\ file[i].diameters \in Ends \X Ends
  /\ \A ledger \in Ledgers :
       /\ ledger.records \in Seq(Range(ledger.records))
       /\ \A i \in DOMAIN ledger.records :
            {"washer", "issue", "status"} \subseteq DOMAIN ledger.records[i]

W == INSTANCE WasherLifecycle
       WITH Requests <- {}, Resolutions <- {}, Source <- <<>>, BlankKey <- None

Missing(v) == v \in {None, Null}

Positive(v) == ~Missing(v) /\ v > 0

\* Two recorded numbers in the wrong order; one alone is in no order.
Above(low, high) == ~Missing(low) /\ ~Missing(high) /\ low > high

Flagged(records, Wrong(_)) == {i \in DOMAIN records : Wrong(records[i])}

\* Every record whose key an earlier one has used.
Repeats(records, Key(_)) ==
  {i \in DOMAIN records : \E j \in 1..(i - 1) : Key(records[j]) = Key(records[i])}

Clean(report) == \A c \in DOMAIN report : report[c] = {}

\* A report with further checks.
Joined(a, b) ==
  [c \in DOMAIN a \cup DOMAIN b |-> IF c \in DOMAIN a THEN a[c] ELSE b[c]]

Flat(report) == UNION {report[c] : c \in DOMAIN report}

Everywhere(d, Check(_)) == UNION {{lib} \X Check(d[lib]) : lib \in Libraries}

----------------------------------------------------------------------------
(* Any library: validate_records, with the checks validate_library picks. *)

DuplicateIds(records) ==
  {i \in Repeats(records, LAMBDA r : r.id) : records[i].id # None}

InvalidThreads(records) == Flagged(records, LAMBDA r : r.designation = Null)

KnownMaterialGrades ==
  {"4.6", "4.8", "5.6", "5.8", "8.8", "10.9", "12.9", "A2-50", "A2-70", "A2-80",
   "A4-50", "A4-70", "A4-80", "C1022", "35CrMo4", "42CrMo4", "41Cr4"}

InvalidMaterials(records) ==
  Flagged(records, LAMBDA r : r.material # None /\ r.material \notin KnownMaterialGrades)

KnownBoltClasses == DOMAIN RecordMinimum

KnownNutClasses == {"04", "05", "4", "5", "6", "8", "9", "10", "12"}

BrokenCompatibility(rules) ==
  Flagged(rules, LAMBDA r : \/ r.bolt \notin KnownBoltClasses
                            \/ r.nut \notin KnownNutClasses)

\* validate_library: what is looked at depends on the library.  No data file
\* has records with a unit, so the check of units never applies.
Structure(d) ==
  [duplicate_id |-> Everywhere(d, DuplicateIds),
   invalid_thread |-> InvalidThreads(d.threads),
   invalid_material |-> InvalidMaterials(d.materials),
   broken_compatibility |-> BrokenCompatibility(d.rules)]

TemperatureRange(records) == Flagged(records, LAMBDA r : Above(r.min, r.max))

MissingSource(records) ==
  Flagged(records, LAMBDA r : Missing(r.source) /\ Missing(r.standard))

----------------------------------------------------------------------------
(* validate_thread_library: the profile is checked of metric threads only. *)

ThreadSchemaVersion == 1

KnownThreadSeries == {"ISO_METRIC", "UNC", "UNF", "UNEF", "BSP", "NPT", "TRAPEZOIDAL"}

IsMetric(r) == r.threadSeries = "ISO_METRIC"

PitchTypeOf == [Coarse |-> "coarse", Fine |-> "fine", ExtraFine |-> "extra_fine"]

OffProfile(difference, tolerance) ==
  Missing(difference) \/ difference \notin (-tolerance)..tolerance

ThreadReport(records) ==
  [duplicate_designation_pitch |->
     Repeats(records, LAMBDA r : <<r.designation, r.pitch>>),
   non_positive |->
     Flagged(records, LAMBDA r : ~Positive(r.nominal) \/ ~Positive(r.pitch)),
   designation_diameter |->
     Flagged(records, LAMBDA r :
       IsMetric(r) /\ (Missing(r.designation) \/ r.designation[1] # r.nominal)),
   pitch_type |->
     Flagged(records, LAMBDA r :
       IsMetric(r) /\ ~(/\ r.series \in DOMAIN PitchTypeOf
                        /\ r.pitchType = PitchTypeOf[r.series])),
   schema_version |-> Flagged(records, LAMBDA r : r.version # ThreadSchemaVersion),
   unknown_field |-> Flagged(records, LAMBDA r : r.undeclared # {}),
   series_scope |-> Flagged(records, LAMBDA r : r.threadSeries \notin KnownThreadSeries),
   minor_diameter |->
     Flagged(records, LAMBDA r :
       /\ IsMetric(r) /\ ~Missing(r.nominal) /\ ~Missing(r.pitch)
       /\ OffProfile(r.minorExternal, 1) \/ OffProfile(r.minorInternal, 1)),
   stress_area |->
     Flagged(records, LAMBDA r :
       /\ IsMetric(r) /\ ~Missing(r.nominal) /\ ~Missing(r.pitch)
       /\ OffProfile(r.area, 50))]

\* The last coarse record of a diameter is the one its fine ones are held to.
PitchSeries(records) ==
  Flagged(records, LAMBDA r :
    /\ r.series \in {"Fine", "ExtraFine"}
    /\ ~Missing(r.nominal)
    /\ LET coarse == {i \in DOMAIN records : /\ records[i].series = "Coarse"
                                             /\ records[i].nominal = r.nominal}
       IN  coarse # {} /\ r.pitch >= records[Max(coarse)].pitch)

----------------------------------------------------------------------------
(* validate_bolt_library, validate_nut_library *)

\* ISO 724, of which a bare designation takes its pitch
CoarsePitch ==
  (300 :> 50) @@ (350 :> 60) @@ (400 :> 70) @@ (500 :> 80) @@ (600 :> 100)
    @@ (700 :> 100) @@ (800 :> 125) @@ (1000 :> 150) @@ (1200 :> 175)
    @@ (1400 :> 200) @@ (1600 :> 200) @@ (1800 :> 250) @@ (2000 :> 250)
    @@ (2200 :> 250) @@ (2400 :> 300) @@ (2700 :> 300) @@ (3000 :> 350)
    @@ (3300 :> 350) @@ (3600 :> 400)

\* What a record declares, under the field's name or its older one.
Nominal(r) == IF r.nominal # None THEN r.nominal ELSE r.diameter
Pitch(r) == IF r.pitch # None THEN r.pitch ELSE r.pitchCoarse

ImpliedPitch(designation) ==
  IF designation[2] # None THEN designation[2]
  ELSE IF designation[1] \in DOMAIN CoarsePitch THEN CoarsePitch[designation[1]]
  ELSE None

PitchDisagrees(r) ==
  /\ ~Missing(r.pitch)
  /\ Missing(r.thread) \/ ImpliedPitch(r.thread) \notin {None, r.pitch}

DuplicateParts(records) ==
  Repeats(records, LAMBDA r : <<r.designation, r.standard, Nominal(r)>>)

\* The checks bolts and nuts share; a declared value is None or checked.
PartReport(records) ==
  [duplicate_id |-> DuplicateIds(records),
   duplicate_part |-> DuplicateParts(records),
   nominal_diameter |->
     Flagged(records, LAMBDA r : Nominal(r) # None /\ ~Positive(Nominal(r))),
   pitch |-> Flagged(records, LAMBDA r : Pitch(r) # None /\ ~Positive(Pitch(r))),
   pitch_designation |-> Flagged(records, PitchDisagrees),
   across_corners |->
     Flagged(records, LAMBDA r :
       r.hex /\ ~Missing(r.flats) /\ ~Missing(r.corners) /\ r.corners <= r.flats),
   hardness_range |->
     Flagged(records, LAMBDA r :
       r.hardness = Null \/ (r.hardness # None /\ Above(r.hardness[1], r.hardness[2]))),
   temperature_range |-> TemperatureRange(records),
   missing_source |-> MissingSource(records),
   verified_revision |->
     Flagged(records, LAMBDA r : r.verified /\ Missing(r.revision))]

\* A class of bolts is any two numbers with a point between them.
BoltReport(records) ==
  Joined(PartReport(records),
    [strength_class |-> Flagged(records, LAMBDA r : Missing(r.class)),
     stress_area |-> Flagged(records, LAMBDA r : r.stress # None /\ ~Positive(r.stress)),
     strength_order |->
       Flagged(records, LAMBDA r : Above(r.proof, r.yield) \/ Above(r.yield, r.tensile))])

NutReport(records) ==
  Joined(PartReport(records),
    [strength_class |-> Flagged(records, LAMBDA r : r.class \notin KnownNutClasses),
     locking_principle |->
       Flagged(records, LAMBDA r : r.lockNut /\ Missing(r.principle)),
     reuse |-> Flagged(records, LAMBDA r : r.prevailing /\ Missing(r.reusable))])

----------------------------------------------------------------------------
(* validate_washer_library, validate_joint_hardware_library *)

\* A dimension that is declared and no positive number.
NonPositive(r, fields) == \E f \in fields : ~Missing(r[f]) /\ ~Positive(r[f])

WasherReport(records) ==
  [duplicate_id |-> DuplicateIds(records),
   duplicate_part |-> DuplicateParts(records),
   dimension |->
     Flagged(records, LAMBDA r : NonPositive(r, {"inner", "outer", "thickness"})),
   inner_outer |->
     Flagged(records, LAMBDA r :
       ~Missing(r.inner) /\ ~Missing(r.outer) /\ r.inner >= r.outer),
   bolt_size |-> Flagged(records, LAMBDA r : Null \in r.sizes),
   temperature_range |-> TemperatureRange(records),
   missing_source |-> MissingSource(records)]

HardwareReport(records) ==
  [duplicate_id |-> DuplicateIds(records),
   dimension |-> Flagged(records, LAMBDA r : NonPositive(r, {"inner", "outer", "length"})),
   identity |->
     Flagged(records, LAMBDA r : Missing(r.designation) \/ Missing(r.standard)),
   temperature_range |-> TemperatureRange(records),
   missing_source |-> MissingSource(records)]

----------------------------------------------------------------------------
(* validate_lubrication_library, validate_friction_condition_library: the  *)
(* ranges of a record are pairs, each end of which may be missing.         *)

Given(range) == \E e \in 1..2 : ~Missing(range[e])

\* Coefficients that must be traceable to a source.
HasCoefficient(r) ==
  \/ \E f \in RangeFields \ {"friction"} : Given(r[f])
  \/ ~Missing(r.scatter) \/ ~Missing(r.maxTemperature)

Negative(v) == ~Missing(v) /\ v < 0

LubricationReport(records) ==
  [duplicate_id |-> DuplicateIds(records),
   min_max |->
     Flagged(records, LAMBDA r : \E f \in RangeFields : Above(r[f][1], r[f][2])),
   negative |->
     Flagged(records, LAMBDA r :
       \/ \E f \in RangeFields, e \in 1..2 : Negative(r[f][e])
       \/ Negative(r.scatter)),
   asymmetric |->
     Flagged(records, LAMBDA r :
       \E f \in RangeFields : Missing(r[f][1]) # Missing(r[f][2])),
   one_sided |->
     Flagged(records, LAMBDA r : Given(r.muThread) # Given(r.muBearing)),
   missing_source |->
     Flagged(records, LAMBDA r : HasCoefficient(r) /\ Missing(r.sourceReference)),
   legacy_warning |-> Flagged(records, LAMBDA r : r.legacy /\ Missing(r.warning))]

\* A null is not the same as an empty field here.
ConditionReport(records) ==
  Joined(LubricationReport(records),
    [duplicate_combination |->
       Repeats(records, LAMBDA r :
         <<r.coating, r.lubricant, r.surface, r.sourceReference>>)])

Dangling(records, coatings, lubricants) ==
  Flagged(records, LAMBDA r : \/ ~Missing(r.coating) /\ r.coating \notin coatings
                              \/ ~Missing(r.lubricant) /\ r.lubricant \notin lubricants)

----------------------------------------------------------------------------
(* strength_validator.py: classes with their range of diameters *)

\* parse_iso898_bolt_designation: <<first, second>> of "first.second"
Parses(designation) ==
  /\ ~Missing(designation)
  /\ designation[1] \in 1..20 /\ designation[2] \in 1..9

NominalTensile(designation) == 100 * designation[1]

\* in tenths
YieldRatio(designation) == designation[2]

NonPositiveValue(r) ==
  \/ \E f \in {"nominalTensile", "minTensile", "minYield", "proof"} :
       ~Missing(r[f]) /\ ~Positive(r[f])
  \/ \E f \in {"diameters", "hardness"}, e \in 1..2 :
       ~Missing(r[f][e]) /\ ~Positive(r[f][e])

\* Mutant of Overlap: ranges that share an end are taken for disjoint.
OverlapInside(a, b) ==
  /\ a[1] # None /\ b[2] # None => a[1] < b[2]
  /\ b[1] # None /\ a[2] # None => b[1] < a[2]

\* An end that is not recorded is open; one that is null cannot be compared.
Overlap(a, b) ==
  /\ a[1] # None /\ b[2] # None => a[1] <= b[2]
  /\ b[1] # None /\ a[2] # None => b[1] <= a[2]

OverlappingClasses(records) ==
  {i \in DOMAIN records : \E j \in 1..(i - 1) :
     /\ records[j].standard = records[i].standard
     /\ records[j].designation = records[i].designation
     /\ Overlap(records[i].diameters, records[j].diameters)}

Contradicts(stored, derived) == ~Missing(stored) /\ stored # derived

NutClassReport(records) ==
  [non_positive |-> Flagged(records, NonPositiveValue),
   empty_designation |-> Flagged(records, LAMBDA r : Missing(r.designation)),
   diameter_range |->
     Flagged(records, LAMBDA r : Above(r.diameters[1], r.diameters[2])),
   hardness_range |->
     Flagged(records, LAMBDA r : Above(r.hardness[1], r.hardness[2])),
   verification_status |->
     Flagged(records, LAMBDA r :
       r.verification \notin {"validated", "reference_only", "provisional"}),
   overlapping |-> OverlappingClasses(records)]

BoltClassReport(records) ==
  Joined(NutClassReport(records),
    [yield_tensile |-> Flagged(records, LAMBDA r : Above(r.minYield, r.minTensile)),
     yield_ratio |->
       Flagged(records, LAMBDA r : ~Missing(r.ratio) /\ r.ratio \notin 1..10),
     iso898 |->
       Flagged(records, LAMBDA r :
         r.standard = "ISO 898-1" /\
           \/ ~Parses(r.designation)
           \/ Contradicts(r.nominalTensile, NominalTensile(r.designation))
           \/ Contradicts(r.ratio, YieldRatio(r.designation)))])

----------------------------------------------------------------------------
(* washer_resolution_validator.py *)

Active == W!Active \cup {"blocked_authoritative_source"}

DuplicateActive(records) ==
  {i \in DOMAIN records :
     records[i].status \in Active
       /\ \E j \in 1..(i - 1) : /\ records[j].status \in Active
                                /\ records[j].washer = records[i].washer
                                /\ records[j].issue = records[i].issue}

LedgerReport(records, washers) ==
  [unknown_washer |-> Flagged(records, LAMBDA r : r.washer \notin washers),
   status |-> Flagged(records, LAMBDA r : r.status \notin W!Statuses),
   issue_type |-> Flagged(records, LAMBDA r : Missing(r.issue)),
   resolved_note |->
     Flagged(records, LAMBDA r : r.status = "resolved" /\ Missing(r.note)),
   resolved_evidence |->
     Flagged(records, LAMBDA r : r.status = "resolved" /\ Missing(r.evidence)),
   duplicate_active |-> DuplicateActive(records),
   blocked_flag |->
     Flagged(records, LAMBDA r :
       r.status = "blocked_authoritative_source" /\ ~r.needsSource),
   confidence |->
     Flagged(records, LAMBDA r : ~Missing(r.confidence) /\ r.confidence \notin 1..4),
   data_mutation |-> Flagged(records, LAMBDA r : r.washerData # {})]

----------------------------------------------------------------------------
(* population.py: run_all_integrity_checks.  The reports of threads,       *)
(* washers and joint hardware are not among them.                          *)

GeometricFields ==
  {"diameter", "nominal", "pitch", "stress", "flats", "corners",
   "inner", "outer", "thickness"}

Ids(records) == {records[i].id : i \in DOMAIN records}

ClassNames(records, category) ==
  {records[i].designation : i \in {j \in DOMAIN records : records[j].category = category}}

KnownValidation == {"validated", "reference_only", "provisional", "metadata_only"}

WrongStatus(r) ==
  \/ r.validation \notin KnownValidation
  \/ r.approval \notin {"approved", "pending"}
  \/ r.approval = "approved" /\ r.validation # "validated"

IntegrityReport(d) ==
  [schema_and_duplicates |->
     Everywhere(d, LAMBDA records :
       DuplicateIds(records) \cup Flagged(records, LAMBDA r : ~r.typed)),
   duplicate_ids |->
     Everywhere(d, LAMBDA records : Repeats(records, LAMBDA r : r.id)),
   non_positive_geometry |->
     Everywhere(d, LAMBDA records :
       Flagged(records, LAMBDA r : NonPositive(r, GeometricFields \cap DOMAIN r))),
   strength_class_ranges |-> Flagged(d.classes, LAMBDA r : Above(r.rp02, r.rm)),
   material_ranges |-> Flagged(d.materials, LAMBDA r : Above(r.yield, r.ultimate)),
   pitch_series |-> PitchSeries(d.threads),
   dangling_thread_references |->
     Flagged(d.bolts, LAMBDA r :
       ~Missing(r.thread) /\ r.thread \notin {d.threads[i].designation : i \in DOMAIN d.threads}),
   broken_compatibility_references |->
     Flagged(d.rules, LAMBDA r : \/ r.bolt \notin ClassNames(d.classes, "Bolt")
                                 \/ r.nut \notin ClassNames(d.classes, "Nut")),
   broken_friction_condition_references |->
     Dangling(d.conditions, Ids(d.coatings), Ids(d.lubrications)),
   invalid_status_values |->
     Everywhere(d, LAMBDA records : Flagged(records, WrongStatus)),
   checksum_mismatches |->
     Everywhere(d, LAMBDA records : Flagged(records, LAMBDA r : ~r.checksum)),
   bolt_library |-> Flat(BoltReport(d.bolts)),
   nut_library |-> Flat(NutReport(d.nuts)),
   lubrication_library |-> Flat(LubricationReport(d.lubrications)),
   friction_condition_library |-> Flat(ConditionReport(d.conditions))]

----------------------------------------------------------------------------
(* The audit of the library (src/tools/audit_engineering_library.py) *)

DomainReport(d, lib) ==
  CASE lib = "threads" -> ThreadReport(d.threads)
    [] lib = "bolts" -> BoltReport(d.bolts)
    [] lib = "nuts" -> NutReport(d.nuts)
    [] lib = "lubrications" -> LubricationReport(d.lubrications)
    [] lib = "conditions" -> ConditionReport(d.conditions)
    [] lib = "washers" -> WasherReport(d.washers)
    [] lib = "hardware" -> HardwareReport(d.hardware)
    [] OTHER -> << >>

\* classify_record: no status counts for a record that names no source.
Provenance(r) ==
  IF (Missing(r.source) /\ Missing(r.standard)) \/ r.validation \notin KnownValidation
    THEN "unknown_provenance"
  ELSE IF r.validation = "validated" THEN "verified_standard_data"
  ELSE "engineering_reference_data"

Audit(d) ==
  [domain |-> [lib \in Libraries |-> DomainReport(d, lib)],
   integrity |-> IntegrityReport(d),
   provenance |->
     [lib \in Libraries |-> [i \in DOMAIN d[lib] |-> Provenance(d[lib][i])]]]

AskAudit(t) ==
  /\ IsIdle(t)
  /\ \E d \in DataSets :
       Goto(t, [at |-> "audit_answered", data |-> d, answer |-> Audit(d)])

\* facade.statistics
AskStatistics(t) ==
  /\ IsIdle(t)
  /\ \E d \in DataSets :
       Goto(t, [at |-> "statistics_answered", data |-> d, answer |-> Structure(d)])

----------------------------------------------------------------------------
(* strength_classes.py: looking up classes and resolving their properties *)

MatchesDiameter(r, diameter) ==
  \/ diameter = None
  \/ /\ ~Missing(r.diameters[1]) => diameter >= r.diameters[1]
     /\ ~Missing(r.diameters[2]) => diameter <= r.diameters[2]

\* The positions of the records listed.
ListClasses(records, standard, designation, diameter) ==
  Flagged(records, LAMBDA r : /\ standard \in {None, r.standard}
                              /\ designation \in {None, r.designation}
                              /\ MatchesDiameter(r, diameter))

\* The first record of that designation, whatever its standard and diameters.
GetClass(records, designation) ==
  LET found == Flagged(records, LAMBDA r : r.designation = designation) IN
    IF found = {} THEN None ELSE records[Min(found)]

ResolvableFields == {"nominalTensile", "minTensile", "ratio", "minYield", "proof"}

Derived(designation) ==
  IF Parses(designation)
    THEN [nominalTensile |-> NominalTensile(designation), ratio |-> YieldRatio(designation)]
    ELSE << >>

\* Each property with where it comes from: a value given by hand goes before
\* the record, the record before the designation.
ResolveStrength(records, designation, manual) ==
  LET record == GetClass(records, designation)
      derived == Derived(designation)
  IN  [f \in ResolvableFields |->
         IF f \in DOMAIN manual THEN <<manual[f], "manual_override">>
         ELSE IF record # None /\ ~Missing(record[f]) THEN <<record[f], "library_record">>
         ELSE IF f \in DOMAIN derived THEN <<derived[f], "derived_from_strength_class">>
         ELSE <<None, None>>]

\* The report of a file in which a null end meets a number is not written.
Comparable(records) ==
  \A i, j \in DOMAIN records :
    /\ i # j
    /\ records[i].standard = records[j].standard
    /\ records[i].designation = records[j].designation
    => \A e \in 1..2 : Null \notin {records[i].diameters[e], records[j].diameters[e]}

AskClass(t) ==
  /\ IsIdle(t)
  /\ \E file \in ClassFiles :
       /\ Comparable(file)
       /\ \E k \in DOMAIN file, diameter \in {1000, 1600, 2000},
             manual \in {<< >>, [ratio |-> 7]} :
            LET r == file[k] IN
              Goto(t, [at |-> "class_answered", file |-> file,
                       report |-> BoltClassReport(file), designation |-> r.designation,
                       found |-> ListClasses(file, r.standard, r.designation, diameter),
                       manual |-> manual,
                       answer |-> ResolveStrength(file, r.designation, manual)])

AskLedger(t) ==
  /\ IsIdle(t)
  /\ \E ledger \in Ledgers :
       Goto(t, [at |-> "ledger_answered", ledger |-> ledger,
                report |-> LedgerReport(ledger.records, ledger.washers)])

CheckStep(t) == AskAudit(t) \/ AskStatistics(t) \/ AskClass(t) \/ AskLedger(t)

ChecksNext == \E t \in Threads : CheckStep(t) \/ Leave(t)

ChecksSpec == InitCalls /\ [][ChecksNext]_calls

----------------------------------------------------------------------------
(* What a clean report is good for. *)

Complete(range) ==
  IF Missing(range[1]) \/ Missing(range[2]) THEN None ELSE range

Reference(id) == IF Missing(id) THEN None ELSE id

\* The records of a file as the assessment reads them.
EngineConditions(records) ==
  {[id |-> r.id, coating |-> Reference(r.coating), lubricant |-> Reference(r.lubricant),
    overall |-> Complete(r.overall), muThread |-> Complete(r.muThread),
    muBearing |-> Complete(r.muBearing), kFactor |-> Complete(r.kFactor),
    sourced |-> ~Missing(r.sourceReference)] :
     r \in {records[i] : i \in DOMAIN records}}

EngineThreads(records) ==
  {[designation |-> r.designation, diameter |-> r.nominal] :
     r \in {records[i] : i \in DOMAIN records}}

Engine(d) ==
  INSTANCE Assemblies
    WITH FrictionRecords <- EngineConditions(d.conditions),
         CoatingIds <- Ids(d.coatings),
         LubricantIds <- Ids(d.lubrications),
         ThreadRecords <- EngineThreads(d.threads)

Audits == Answered("audit_answered")

\* No assessment refuses a condition with coefficients from a clean file, and
\* no coefficient recorded there is passed over: half a range, or a thread
\* value without a bearing value, would be.
CleanConditionsServe ==
  \A call \in Audits :
    LET d == call.data IN
      /\ Clean(call.answer.domain.conditions)
      /\ call.answer.integrity.broken_friction_condition_references = {}
      => \A i \in DOMAIN d.conditions :
           LET r == d.conditions[i] IN
             r.id # None /\ HasCoefficient(r) =>
               /\ Engine(d)!Resolvable(r.id)
               /\ (Engine(d)!FrictionReadiness(r.id, TRUE, TRUE).mode = "blocked"
                     <=> ~Given(r.overall) /\ ~Given(r.muThread) /\ ~Given(r.muBearing))
               /\ LET range == Engine(d)!FrictionRecord(r.id).overall IN
                    range # None => range[1] <= range[2]

\* A clean bolt and a clean nut of one thread never fail each other's pitch,
\* unless the thread is a coarse one of a diameter the table leaves out.
CleanPartsPair ==
  \A call \in Audits :
    LET d == call.data IN
      Clean(call.answer.domain.bolts) /\ Clean(call.answer.domain.nuts) =>
        \A i \in DOMAIN d.bolts, j \in DOMAIN d.nuts :
          /\ d.bolts[i].thread = d.nuts[j].thread /\ ~Missing(d.bolts[i].thread)
          /\ ImpliedPitch(d.bolts[i].thread) # None
          => ~Mismatch(d.bolts[i].pitch, d.nuts[j].pitch)

\* The thread check of an assessment knows the thread of each bolt, with the
\* diameter its designation names, when threads and references are clean.
CleanThreadsServe ==
  \A call \in Audits :
    LET d == call.data IN
      /\ Clean(call.answer.domain.threads)
      /\ call.answer.integrity.dangling_thread_references = {}
      /\ \A i \in DOMAIN d.threads : IsMetric(d.threads[i])
      => \A i \in {b \in DOMAIN d.bolts : ~Missing(d.bolts[b].thread)} :
           Engine(d)!CheckThread([thread |-> d.bolts[i].thread,
                                  diameter |-> d.bolts[i].thread[1]]) = "compatible"

\* Where sources are checked, a clean library has no record of unknown origin,
\* and what is approved anywhere counts as verified or names no source.
CleanRecordsTraceable ==
  \A call \in Audits : call.answer.integrity.invalid_status_values = {} =>
    \A lib \in Libraries : LET origin == call.answer.provenance[lib] IN
      \A i \in DOMAIN origin :
        /\ /\ lib \in {"bolts", "nuts", "washers", "hardware"}
           /\ Clean(call.answer.domain[lib])
           => origin[i] # "unknown_provenance"
        /\ call.data[lib][i].approval = "approved"
             => origin[i] \in {"verified_standard_data", "unknown_provenance"}

\* In a clean file of strength classes a diameter finds at most one record,
\* and for an ISO 898-1 class it makes no difference to the values that follow
\* from its designation whether the record is there; a value given by hand
\* always stands.
CleanClassesServe ==
  \A call \in Answered("class_answered") :
    /\ \A f \in DOMAIN call.manual :
         call.answer[f] = <<call.manual[f], "manual_override">>
    /\ Clean(call.report) =>
         LET record == GetClass(call.file, call.designation)
             bare == ResolveStrength(<< >>, call.designation, call.manual)
         IN  /\ Cardinality(call.found) <= 1
             /\ record.standard = "ISO 898-1" =>
                  \A f \in {"nominalTensile", "ratio"} : call.answer[f][1] = bare[f][1]

\* No legal decision makes two conversations about one issue active in a
\* ledger that had none.
CleanLedgersStayClean ==
  \A call \in Answered("ledger_answered") : Clean(call.report) =>
    LET records == call.ledger.records IN
      \A i \in DOMAIN records, new \in W!Statuses :
        W!Legal(records[i].status, new) =>
          DuplicateActive([records EXCEPT ![i].status = new]) = {}

\* The rules the pairing engine reads by: with the reference numerals the
\* statistics check them against, each names a least nut class the engine
\* knows a numeral for, and its bolt class one it compares.
StatisticsAgree ==
  \A call \in Answered("statistics_answered") :
    LET d == call.data IN
      /\ call.answer.broken_compatibility = {} =>
           \A i \in DOMAIN d.rules :
             /\ d.rules[i].bolt \in DOMAIN RecordMinimum
             /\ d.rules[i].nut \in DOMAIN NutNumeral
      /\ IntegrityReport(d).duplicate_ids = {} => call.answer.duplicate_id = {}

\* A library that passes the checks of validator.py, strength_validator.py and
\* population.py gives the engines that read it what they rely on.
CleanLibrariesServe ==
  /\ CleanConditionsServe /\ CleanPartsPair /\ CleanThreadsServe
  /\ CleanRecordsTraceable /\ CleanClassesServe /\ CleanLedgersStayClean /\ StatisticsAgree
=============================================================================
