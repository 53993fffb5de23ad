---------------------------- MODULE Library_proofs ----------------------------
(***************************************************************************)
(* What the engineering library is relied on for, whatever its records:    *)
(* the assessment of an assembly, the recommendation of materials and the  *)
(* checks over the data files.  No request writes here, so the inductive   *)
(* invariant of each part only says that every answer a client holds is    *)
(* the function of its inputs the code computes; what is promised follows  *)
(* from the functions, and that is where the proofs are.                   *)
(***************************************************************************)
EXTENDS LibraryChecks, Materials, LogLemmas

\* The effect of a step on the calls.
LEMMA GotoCalls ==
  ASSUME NEW t \in Threads, NEW call, Goto(t, call), calls = [u \in Threads |-> calls[u]]
  PROVE  /\ calls' = [u \in Threads |-> calls'[u]]
         /\ \A u \in Threads : calls'[u] = IF u = t THEN call ELSE calls[u]
BY DEF Goto

(* ---- The assessment of an assembly. ---- *)

AssemblyAnswer(in) ==
  [at |-> "assembly_answered", in |-> in, pairing |-> Pairing(in), answer |-> AssessAssembly(in)]

FrictionAnswer(id, use, geometry, preload) ==
  [at |-> "friction_answered", id |-> id, use |-> use,
   readiness |-> FrictionReadiness(id, geometry, preload),
   answer |-> RecommendationReadiness(id, use)]

ComparisonAnswer(a, b) ==
  [at |-> "comparison_answered", a |-> a, b |-> b, answer |-> Comparison(a, b)]

Assessed(c) ==
  \/ c = Idle
  \/ \E in \in AssemblyInputs : c = AssemblyAnswer(in)
  \/ \E id \in FrictionIds, use \in DOMAIN UseLevel \cup {None}, geometry, preload \in BOOLEAN :
       c = FrictionAnswer(id, use, geometry, preload)
  \/ \E a, b \in FrictionIds : c = ComparisonAnswer(a, b)

AssembliesInv ==
  /\ calls = [t \in Threads |-> calls[t]]
  /\ \A t \in Threads : Assessed(calls[t])

\* Every call has the answer that its inputs have.
LEMMA AssembliesInductive ==
  /\ InitCalls => AssembliesInv
  /\ AssembliesInv /\ [AssembliesNext]_calls => AssembliesInv'
<1>1. ASSUME InitCalls
      PROVE  AssembliesInv
  BY <1>1 DEF InitCalls, AssembliesInv, Assessed
<1>2. ASSUME AssembliesInv, UNCHANGED calls
      PROVE  AssembliesInv'
  <2>1. ASSUME NEW t \in Threads
        PROVE  Assessed(calls'[t])
    BY <1>2 DEF AssembliesInv
  <2>. QED
    BY <1>2, <2>1 DEF AssembliesInv, Assessed
<1>3. ASSUME AssembliesInv, NEW t \in Threads, NEW call, Goto(t, call), Assessed(call)
      PROVE  AssembliesInv'
  <2>1. /\ calls' = [u \in Threads |-> calls'[u]]
        /\ \A u \in Threads : calls'[u] = IF u = t THEN call ELSE calls[u]
    BY <1>3, GotoCalls DEF AssembliesInv
  <2>2. \A u \in Threads : Assessed(calls'[u])
    BY <1>3, <2>1 DEF AssembliesInv
  <2>. QED
    BY <2>1, <2>2 DEF AssembliesInv, Assessed
<1>4. ASSUME AssembliesInv, NEW t \in Threads, AskAssembly(t)
      PROVE  AssembliesInv'
  <2>1. PICK in \in AssemblyInputs : Goto(t, AssemblyAnswer(in))
    BY <1>4 DEF AskAssembly, AssemblyAnswer
  <2>. QED
    BY <1>3, <1>4, <2>1 DEF Assessed
<1>5. ASSUME AssembliesInv, NEW t \in Threads, AskFriction(t)
      PROVE  AssembliesInv'
  <2>1. PICK id \in FrictionIds, use \in DOMAIN UseLevel \cup {None},
             geometry \in BOOLEAN, preload \in BOOLEAN :
               Goto(t, FrictionAnswer(id, use, geometry, preload))
    BY <1>5 DEF AskFriction, FrictionAnswer
  <2>. QED
    BY <1>3, <1>5, <2>1 DEF Assessed
<1>6. ASSUME AssembliesInv, NEW t \in Threads, AskComparison(t)
      PROVE  AssembliesInv'
  <2>1. PICK a \in FrictionIds, b \in FrictionIds : Goto(t, ComparisonAnswer(a, b))
    BY <1>6 DEF AskComparison, ComparisonAnswer
  <2>. QED
    BY <1>3, <1>6, <2>1 DEF Assessed
<1>7. ASSUME AssembliesInv, NEW t \in Threads, Leave(t)
      PROVE  AssembliesInv'
  BY <1>3, <1>7 DEF Leave, Finish, Assessed
<1>. QED
  BY <1>1, <1>2, <1>4, <1>5, <1>6, <1>7 DEF AssembliesNext, AssemblyStep

\* An answered call of each kind.
LEMMA AssembliesAnswers ==
  ASSUME AssembliesInv
  PROVE  /\ \A call \in Answered("assembly_answered") :
              \E in \in AssemblyInputs : call = AssemblyAnswer(in)
         /\ \A call \in Answered("friction_answered") :
              \E id \in FrictionIds, use \in DOMAIN UseLevel \cup {None},
                 geometry, preload \in BOOLEAN :
                call = FrictionAnswer(id, use, geometry, preload)
         /\ \A call \in Answered("comparison_answered") :
              \E a, b \in FrictionIds : call = ComparisonAnswer(a, b)
<1>1. ASSUME NEW step, NEW call \in Answered(step)
      PROVE  Assessed(call) /\ call.at = step
  BY <1>1 DEF Answered, At, AssembliesInv
<1>2. /\ Idle.at = "idle"
      /\ \A in : AssemblyAnswer(in).at = "assembly_answered"
      /\ \A id, use, g, p : FrictionAnswer(id, use, g, p).at = "friction_answered"
      /\ \A a, b : ComparisonAnswer(a, b).at = "comparison_answered"
  BY DEF Idle, AssemblyAnswer, FrictionAnswer, ComparisonAnswer
<1>3. ASSUME NEW call \in Answered("assembly_answered")
      PROVE  \E in \in AssemblyInputs : call = AssemblyAnswer(in)
  <2>1. Assessed(call) /\ call.at = "assembly_answered"
    BY <1>1
  <2>. QED
    BY <1>2, <2>1 DEF Assessed
<1>4. ASSUME NEW call \in Answered("friction_answered")
      PROVE  \E id \in FrictionIds, use \in DOMAIN UseLevel \cup {None},
                geometry, preload \in BOOLEAN :
               call = FrictionAnswer(id, use, geometry, preload)
  <2>1. Assessed(call) /\ call.at = "friction_answered"
    BY <1>1
  <2>. QED
    BY <1>2, <2>1 DEF Assessed
<1>5. ASSUME NEW call \in Answered("comparison_answered")
      PROVE  \E a, b \in FrictionIds : call = ComparisonAnswer(a, b)
  <2>1. Assessed(call) /\ call.at = "comparison_answered"
    BY <1>1
  <2>. QED
    BY <1>2, <2>1 DEF Assessed
<1>. QED
  BY <1>3, <1>4, <1>5

(* Friction conditions. *)

LEMMA FrictionRecordMember ==
  ASSUME NEW id \in FrictionIds
  PROVE  FrictionRecord(id) \in FrictionRecords
BY DEF FrictionIds, FrictionRecord

LEMMA ComparisonFields ==
  ASSUME NEW idA, NEW idB
  PROVE  /\ Comparison(idA, idB).range
              = RangeRelation(FrictionRecord(idA).overall, FrictionRecord(idB).overall)
         /\ Comparison(idA, idB).width
              = WidthRelation(FrictionRecord(idA).overall, FrictionRecord(idB).overall)
BY DEF Comparison

LEMMA RangesMirrored ==
  ASSUME NEW a, NEW b,
         a # None => a \in Nat \X Nat /\ a[1] <= a[2],
         b # None => b \in Nat \X Nat /\ b[1] <= b[2]
  PROVE  /\ RangeRelation(b, a) = Mirrored(RangeRelation(a, b))
         /\ WidthRelation(b, a) = Mirrored(WidthRelation(a, b))
         /\ None \notin {a, b} =>
              (RangeRelation(a, b) = "a_lower"
                 <=> \A x \in a[1]..a[2], y \in b[1]..b[2] : x < y)
<1>1. /\ Mirrored("not_comparable") = "not_comparable"
      /\ Mirrored("identical") = "identical" /\ Mirrored("overlapping") = "overlapping"
      /\ Mirrored("equal_width") = "equal_width"
      /\ Mirrored("a_lower") = "b_lower" /\ Mirrored("b_lower") = "a_lower"
      /\ Mirrored("a_narrower") = "b_narrower" /\ Mirrored("b_narrower") = "a_narrower"
  BY DEF Mirrored, Mirror
<1>2. CASE None \in {a, b}
  BY <1>1, <1>2 DEF RangeRelation, WidthRelation
<1>3. CASE None \notin {a, b}
  <2>1. a[1] \in Nat /\ a[2] \in Nat /\ b[1] \in Nat /\ b[2] \in Nat
        /\ a[1] <= a[2] /\ b[1] <= b[2]
    BY <1>3
  <2>2. RangeRelation(b, a) = Mirrored(RangeRelation(a, b))
    BY <1>1, <1>3, <2>1 DEF RangeRelation
  <2>3. WidthRelation(b, a) = Mirrored(WidthRelation(a, b))
    BY <1>1, <1>3, <2>1 DEF WidthRelation
  <2>4. RangeRelation(a, b) = "a_lower" <=> a[2] < b[1]
    BY <1>3, <2>1 DEF RangeRelation
  <2>5. a[2] < b[1] <=> \A x \in a[1]..a[2], y \in b[1]..b[2] : x < y
    BY <2>1
  <2>. QED
    BY <2>2, <2>3, <2>4, <2>5
<1>. QED
  BY <1>2, <1>3

LEMMA ComparisonsMirroredHolds ==
  AssembliesInv => ComparisonsMirrored
<1>. SUFFICES ASSUME AssembliesInv, NEW call \in Answered("comparison_answered")
              PROVE  LET a == FrictionRecord(call.a).overall
                         b == FrictionRecord(call.b).overall
                         back == Comparison(call.b, call.a)
                     IN  /\ back.range = Mirrored(call.answer.range)
                         /\ back.width = Mirrored(call.answer.width)
                         /\ None \notin {a, b} =>
                              (call.answer.range = "a_lower"
                                 <=> \A x \in a[1]..a[2], y \in b[1]..b[2] : x < y)
  BY DEF ComparisonsMirrored
<1>1. PICK a \in FrictionIds, b \in FrictionIds : call = ComparisonAnswer(a, b)
  BY AssembliesAnswers
<1>2. call.a = a /\ call.b = b /\ call.answer = Comparison(a, b)
  BY <1>1 DEF ComparisonAnswer
<1>3. \A id \in FrictionIds : FrictionRecord(id).overall # None =>
        /\ FrictionRecord(id).overall \in Nat \X Nat
        /\ FrictionRecord(id).overall[1] <= FrictionRecord(id).overall[2]
  BY FrictionRecordMember, LibraryAssumption
<1>. QED
  BY <1>2, <1>3, ComparisonFields, RangesMirrored

LEMMA FrictionNeverOverclaimsHolds ==
  AssembliesInv => FrictionNeverOverclaims
<1>. SUFFICES ASSUME AssembliesInv, NEW call \in Answered("friction_answered")
              PROVE  LET r == FrictionRecord(call.id) IN
                       /\ call.answer.level < 3
                       /\ call.use \in {"engineering_calculation", "production_release"}
                            => "intended_use" \in call.answer.warnings
                       /\ ~HasSplit(r) => /\ ~call.readiness.decomposition
                                          /\ "torque_calculation" \in call.answer.warnings
                       /\ call.readiness.scenarios => call.readiness.reasons # {}
  BY DEF FrictionNeverOverclaims
<1>1. PICK id \in FrictionIds, use \in DOMAIN UseLevel \cup {None},
           geometry \in BOOLEAN, preload \in BOOLEAN :
             call = FrictionAnswer(id, use, geometry, preload)
  BY AssembliesAnswers
<1>2. /\ call.id = id /\ call.use = use
      /\ call.readiness = FrictionReadiness(id, geometry, preload)
      /\ call.answer = RecommendationReadiness(id, use)
  BY <1>1 DEF FrictionAnswer
<1>3. /\ call.answer.level \in {1, 2}
      /\ use \in DOMAIN UseLevel /\ call.answer.level < UseLevel[use]
           => "intended_use" \in call.answer.warnings
      /\ FrictionWarnings(id) \subseteq call.answer.warnings
  BY <1>2 DEF RecommendationReadiness
<1>4. "torque_calculation" \in FrictionWarnings(id)
  <2>1. FrictionReadiness(id, FALSE, FALSE).mode \in {"combined", "blocked"}
    BY DEF FrictionReadiness
  <2>2. ~FrictionReadiness(id, FALSE, FALSE).decomposition
    BY DEF FrictionReadiness
  <2>3. FrictionReadiness(id, FALSE, FALSE).reasons # {}
    BY DEF FrictionReadiness
  <2>. QED
    BY <2>2, <2>3 DEF FrictionWarnings
<1>5. /\ call.readiness.decomposition => HasSplit(FrictionRecord(id))
      /\ call.readiness.scenarios => call.readiness.reasons # {}
  <2>1. ASSUME NEW g, NEW p
        PROVE  LET r == FrictionReadiness(id, g, p) IN
                 /\ r.decomposition => r.mode = "separated"
                 /\ r.scenarios => r.mode = "combined"
                 /\ r.mode = "separated" => HasSplit(FrictionRecord(id))
                 /\ r.mode = "combined" => "unsupported_friction_model" \in r.reasons
    <3>1. LET r == FrictionReadiness(id, g, p) IN
            /\ r.decomposition => r.mode = "separated"
            /\ r.scenarios => r.mode = "combined"
      BY Zenon DEF FrictionReadiness
    <3>2. FrictionReadiness(id, g, p).mode = "separated" => HasSplit(FrictionRecord(id))
      BY DEF FrictionReadiness, HasSplit
    <3>3. FrictionReadiness(id, g, p).mode = "combined"
            => "unsupported_friction_model" \in FrictionReadiness(id, g, p).reasons
      BY DEF FrictionReadiness
    <3>. QED
      BY <3>1, <3>2, <3>3
  <2>. QED
    BY <1>2, <2>1
<1>7. UseLevel["engineering_calculation"] = 3 /\ UseLevel["production_release"] = 4
      /\ {"engineering_calculation", "production_release"} \subseteq DOMAIN UseLevel
  BY DEF UseLevel
<1>. QED
  BY <1>2, <1>3, <1>4, <1>5, <1>7

(* Strength classes. *)

LEMMA NutNumerals ==
  /\ DOMAIN NutNumeral = NutClasses \cup {"05"}
  /\ NutNumeral["04"] = 4 /\ NutNumeral["4"] = 4 /\ NutNumeral["05"] = 5
  /\ NutNumeral["5"] = 5 /\ NutNumeral["6"] = 6 /\ NutNumeral["8"] = 8
  /\ NutNumeral["9"] = 9 /\ NutNumeral["10"] = 10 /\ NutNumeral["12"] = 12
BY Zenon DEF NutNumeral, NutClasses

LEMMA ClassMinima ==
  /\ DOMAIN ClassMinimum = CarbonBolts
  /\ ClassMinimum["4.6"] = 4 /\ ClassMinimum["4.8"] = 4 /\ ClassMinimum["5.6"] = 5
  /\ ClassMinimum["5.8"] = 5 /\ ClassMinimum["6.8"] = 6 /\ ClassMinimum["8.8"] = 8
  /\ ClassMinimum["9.8"] = 9 /\ ClassMinimum["10.9"] = 10 /\ ClassMinimum["12.9"] = 12
BY Zenon DEF ClassMinimum, CarbonBolts

LEMMA RecordMinima ==
  /\ DOMAIN RecordMinimum = CarbonBolts \cup {"3.6", "6.9"}
  /\ RecordMinimum["4.6"] = 4 /\ RecordMinimum["4.8"] = 4 /\ RecordMinimum["5.6"] = 5
  /\ RecordMinimum["5.8"] = 5 /\ RecordMinimum["6.8"] = 6 /\ RecordMinimum["8.8"] = 8
  /\ RecordMinimum["9.8"] = 9 /\ RecordMinimum["10.9"] = 10 /\ RecordMinimum["12.9"] = 12
BY Zenon DEF RecordMinimum, CarbonBolts

\* The two tables of minimum nut classes say the same of a carbon steel bolt.
LEMMA TablesAgree ==
  ASSUME NEW bolt \in CarbonBolts
  PROVE  /\ bolt \in DOMAIN ClassMinimum /\ bolt \in DOMAIN RecordMinimum
         /\ ClassMinimum[bolt] = RecordMinimum[bolt]
         /\ ClassMinimum[bolt] \in RecommendedNumerals
<1>1. \/ bolt = "4.6" \/ bolt = "4.8" \/ bolt = "5.6" \/ bolt = "5.8" \/ bolt = "6.8"
      \/ bolt = "8.8" \/ bolt = "9.8" \/ bolt = "10.9" \/ bolt = "12.9"
  BY DEF CarbonBolts
<1>2. ClassMinimum[bolt] = RecordMinimum[bolt] /\ ClassMinimum[bolt] \in RecommendedNumerals
  BY <1>1, ClassMinima, RecordMinima DEF RecommendedNumerals
<1>. QED
  BY <1>2, ClassMinima, RecordMinima

LEMMA NumeralOfClass ==
  ASSUME NEW n \in RecommendedNumerals
  PROVE  /\ n \in Nat
         /\ \E c \in NutClasses : NutNumeral[c] = n
         /\ "04" \in NutClasses /\ NutNumeral["04"] = 4
         /\ \A c \in NutClasses : NutNumeral[c] \in Nat /\ c \in DOMAIN NutNumeral
<1>1. \/ n = 4 \/ n = 5 \/ n = 6 \/ n = 8 \/ n = 9 \/ n = 10 \/ n = 12
  BY DEF RecommendedNumerals
<1>2. {"4", "5", "6", "8", "9", "10", "12"} \subseteq NutClasses
  BY DEF NutClasses
<1>3. \E c \in NutClasses : NutNumeral[c] = n
  BY <1>1, <1>2, NutNumerals
<1>4. ASSUME NEW c \in NutClasses
      PROVE  NutNumeral[c] \in Nat
  <2>1. c \in {"04", "4", "5", "6", "8", "9", "10", "12"}
    BY DEF NutClasses
  <2>. QED
    BY <2>1, NutNumerals
<1>. QED
  BY <1>1, <1>3, <1>4, NutNumerals DEF NutClasses

\* What the pairing of two classes rejects for their strength.
LEMMA StrengthReason ==
  ASSUME NEW bolt, NEW nut, NEW d
  PROVE  /\ StrengthPairing(bolt, nut, d).status # "unknown"
              => bolt \in CarbonBolts \cup StainlessBolts /\ nut \in NutClasses
         /\ bolt \in CarbonBolts \cup StainlessBolts /\ nut \in NutClasses =>
              ("strength" \in StrengthPairing(bolt, nut, d).reasons
                 <=> bolt \in DOMAIN ClassMinimum /\ NutNumeral[nut] < ClassMinimum[bolt])
<1>. DEFINE known == bolt \in CarbonBolts \cup StainlessBolts /\ nut \in NutClasses
            reasons ==
              (IF bolt \in DOMAIN ClassMinimum /\ NutNumeral[nut] < ClassMinimum[bolt]
                 THEN {"strength"} ELSE {})
              \cup (IF bolt \in StainlessBolts THEN {"material", "standard"} ELSE {})
<1>1. ~known => StrengthPairing(bolt, nut, d).status = "unknown"
  BY DEF StrengthPairing
<1>2. known => StrengthPairing(bolt, nut, d).reasons = reasons
  BY DEF StrengthPairing
<1>3. "strength" \in reasons
        <=> bolt \in DOMAIN ClassMinimum /\ NutNumeral[nut] < ClassMinimum[bolt]
  OBVIOUS
<1>. QED
  BY <1>1, <1>2, <1>3

LEMMA PairingStrength ==
  ASSUME NEW bolt, NEW nut
  PROVE  "strength" \in PairingErrors(bolt, nut)
           <=> /\ bolt.class \in DOMAIN RecordMinimum
               /\ nut.class \in DOMAIN NutNumeral
               /\ NutNumeral[nut.class] < RecordMinimum[bolt.class]
BY DEF PairingErrors

LEMMA AnswerOfAssembly ==
  ASSUME AssembliesInv, NEW call \in Answered("assembly_answered")
  PROVE  /\ call.in \in AssemblyInputs
         /\ call.in = [f \in InputFields |-> call.in[f]]
         /\ call.pairing = Pairing(call.in)
         /\ call.answer = AssessAssembly(call.in)
<1>1. PICK in \in AssemblyInputs : call = AssemblyAnswer(in)
  BY AssembliesAnswers
<1>2. call.in = in /\ call.pairing = Pairing(in) /\ call.answer = AssessAssembly(in)
  BY <1>1 DEF AssemblyAnswer
<1>3. in = [f \in InputFields |-> in[f]]
  BY LibraryAssumption
<1>. QED
  BY <1>2, <1>3

LEMMA EnginesAgreeHolds ==
  AssembliesInv => EnginesAgree
<1>. SUFFICES ASSUME AssembliesInv, NEW call \in Answered("assembly_answered"),
                     call.pairing # None
              PROVE  LET bolt == Resolve(BoltRecords, call.in.bolt).class
                         nut == Resolve(NutRecords, call.in.nut).class
                         byClass == StrengthPairing(bolt, nut, None)
                     IN  byClass.status # "unknown" =>
                           ("strength" \in byClass.reasons
                              <=> "strength" \in call.pairing.errors)
  BY DEF EnginesAgree
<1>. DEFINE bolt == Resolve(BoltRecords, call.in.bolt)
            nut == Resolve(NutRecords, call.in.nut)
<1>1. call.pairing = Pairing(call.in)
  BY AnswerOfAssembly
<1>2. call.pairing.errors = PairingErrors(bolt, nut)
  BY <1>1 DEF Pairing
<1>. HIDE DEF bolt, nut
<1>. SUFFICES ASSUME StrengthPairing(bolt.class, nut.class, None).status # "unknown"
              PROVE  "strength" \in StrengthPairing(bolt.class, nut.class, None).reasons
                       <=> "strength" \in PairingErrors(bolt, nut)
  BY <1>2 DEF bolt, nut
<1>3. bolt.class \in CarbonBolts \cup StainlessBolts /\ nut.class \in NutClasses
  BY StrengthReason
<1>4. nut.class \in DOMAIN NutNumeral
  BY <1>3, NutNumerals
<1>5. bolt.class \in DOMAIN ClassMinimum <=> bolt.class \in DOMAIN RecordMinimum
  BY <1>3, ClassMinima, RecordMinima DEF CarbonBolts, StainlessBolts
<1>6. bolt.class \in DOMAIN ClassMinimum
        => ClassMinimum[bolt.class] = RecordMinimum[bolt.class]
  BY TablesAgree, ClassMinima
<1>. QED
  BY <1>3, <1>4, <1>5, <1>6, StrengthReason, PairingStrength

\* The recommended nut is the weakest that the bolt's class asks for.
LEMMA RecommendedNumeral ==
  ASSUME NEW bolt \in CarbonBolts
  PROVE  /\ RecommendedNut(bolt) \in NutClasses
         /\ NutNumeral[RecommendedNut(bolt)] = ClassMinimum[bolt]
         /\ ClassMinimum[bolt] = 4 => RecommendedNut(bolt) = "04"
<1>. DEFINE S == {v \in RecommendedNumerals : v >= ClassMinimum[bolt]}
<1>1. bolt \in DOMAIN ClassMinimum /\ ClassMinimum[bolt] \in RecommendedNumerals
  BY TablesAgree
<1>2. \A v \in RecommendedNumerals : v \in Nat
  BY NumeralOfClass
<1>3. S \in SUBSET Nat /\ ClassMinimum[bolt] \in S
  BY <1>1, <1>2
<1>4. Min(S) \in S /\ \A y \in S : Min(S) <= y
  BY <1>3, MinMember
<1>5. Min(S) = ClassMinimum[bolt]
  BY <1>2, <1>3, <1>4
<1>6. RecommendedNut(bolt) =
        IF Min(S) = 4 THEN "04" ELSE CHOOSE c \in NutClasses : NutNumeral[c] = Min(S)
  BY <1>1 DEF RecommendedNut
<1>. HIDE DEF S
<1>7. \E c \in NutClasses : NutNumeral[c] = Min(S)
  BY <1>1, <1>5, NumeralOfClass
<1>. QED
  BY <1>1, <1>5, <1>6, <1>7, NumeralOfClass

LEMMA RecommendedNutSufficesHolds ==
  AssembliesInv => RecommendedNutSuffices
<1>. SUFFICES ASSUME NEW bolt, RecommendedNut(bolt) # None, NEW nut \in NutClasses
              PROVE  "strength" \in StrengthPairing(bolt, nut, None).reasons
                       <=> NutNumeral[nut] < NutNumeral[RecommendedNut(bolt)]
  BY DEF RecommendedNutSuffices
<1>1. bolt \in CarbonBolts /\ bolt \in DOMAIN ClassMinimum
  BY ClassMinima DEF RecommendedNut
<1>. QED
  BY <1>1, StrengthReason, RecommendedNumeral

LEMMA ListedBolts ==
  /\ CompatibleBolts["04"] = {"3.6", "4.6"}
  /\ CompatibleBolts["4"] = {"3.6", "4.6", "4.8"}
  /\ CompatibleBolts["5"] = {"4.6", "4.8", "5.6", "5.8"}
  /\ CompatibleBolts["6"] = {"5.6", "5.8", "6.8"}
  /\ CompatibleBolts["8"] = {"6.8", "8.8"}
  /\ CompatibleBolts["9"] = {"8.8", "9.8"}
  /\ CompatibleBolts["10"] = {"9.8", "10.9"}
  /\ CompatibleBolts["12"] = {"10.9", "12.9"}
BY Zenon DEF CompatibleBolts, NutClasses

\* A pair that a nut's record lists passes the comparison of numerals.
LEMMA ListedPair ==
  ASSUME NEW nut \in NutClasses, NEW bolt \in CompatibleBolts[nut]
  PROVE  bolt \in DOMAIN ClassMinimum => ClassMinimum[bolt] <= NutNumeral[nut]
<1>. SUFFICES ASSUME bolt \in CarbonBolts
              PROVE  ClassMinimum[bolt] <= NutNumeral[nut]
  BY ClassMinima
<1>1. bolt # "3.6"
  BY DEF CarbonBolts
<1>2. nut \in {"04", "4", "5", "6", "8", "9", "10", "12"}
  BY DEF NutClasses
<1>3. CASE nut = "04"
  BY <1>1, <1>3, ListedBolts, ClassMinima, NutNumerals
<1>4. CASE nut = "4"
  BY <1>1, <1>4, ListedBolts, ClassMinima, NutNumerals
<1>5. CASE nut = "5"
  BY <1>5, ListedBolts, ClassMinima, NutNumerals
<1>6. CASE nut = "6"
  BY <1>6, ListedBolts, ClassMinima, NutNumerals
<1>7. CASE nut = "8"
  BY <1>7, ListedBolts, ClassMinima, NutNumerals
<1>8. CASE nut = "9"
  BY <1>8, ListedBolts, ClassMinima, NutNumerals
<1>9. CASE nut = "10"
  BY <1>9, ListedBolts, ClassMinima, NutNumerals
<1>10. CASE nut = "12"
  BY <1>10, ListedBolts, ClassMinima, NutNumerals
<1>. QED
  BY <1>2, <1>3, <1>4, <1>5, <1>6, <1>7, <1>8, <1>9, <1>10

\* The record of the nut recommended for a bolt lists the bolt, but for 4.8.
LEMMA RecommendedPair ==
  ASSUME NEW bolt \in CarbonBolts
  PROVE  bolt \in CompatibleBolts[RecommendedNut(bolt)] <=> bolt # "4.8"
<1>. DEFINE best == RecommendedNut(bolt)
<1>1. /\ best \in NutClasses /\ NutNumeral[best] = ClassMinimum[bolt]
      /\ ClassMinimum[bolt] = 4 => best = "04"
  BY RecommendedNumeral
<1>. HIDE DEF best
<1>2. best \in {"04", "4", "5", "6", "8", "9", "10", "12"}
  BY <1>1 DEF NutClasses
<1>3. bolt \in CompatibleBolts[best] <=> bolt # "4.8"
  <2>1. CASE bolt \in {"4.6", "4.8"}
    BY <1>1, <2>1, ClassMinima, ListedBolts
  <2>2. CASE bolt \in {"5.6", "5.8"}
    <3>1. best = "5"
      BY <1>1, <1>2, <2>2, ClassMinima, NutNumerals
    <3>. QED
      BY <2>2, <3>1, ListedBolts
  <2>3. CASE bolt = "6.8"
    <3>1. best = "6"
      BY <1>1, <1>2, <2>3, ClassMinima, NutNumerals
    <3>. QED
      BY <2>3, <3>1, ListedBolts
  <2>4. CASE bolt = "8.8"
    <3>1. best = "8"
      BY <1>1, <1>2, <2>4, ClassMinima, NutNumerals
    <3>. QED
      BY <2>4, <3>1, ListedBolts
  <2>5. CASE bolt = "9.8"
    <3>1. best = "9"
      BY <1>1, <1>2, <2>5, ClassMinima, NutNumerals
    <3>. QED
      BY <2>5, <3>1, ListedBolts
  <2>6. CASE bolt = "10.9"
    <3>1. best = "10"
      BY <1>1, <1>2, <2>6, ClassMinima, NutNumerals
    <3>. QED
      BY <2>6, <3>1, ListedBolts
  <2>7. CASE bolt = "12.9"
    <3>1. best = "12"
      BY <1>1, <1>2, <2>7, ClassMinima, NutNumerals
    <3>. QED
      BY <2>7, <3>1, ListedBolts
  <2>. QED
    BY <2>1, <2>2, <2>3, <2>4, <2>5, <2>6, <2>7 DEF CarbonBolts
<1>. QED
  BY <1>3 DEF best

LEMMA RecordedPairsAcceptedHolds ==
  AssembliesInv => RecordedPairsAccepted
<1>1. ASSUME NEW bolt, NEW nut \in NutClasses, bolt \in CompatibleBolts[nut]
      PROVE  "strength" \notin StrengthPairing(bolt, nut, None).reasons
  <2>1. CASE bolt \in CarbonBolts \cup StainlessBolts
    <3>1. bolt \in DOMAIN ClassMinimum => ~(NutNumeral[nut] < ClassMinimum[bolt])
      <4>. SUFFICES ASSUME bolt \in DOMAIN ClassMinimum
                    PROVE  ~(NutNumeral[nut] < ClassMinimum[bolt])
        OBVIOUS
      <4>1. bolt \in CarbonBolts
        BY ClassMinima
      <4>2. ClassMinimum[bolt] <= NutNumeral[nut]
        BY <1>1, ListedPair
      <4>3. ClassMinimum[bolt] \in Nat /\ NutNumeral[nut] \in Nat
        BY <4>1, TablesAgree, NumeralOfClass
      <4>. QED
        BY <4>2, <4>3
    <3>. QED
      BY <1>1, <2>1, <3>1, StrengthReason
  <2>2. CASE bolt \notin CarbonBolts \cup StainlessBolts
    <3>1. StrengthPairing(bolt, nut, None).reasons = {"unrecognised"}
      BY <2>2 DEF StrengthPairing
    <3>. QED
      BY <3>1
  <2>. QED
    BY <2>1, <2>2
<1>2. ASSUME NEW bolt, RecommendedNut(bolt) # None
      PROVE  bolt \in CompatibleBolts[RecommendedNut(bolt)] <=> bolt # "4.8"
  <2>1. bolt \in CarbonBolts
    BY <1>2, ClassMinima DEF RecommendedNut
  <2>. QED
    BY <2>1, RecommendedPair
<1>. QED
  BY <1>1, <1>2 DEF RecordedPairsAccepted

(* The fourteen checks. *)

\* Less is given in o than in i.
Withheld(o, i) == \A f \in InputFields : o[f] \in {i[f], None}

\* A record of a designation that is withheld is not there.
LEMMA ResolveWithheld ==
  ASSUME NEW records, NEW a, NEW b, a \in {b, None}
  PROVE  Resolve(records, a) \in {Resolve(records, b), None}
BY DEF Resolve

LEMMA PairWithheld ==
  ASSUME NEW a, NEW b, NEW x, NEW y, a \in {x, None}, b \in {y, None},
         CheckPair(a, b) = "incompatible"
  PROVE  CheckPair(x, y) = "incompatible"
BY DEF CheckPair, Verdict

LEMMA TemperatureWithheld ==
  ASSUME NEW a, NEW b, NEW c, NEW x, NEW y, NEW z,
         a \in {x, None}, b \in {y, None}, c \in {z, None},
         CheckTemperature(a, b, c) = "incompatible"
  PROVE  CheckTemperature(x, y, z) = "incompatible"
<1>1. a = x /\ b = y /\ c = z
  BY DEF CheckTemperature
<1>. QED
  BY <1>1

LEMMA CoatingWithheld ==
  ASSUME NEW a, NEW b, NEW c, NEW x, NEW y, NEW z,
         a \in {x, None}, b \in {y, None}, c \in {z, None},
         CheckCoating(a, b, c) = "incompatible"
  PROVE  CheckCoating(x, y, z) = "incompatible"
<1>1. a = x /\ b = y /\ c = z
  BY DEF CheckCoating
<1>. QED
  BY <1>1

LEMMA StrengthWithheld ==
  ASSUME NEW o, NEW i, Withheld(o, i), CheckStrength(o) = "incompatible"
  PROVE  CheckStrength(i) = "incompatible"
<1>1. /\ o.boltClass \in {i.boltClass, None} /\ o.nutClass \in {i.nutClass, None}
      /\ o.diameter \in {i.diameter, None}
  BY DEF Withheld, InputFields
<1>2. o.boltClass = i.boltClass /\ o.nutClass = i.nutClass
      /\ None \notin {i.boltClass, i.nutClass}
  BY <1>1 DEF CheckStrength
<1>. DEFINE b == i.boltClass
            n == i.nutClass
            known == b \in CarbonBolts \cup StainlessBolts /\ n \in NutClasses
            reasons ==
              (IF b \in DOMAIN ClassMinimum /\ NutNumeral[n] < ClassMinimum[b]
                 THEN {"strength"} ELSE {})
              \cup (IF b \in StainlessBolts THEN {"material", "standard"} ELSE {})
            status(d) == StrengthPairing(b, n, d).status
<1>3. ASSUME NEW d
      PROVE  status(d) = IF ~known THEN "unknown"
                         ELSE IF reasons # {} THEN "not_compatible"
                         ELSE IF OutsideRange(b, n, d) THEN "conditionally_compatible"
                         ELSE "compatible"
  BY DEF StrengthPairing
<1>4. status(o.diameter) \notin {"unknown", "compatible"}
  BY <1>2 DEF CheckStrength, Verdict
<1>5. ~OutsideRange(b, n, None)
  BY DEF OutsideRange
<1>. HIDE DEF known, reasons, status
<1>6. status(i.diameter) \notin {"unknown", "compatible"}
  BY <1>1, <1>3, <1>4, <1>5
<1>. QED
  BY <1>2, <1>6 DEF CheckStrength, Verdict, status

LEMMA ThreadWithheld ==
  ASSUME NEW o, NEW i, Withheld(o, i), CheckThread(o) = "incompatible"
  PROVE  CheckThread(i) = "incompatible"
<1>1. o.thread \in {i.thread, None} /\ o.diameter \in {i.diameter, None}
  BY DEF Withheld, InputFields
<1>2. o.thread = i.thread /\ i.thread # None
  BY <1>1 DEF CheckThread
<1>3. ~\E r \in ThreadRecords :
         r.designation = i.thread /\ i.diameter \in {None, r.diameter}
  BY <1>1, <1>2 DEF CheckThread, Verdict
<1>. QED
  BY <1>2, <1>3 DEF CheckThread, Verdict

LEMMA WashersWithheld ==
  ASSUME NEW o, NEW i, Withheld(o, i)
  PROVE  /\ CheckWasher(o) = "incompatible" => CheckWasher(i) = "incompatible"
         /\ CheckWasherDiameter(o) = "incompatible" => CheckWasherDiameter(i) = "incompatible"
<1>1. o.size \in {i.size, None} /\ o.washer \in {i.washer, None}
  BY DEF Withheld, InputFields
<1>. QED
  BY <1>1 DEF CheckWasher, CheckWasherDiameter, Verdict

LEMMA FrictionWithheld ==
  ASSUME NEW o, NEW i, Withheld(o, i), CheckFriction(o) = "incompatible"
  PROVE  CheckFriction(i) = "incompatible"
<1>1. o.friction \in {i.friction, None}
  BY DEF Withheld, InputFields
<1>2. o.friction = i.friction
  BY <1>1 DEF CheckFriction
<1>. QED
  BY <1>2 DEF CheckFriction

LEMMA ReferenceWithheld ==
  ASSUME NEW a, NEW b, a \in {b, None}, CheckReference(a) = "incompatible"
  PROVE  CheckReference(b) = "incompatible"
BY DEF CheckReference, Verdict

CheckNames ==
  {"bolt_nut_dimensional", "bolt_washer", "washer_diameter", "thread", "strength_class",
   "friction_condition", "intended_use", "operating_temperature", "coating", "material",
   "standard", "oem_recommendation", "defence_recommendation",
   "automotive_recommendation"}

LEMMA ChecksWithheld ==
  ASSUME NEW o, NEW i, Withheld(o, i), NEW c \in CheckNames,
         AssemblyChecks(o)[c] = "incompatible"
  PROVE  AssemblyChecks(i)[c] = "incompatible"
<1>. DEFINE bolt(in) == Resolve(BoltRecords, in.bolt)
            nut(in) == Resolve(NutRecords, in.nut)
<1>1. ASSUME NEW in
      PROVE  LET k == AssemblyChecks(in) IN
               /\ k["bolt_nut_dimensional"] = CheckPair(bolt(in), nut(in))
               /\ k["bolt_washer"] = CheckWasher(in)
               /\ k["washer_diameter"] = CheckWasherDiameter(in)
               /\ k["thread"] = CheckThread(in)
               /\ k["strength_class"] = CheckStrength(in)
               /\ k["friction_condition"] = CheckFriction(in)
               /\ k["intended_use"] = "blocked_authoritative_source"
               /\ k["operating_temperature"]
                    = CheckTemperature(bolt(in), nut(in), in.temperature)
               /\ k["coating"] = CheckCoating(bolt(in), nut(in), in.coating)
               /\ k["material"] = "blocked_authoritative_source"
               /\ k["standard"] = CheckReference(in.standard)
               /\ k["oem_recommendation"] = CheckReference(in.oem)
               /\ k["defence_recommendation"] = "blocked_authoritative_source"
               /\ k["automotive_recommendation"] = CheckReference(in.automotive)
  BY DEF AssemblyChecks
<1>2. /\ o.bolt \in {i.bolt, None} /\ o.nut \in {i.nut, None}
      /\ o.temperature \in {i.temperature, None} /\ o.coating \in {i.coating, None}
      /\ o.standard \in {i.standard, None} /\ o.oem \in {i.oem, None}
      /\ o.automotive \in {i.automotive, None}
  BY DEF Withheld, InputFields
<1>3. bolt(o) \in {bolt(i), None} /\ nut(o) \in {nut(i), None}
  BY <1>2, ResolveWithheld
<1>. HIDE DEF bolt, nut
<1>4. CASE c \in {"bolt_nut_dimensional", "operating_temperature", "coating"}
  BY <1>1, <1>2, <1>3, <1>4, PairWithheld, TemperatureWithheld, CoatingWithheld
<1>5. CASE c \in {"bolt_washer", "washer_diameter", "thread"}
  BY <1>1, <1>5, WashersWithheld, ThreadWithheld
<1>6. CASE c \in {"strength_class", "friction_condition"}
  BY <1>1, <1>6, StrengthWithheld, FrictionWithheld
<1>7. CASE c \in {"standard", "oem_recommendation", "automotive_recommendation"}
  BY <1>1, <1>2, <1>7, ReferenceWithheld
<1>8. c \notin {"intended_use", "material", "defence_recommendation"}
  BY <1>1
<1>. QED
  BY <1>4, <1>5, <1>6, <1>7, <1>8 DEF CheckNames

LEMMA CheckDomain ==
  ASSUME NEW in
  PROVE  DOMAIN AssemblyChecks(in) = CheckNames
BY DEF AssemblyChecks, CheckNames

LEMMA MoreInputHidesNothingHolds ==
  AssembliesInv => MoreInputHidesNothing
<1>. SUFFICES ASSUME AssembliesInv, NEW call \in Answered("assembly_answered"),
                     NEW f \in DOMAIN call.in
              PROVE  With(AssemblyChecks([call.in EXCEPT ![f] = None]), {"incompatible"})
                       \subseteq call.answer.critical
  BY DEF MoreInputHidesNothing
<1>. DEFINE i == call.in
            o == [call.in EXCEPT ![f] = None]
<1>1. i = [g \in InputFields |-> i[g]] /\ call.answer = AssessAssembly(i)
  BY AnswerOfAssembly
<1>2. call.answer.critical = With(AssemblyChecks(i), {"incompatible"})
  BY <1>1 DEF AssessAssembly
<1>3. Withheld(o, i)
  BY <1>1 DEF Withheld
<1>. HIDE DEF o, i
<1>4. \A c \in CheckNames :
        AssemblyChecks(o)[c] = "incompatible" => AssemblyChecks(i)[c] = "incompatible"
  BY <1>3, ChecksWithheld
<1>5. With(AssemblyChecks(o), {"incompatible"}) \subseteq With(AssemblyChecks(i), {"incompatible"})
  BY <1>4, CheckDomain DEF With
<1>. QED
  BY <1>2, <1>5 DEF o, i

(* The score. *)

LEMMA SevenMore ==
  ASSUME NEW S, IsFiniteSet(S), NEW a, NEW b, NEW c, NEW d, NEW e, NEW f, NEW g,
         a \notin S, b \notin S \cup {a}, c \notin S \cup {a, b}, d \notin S \cup {a, b, c},
         e \notin S \cup {a, b, c, d}, f \notin S \cup {a, b, c, d, e},
         g \notin S \cup {a, b, c, d, e, f},
         NEW T, T = S \cup {a, b, c, d, e, f, g}
  PROVE  IsFiniteSet(T) /\ Cardinality(T) = Cardinality(S) + 7
<1>0. Cardinality(S) \in Nat
  BY FS_CardinalityType
<1>. DEFINE S1 == S \cup {a}
            S2 == S1 \cup {b}
            S3 == S2 \cup {c}
            S4 == S3 \cup {d}
            S5 == S4 \cup {e}
            S6 == S5 \cup {f}
            S7 == S6 \cup {g}
<1>1. /\ b \notin S1 /\ c \notin S2 /\ d \notin S3 /\ e \notin S4 /\ f \notin S5 /\ g \notin S6
      /\ S7 = T
  OBVIOUS
<1>2. IsFiniteSet(S1) /\ Cardinality(S1) = Cardinality(S) + 1
  BY FS_AddElement
<1>. HIDE DEF S1
<1>3. IsFiniteSet(S2) /\ Cardinality(S2) = Cardinality(S1) + 1
  BY <1>1, <1>2, FS_AddElement
<1>. HIDE DEF S2
<1>4. IsFiniteSet(S3) /\ Cardinality(S3) = Cardinality(S2) + 1
  BY <1>1, <1>3, FS_AddElement
<1>. HIDE DEF S3
<1>5. IsFiniteSet(S4) /\ Cardinality(S4) = Cardinality(S3) + 1
  BY <1>1, <1>4, FS_AddElement
<1>. HIDE DEF S4
<1>6. IsFiniteSet(S5) /\ Cardinality(S5) = Cardinality(S4) + 1
  BY <1>1, <1>5, FS_AddElement
<1>. HIDE DEF S5
<1>7. IsFiniteSet(S6) /\ Cardinality(S6) = Cardinality(S5) + 1
  BY <1>1, <1>6, FS_AddElement
<1>. HIDE DEF S6
<1>8. IsFiniteSet(S7) /\ Cardinality(S7) = Cardinality(S6) + 1
  BY <1>1, <1>7, FS_AddElement
<1>. HIDE DEF S7
<1>. QED
  BY <1>0, <1>1, <1>2, <1>3, <1>4, <1>5, <1>6, <1>7, <1>8

LEMMA FourteenChecks ==
  IsFiniteSet(CheckNames) /\ Cardinality(CheckNames) = 14
<1>1. PICK S : S = {}
  OBVIOUS
<1>2. IsFiniteSet(S) /\ Cardinality(S) = 0
  BY <1>1, FS_EmptySet
<1>3. PICK T : T = S \cup {"bolt_nut_dimensional", "bolt_washer", "washer_diameter", "thread",
                          "strength_class", "friction_condition", "intended_use"}
  OBVIOUS
<1>4. IsFiniteSet(T) /\ Cardinality(T) = Cardinality(S) + 7
  <2>1. /\ "bolt_nut_dimensional" \notin S
        /\ "bolt_washer" \notin S \cup {"bolt_nut_dimensional"}
        /\ "washer_diameter" \notin S \cup {"bolt_nut_dimensional", "bolt_washer"}
        /\ "thread" \notin S \cup {"bolt_nut_dimensional", "bolt_washer", "washer_diameter"}
        /\ "strength_class" \notin
              S \cup {"bolt_nut_dimensional", "bolt_washer", "washer_diameter", "thread"}
        /\ "friction_condition" \notin
              S \cup {"bolt_nut_dimensional", "bolt_washer", "washer_diameter", "thread",
                     "strength_class"}
        /\ "intended_use" \notin
              S \cup {"bolt_nut_dimensional", "bolt_washer", "washer_diameter", "thread",
                     "strength_class", "friction_condition"}
    BY <1>1
  <2>. QED
    BY <1>2, <1>3, <2>1, SevenMore
<1>5. PICK U : U = T \cup {"operating_temperature", "coating", "material", "standard",
                          "oem_recommendation", "defence_recommendation",
                          "automotive_recommendation"}
  OBVIOUS
<1>6. IsFiniteSet(U) /\ Cardinality(U) = Cardinality(T) + 7
  <2>1. /\ "operating_temperature" \notin T
        /\ "coating" \notin T \cup {"operating_temperature"}
        /\ "material" \notin T \cup {"operating_temperature", "coating"}
        /\ "standard" \notin T \cup {"operating_temperature", "coating", "material"}
        /\ "oem_recommendation" \notin
              T \cup {"operating_temperature", "coating", "material", "standard"}
        /\ "defence_recommendation" \notin
              T \cup {"operating_temperature", "coating", "material", "standard",
                     "oem_recommendation"}
        /\ "automotive_recommendation" \notin
              T \cup {"operating_temperature", "coating", "material", "standard",
                     "oem_recommendation", "defence_recommendation"}
    BY <1>1, <1>3
  <2>. QED
    BY <1>4, <1>5, <2>1, SevenMore
<1>7. CheckNames = U
  BY <1>1, <1>3, <1>5 DEF CheckNames
<1>. QED
  BY <1>2, <1>4, <1>6, <1>7

\* A percentage is full, or nought, only if the part is.
LEMMA PercentBounds ==
  ASSUME NEW whole \in Nat, 1 <= whole, whole <= 14, NEW part \in Nat, part <= whole
  PROVE  /\ Percent(part, whole) \in Percentages
         /\ Percent(part, whole) = 10000 <=> part = whole
         /\ Percent(part, whole) = 0 <=> part = 0
<1>1. PICK n \in Nat : n = 20000 * part + whole
  OBVIOUS
<1>2. PICK m \in Nat \ {0} : m = 2 * whole
  OBVIOUS
<1>3. PICK q : q = n \div m
  OBVIOUS
<1>4. q \in Nat /\ q * m <= n /\ n < q * m + m
  BY <1>3
<1>5. Percent(part, whole) = q
  BY <1>1, <1>2, <1>3 DEF Percent
<1>6. \/ whole = 1 \/ whole = 2 \/ whole = 3 \/ whole = 4 \/ whole = 5 \/ whole = 6
      \/ whole = 7 \/ whole = 8 \/ whole = 9 \/ whole = 10 \/ whole = 11
      \/ whole = 12 \/ whole = 13 \/ whole = 14
  OBVIOUS
<1>7. q >= 0 /\ q <= 10000 /\ (q = 10000 <=> part = whole) /\ (q = 0 <=> part = 0)
  BY <1>1, <1>2, <1>4, <1>6
<1>. QED
  BY <1>4, <1>5, <1>7 DEF Percentages

LEMMA CheckStatuses ==
  ASSUME NEW in, NEW c \in CheckNames
  PROVE  AssemblyChecks(in)[c]
           \in {"compatible", "incompatible", "insufficient_data", "blocked_authoritative_source"}
<1>1. \A ok : Verdict(ok) \in {"compatible", "incompatible"}
  BY DEF Verdict
<1>2. /\ \A a, b : CheckPair(a, b) \in {"compatible", "incompatible", "insufficient_data"}
      /\ \A a, b, d : CheckTemperature(a, b, d) \in {"compatible", "incompatible", "insufficient_data"}
      /\ \A a, b, d : CheckCoating(a, b, d) \in {"compatible", "incompatible", "insufficient_data"}
      /\ \A a : CheckReference(a) \in {"compatible", "incompatible", "insufficient_data"}
  BY <1>1 DEF CheckPair, CheckTemperature, CheckCoating, CheckReference
<1>. DEFINE Ordinary == {"compatible", "incompatible", "insufficient_data"}
<1>3. CheckWasher(in) \in Ordinary
  BY DEF CheckWasher, Verdict
<1>4. CheckWasherDiameter(in) \in Ordinary
  BY DEF CheckWasherDiameter, Verdict
<1>5. CheckThread(in) \in Ordinary
  BY DEF CheckThread, Verdict
<1>6. CheckStrength(in) \in Ordinary
  BY <1>1 DEF CheckStrength
<1>7. CheckFriction(in) \in Ordinary
  BY <1>1 DEF CheckFriction
<1>. QED
  BY <1>2, <1>3, <1>4, <1>5, <1>6, <1>7 DEF CheckNames, AssemblyChecks

LEMMA DisjointSum ==
  ASSUME NEW S, NEW T, IsFiniteSet(S), IsFiniteSet(T), S \cap T = {}
  PROVE  IsFiniteSet(S \cup T) /\ Cardinality(S \cup T) = Cardinality(S) + Cardinality(T)
<1>1. IsFiniteSet(S \cup T)
      /\ Cardinality(S \cup T) = Cardinality(S) + Cardinality(T) - Cardinality(S \cap T)
  BY FS_Union
<1>2. Cardinality(S \cap T) = 0 /\ Cardinality(S) \in Nat /\ Cardinality(T) \in Nat
  BY FS_EmptySet, FS_CardinalityType
<1>. QED
  BY <1>1, <1>2

\* Every check of an assembly is in one of four sets, which fix the numbers
\* that are answered.
LEMMA ScoreOfAssembly ==
  ASSUME NEW in, NEW answer, answer = AssessAssembly(in)
  PROVE  LET good == With(answer.checks, {"compatible"}) IN
           /\ answer.critical \cap good = {}
           /\ IsFiniteSet(good) /\ IsFiniteSet(answer.critical)
           /\ answer.assessed = Cardinality(answer.critical \cup good)
           /\ answer.assessed \in 0..14
           /\ answer.assessed = 0 <=> answer.critical \cup good = {}
           /\ answer.assessed + answer.insufficient + answer.blocked = 14
           /\ answer.score = IF answer.critical \cup good = {} THEN None
                             ELSE Percent(Cardinality(good), answer.assessed)
           /\ answer.coverage = Percent(answer.assessed, 14)
<1>. DEFINE checks == AssemblyChecks(in)
            good == With(checks, {"compatible"})
            critical == With(checks, {"incompatible"})
            assessed == With(checks, {"compatible", "incompatible"})
            lacking == With(checks, {"insufficient_data"})
            blocked == With(checks, {"blocked_authoritative_source"})
<1>1. /\ answer.checks = checks /\ answer.critical = critical
      /\ answer.score = IF assessed = {} THEN None
                        ELSE Percent(Cardinality(assessed \ critical), Cardinality(assessed))
      /\ answer.assessed = Cardinality(assessed)
      /\ answer.insufficient = Cardinality(lacking)
      /\ answer.blocked = Cardinality(blocked)
      /\ answer.coverage = Percent(Cardinality(assessed), Cardinality(DOMAIN checks))
  BY DEF AssessAssembly
<1>2. DOMAIN checks = CheckNames
  BY CheckDomain
<1>3. /\ good \subseteq CheckNames /\ critical \subseteq CheckNames
      /\ lacking \subseteq CheckNames /\ blocked \subseteq CheckNames
      /\ assessed = critical \cup good /\ assessed \ critical = good
      /\ critical \cap good = {} /\ assessed \cap lacking = {}
      /\ (assessed \cup lacking) \cap blocked = {}
  BY <1>2 DEF With
<1>4. (assessed \cup lacking) \cup blocked = CheckNames
  BY <1>2, CheckStatuses DEF With
<1>. HIDE DEF checks, good, critical, assessed, lacking, blocked
<1>5. IsFiniteSet(good) /\ IsFiniteSet(critical) /\ IsFiniteSet(lacking) /\ IsFiniteSet(blocked)
  BY <1>3, FourteenChecks, FS_Subset
<1>6. IsFiniteSet(assessed)
  BY <1>3, <1>5, DisjointSum
<1>7. /\ Cardinality(assessed) \in Nat /\ Cardinality(lacking) \in Nat
      /\ Cardinality(blocked) \in Nat
  BY <1>5, <1>6, FS_CardinalityType
<1>8. /\ IsFiniteSet(assessed \cup lacking)
      /\ Cardinality(assessed \cup lacking) = Cardinality(assessed) + Cardinality(lacking)
  BY <1>3, <1>5, <1>6, DisjointSum
<1>9. Cardinality(assessed \cup lacking) + Cardinality(blocked) = 14
  BY <1>3, <1>4, <1>5, <1>8, DisjointSum, FourteenChecks
<1>10. Cardinality(assessed) = 0 <=> assessed = {}
  BY <1>6, FS_EmptySet
<1>11. answer.coverage = Percent(Cardinality(assessed), 14)
  BY <1>1, <1>2, FourteenChecks
<1>12. Cardinality(assessed) \in 0..14
  BY <1>7, <1>8, <1>9
<1>13. Cardinality(assessed) + Cardinality(lacking) + Cardinality(blocked) = 14
  BY <1>7, <1>8, <1>9
<1>14. good = With(answer.checks, {"compatible"})
  BY <1>1 DEF good
<1>. QED
  BY <1>1, <1>3, <1>5, <1>10, <1>11, <1>12, <1>13, <1>14

LEMMA ScoreHidesNothingHolds ==
  AssembliesInv => ScoreHidesNothing
<1>. SUFFICES ASSUME AssembliesInv, NEW call \in Answered("assembly_answered")
              PROVE  LET answer == call.answer
                         good == With(answer.checks, {"compatible"})
                     IN  /\ answer.score = None <=> answer.critical \cup good = {}
                         /\ answer.score # None => (answer.score = 10000 <=> answer.critical = {})
                         /\ answer.score # None => (answer.score = 0 <=> good = {})
                         /\ answer.assessed + answer.insufficient + answer.blocked = 14
                         /\ answer.assessed = Cardinality(answer.critical \cup good)
  BY DEF ScoreHidesNothing
<1>. DEFINE answer == call.answer
            good == With(answer.checks, {"compatible"})
            critical == answer.critical
<1>1. answer = AssessAssembly(call.in)
  BY AnswerOfAssembly
<1>2. /\ critical \cap good = {}
      /\ IsFiniteSet(good) /\ IsFiniteSet(critical)
      /\ answer.assessed = Cardinality(critical \cup good)
      /\ answer.assessed \in 0..14
      /\ answer.assessed = 0 <=> critical \cup good = {}
      /\ answer.assessed + answer.insufficient + answer.blocked = 14
      /\ answer.score = IF critical \cup good = {} THEN None
                        ELSE Percent(Cardinality(good), answer.assessed)
  BY <1>1, ScoreOfAssembly
<1>. HIDE DEF good, answer, critical
<1>3. Cardinality(critical \cup good) = Cardinality(critical) + Cardinality(good)
  BY <1>2, DisjointSum
<1>4. /\ Cardinality(good) \in Nat /\ (Cardinality(good) = 0 <=> good = {})
      /\ Cardinality(critical) \in Nat /\ (Cardinality(critical) = 0 <=> critical = {})
  BY <1>2, FS_CardinalityType, FS_EmptySet
<1>5. ASSUME critical \cup good # {}
      PROVE  /\ answer.score \in Percentages
             /\ answer.score = 10000 <=> critical = {}
             /\ answer.score = 0 <=> good = {}
  <2>1. answer.assessed \in Nat /\ 1 <= answer.assessed /\ answer.assessed <= 14
        /\ Cardinality(good) \in Nat /\ Cardinality(good) <= answer.assessed
    BY <1>2, <1>3, <1>4, <1>5
  <2>2. answer.score = Percent(Cardinality(good), answer.assessed)
    BY <1>2, <1>5
  <2>3. Cardinality(good) = answer.assessed <=> critical = {}
    BY <1>2, <1>3, <1>4
  <2>. QED
    BY <1>4, <2>1, <2>2, <2>3, PercentBounds
<1>6. answer.score = None <=> critical \cup good = {}
  <2>1. \A x \in Percentages : x # None
    <3>1. Percentages \subseteq Nat
      BY DEF Percentages
    <3>2. None \notin Nat
      BY LibraryAssumption
    <3>. QED
      BY <3>1, <3>2
  <2>. QED
    BY <1>2, <1>5, <2>1
<1>. QED
  BY <1>2, <1>5, <1>6 DEF good, answer, critical

LEMMA AssembliesInvTypes ==
  AssembliesInv => AssembliesTypeOK
<1>. SUFFICES ASSUME AssembliesInv, NEW t \in Threads
              PROVE  \/ calls[t] = Idle
                     \/ /\ At(t, "assembly_answered")
                        /\ calls[t].in \in AssemblyInputs
                        /\ calls[t].answer.score \in Percentages \cup {None}
                        /\ calls[t].answer.coverage \in Percentages
                     \/ /\ At(t, "friction_answered")
                        /\ calls[t].id \in FrictionIds
                        /\ calls[t].answer.level \in 1..4
                        /\ calls[t].answer.capabilities \subseteq Capabilities
                     \/ At(t, "comparison_answered") /\ {calls[t].a, calls[t].b} \subseteq FrictionIds
  BY DEF AssembliesTypeOK
<1>1. ASSUME NEW in \in AssemblyInputs, calls[t] = AssemblyAnswer(in)
      PROVE  /\ At(t, "assembly_answered") /\ calls[t].in \in AssemblyInputs
             /\ calls[t].answer.score \in Percentages \cup {None}
             /\ calls[t].answer.coverage \in Percentages
  <2>1. /\ calls[t].at = "assembly_answered" /\ calls[t].in = in
        /\ calls[t].answer = AssessAssembly(in)
    BY <1>1 DEF AssemblyAnswer
  <2>. DEFINE answer == calls[t].answer
              good == With(answer.checks, {"compatible"})
  <2>2. /\ answer.critical \cap good = {}
        /\ IsFiniteSet(good) /\ IsFiniteSet(answer.critical)
        /\ answer.assessed = Cardinality(answer.critical \cup good)
        /\ answer.assessed \in 0..14
        /\ answer.assessed = 0 <=> answer.critical \cup good = {}
        /\ answer.score = IF answer.critical \cup good = {} THEN None
                          ELSE Percent(Cardinality(good), answer.assessed)
        /\ answer.coverage = Percent(answer.assessed, 14)
    BY <2>1, ScoreOfAssembly
  <2>. HIDE DEF good, answer
  <2>3. answer.coverage \in Percentages
    BY <2>2, PercentBounds
  <2>4. Cardinality(good) \in Nat /\ Cardinality(good) <= answer.assessed
    <3>1. Cardinality(answer.critical \cup good) = Cardinality(answer.critical) + Cardinality(good)
      BY <2>2, DisjointSum
    <3>2. Cardinality(answer.critical) \in Nat /\ Cardinality(good) \in Nat
      BY <2>2, FS_CardinalityType
    <3>. QED
      BY <2>2, <3>1, <3>2
  <2>5. answer.score \in Percentages \cup {None}
    BY <2>2, <2>4, PercentBounds
  <2>. QED
    BY <2>1, <2>3, <2>5 DEF At, answer
<1>2. ASSUME NEW id \in FrictionIds, NEW use, NEW geometry, NEW preload,
             calls[t] = FrictionAnswer(id, use, geometry, preload)
      PROVE  /\ At(t, "friction_answered") /\ calls[t].id \in FrictionIds
             /\ calls[t].answer.level \in 1..4
             /\ calls[t].answer.capabilities \subseteq Capabilities
  <2>1. /\ calls[t].at = "friction_answered" /\ calls[t].id = id
        /\ calls[t].answer = RecommendationReadiness(id, use)
    BY <1>2 DEF FrictionAnswer
  <2>2. /\ RecommendationReadiness(id, use).level \in 1..4
        /\ RecommendationReadiness(id, use).capabilities \subseteq Capabilities
    BY DEF RecommendationReadiness, Capabilities
  <2>. QED
    BY <2>1, <2>2 DEF At
<1>3. ASSUME NEW a \in FrictionIds, NEW b \in FrictionIds, calls[t] = ComparisonAnswer(a, b)
      PROVE  At(t, "comparison_answered") /\ {calls[t].a, calls[t].b} \subseteq FrictionIds
  BY <1>3 DEF ComparisonAnswer, At
<1>4. Assessed(calls[t])
  BY DEF AssembliesInv
<1>. QED
  BY <1>1, <1>2, <1>3, <1>4 DEF Assessed

\* Every call of AssembliesSpec has its type, and the scores and percentages
\* stay between 0 and 100 per cent (assembly_intelligence.py).
THEOREM AssembliesTypeCorrect == AssembliesSpec => []AssembliesTypeOK
<1>1. AssembliesSpec => []AssembliesInv
  BY AssembliesInductive, PTL DEF AssembliesSpec
<1>. QED
  BY <1>1, AssembliesInvTypes, PTL

\* The score of an assembly hides no finding, more inputs hide none, the
\* engines agree with each other and, but for one named bolt class, with the
\* pairs the nut records list, and none claims more than the records say.
THEOREM AssessmentsAreSound == AssembliesSpec => []AssessmentsSound
<1>1. AssembliesSpec => []AssembliesInv
  BY AssembliesInductive, PTL DEF AssembliesSpec
<1>2. AssembliesInv => AssessmentsSound
  BY ScoreHidesNothingHolds, MoreInputHidesNothingHolds, EnginesAgreeHolds,
     RecommendedNutSufficesHolds, RecordedPairsAcceptedHolds,
     FrictionNeverOverclaimsHolds, ComparisonsMirroredHolds
     DEF AssessmentsSound
<1>. QED
  BY <1>1, <1>2, PTL

(* ---- Materials. ---- *)

MaterialsAnswer(library, need) ==
  [at |-> "materials_answered", library |-> library, need |-> need,
   answer |-> Recommend(library, need)]

MaterialsCompared(library, a, b) ==
  [at |-> "materials_compared", library |-> library, a |-> a, b |-> b,
   answer |-> [p \in Properties |-> ValueRelation(a[p], b[p])]]

Recommended(c) ==
  \/ c = Idle
  \/ \E library \in MaterialLibraries, need \in Requirements : c = MaterialsAnswer(library, need)
  \/ \E library \in MaterialLibraries : \E a, b \in Range(library) :
       c = MaterialsCompared(library, a, b)

MaterialsInv ==
  /\ calls = [t \in Threads |-> calls[t]]
  /\ \A t \in Threads : Recommended(calls[t])

\* Every call has the answer that its inputs have.
LEMMA MaterialsInductive ==
  /\ InitCalls => MaterialsInv
  /\ MaterialsInv /\ [MaterialsNext]_calls => MaterialsInv'
<1>1. ASSUME InitCalls
      PROVE  MaterialsInv
  BY <1>1 DEF InitCalls, MaterialsInv, Recommended
<1>2. ASSUME MaterialsInv, UNCHANGED calls
      PROVE  MaterialsInv'
  <2>1. ASSUME NEW t \in Threads
        PROVE  Recommended(calls'[t])
    BY <1>2 DEF MaterialsInv
  <2>. QED
    BY <1>2, <2>1 DEF MaterialsInv, Recommended
<1>3. ASSUME MaterialsInv, NEW t \in Threads, NEW call, Goto(t, call), Recommended(call)
      PROVE  MaterialsInv'
  <2>1. /\ calls' = [u \in Threads |-> calls'[u]]
        /\ \A u \in Threads : calls'[u] = IF u = t THEN call ELSE calls[u]
    BY <1>3, GotoCalls DEF MaterialsInv
  <2>2. \A u \in Threads : Recommended(calls'[u])
    BY <1>3, <2>1 DEF MaterialsInv
  <2>. QED
    BY <2>1, <2>2 DEF MaterialsInv, Recommended
<1>4. ASSUME MaterialsInv, NEW t \in Threads, AskMaterials(t)
      PROVE  MaterialsInv'
  <2>1. PICK library \in MaterialLibraries, need \in Requirements :
               Goto(t, MaterialsAnswer(library, need))
    BY <1>4 DEF AskMaterials, MaterialsAnswer
  <2>. QED
    BY <1>3, <1>4, <2>1 DEF Recommended
<1>5. ASSUME MaterialsInv, NEW t \in Threads, CompareMaterials(t)
      PROVE  MaterialsInv'
  <2>1. PICK library \in MaterialLibraries : \E a, b \in Range(library) :
               Goto(t, MaterialsCompared(library, a, b))
    BY <1>5 DEF CompareMaterials, MaterialsCompared
  <2>2. PICK a \in Range(library), b \in Range(library) :
               Goto(t, MaterialsCompared(library, a, b))
    BY <2>1
  <2>. QED
    BY <1>3, <1>5, <2>2 DEF Recommended
<1>6. ASSUME MaterialsInv, NEW t \in Threads, Leave(t)
      PROVE  MaterialsInv'
  BY <1>3, <1>6 DEF Leave, Finish, Recommended
<1>. QED
  BY <1>1, <1>2, <1>4, <1>5, <1>6 DEF MaterialsNext, MaterialStep

\* An answered call of each kind.
LEMMA MaterialsAnswers ==
  ASSUME MaterialsInv, NEW t \in Threads
  PROVE  /\ At(t, "materials_answered") =>
              \E library \in MaterialLibraries, need \in Requirements :
                calls[t] = MaterialsAnswer(library, need)
         /\ At(t, "materials_compared") =>
              \E library \in MaterialLibraries : \E a, b \in Range(library) :
                calls[t] = MaterialsCompared(library, a, b)
<1>1. Recommended(calls[t])
  BY DEF MaterialsInv
<1>2. /\ Idle.at = "idle"
      /\ \A library, need : MaterialsAnswer(library, need).at = "materials_answered"
      /\ \A library, a, b : MaterialsCompared(library, a, b).at = "materials_compared"
  BY DEF Idle, MaterialsAnswer, MaterialsCompared
<1>. QED
  BY <1>1, <1>2 DEF Recommended, At

(* Ratios. *)

Ratios == Nat \X (Nat \ {0})

LEMMA RatioTransitive ==
  ASSUME NEW a \in Nat, NEW b \in Nat \ {0}, NEW c \in Nat, NEW d \in Nat \ {0},
         NEW e \in Nat, NEW f \in Nat \ {0}, a * d <= c * b, c * f <= e * d
  PROVE  a * f <= e * b
<1>1. (a * d) * f <= (c * b) * f
  <2>1. PICK x \in Nat : c * b = a * d + x
    <3>1. c * b - a * d \in Nat /\ c * b = a * d + (c * b - a * d)
      OBVIOUS
    <3>. QED
      BY <3>1
  <2>2. (c * b) * f = (a * d) * f + x * f /\ x * f \in Nat
    BY <2>1
  <2>. QED
    BY <2>2
<1>2. (c * f) * b <= (e * d) * b
  <2>1. PICK x \in Nat : e * d = c * f + x
    <3>1. e * d - c * f \in Nat /\ e * d = c * f + (e * d - c * f)
      OBVIOUS
    <3>. QED
      BY <3>1
  <2>2. (e * d) * b = (c * f) * b + x * b /\ x * b \in Nat
    BY <2>1
  <2>. QED
    BY <2>2
<1>3. (c * b) * f = (c * f) * b
  OBVIOUS
<1>4. (a * d) * f = (a * f) * d /\ (e * d) * b = (e * b) * d
  OBVIOUS
<1>5. PICK m \in Nat : m = a * f
  OBVIOUS
<1>6. PICK n \in Nat : n = e * b
  OBVIOUS
<1>7. m * d <= n * d
  BY <1>1, <1>2, <1>3, <1>4, <1>5, <1>6
<1>8. m <= n
  <2>. SUFFICES ASSUME n < m
                PROVE  FALSE
    OBVIOUS
  <2>1. PICK x \in Nat : m = n + 1 + x
    <3>1. m - n - 1 \in Nat /\ m = n + 1 + (m - n - 1)
      OBVIOUS
    <3>. QED
      BY <3>1
  <2>2. m * d = n * d + d + x * d /\ x * d \in Nat /\ n * d \in Nat
    BY <2>1
  <2>. QED
    BY <1>7, <2>2
<1>. QED
  BY <1>5, <1>6, <1>8

LEMMA RatiosOrdered ==
  ASSUME NEW x \in Ratios, NEW y \in Ratios, NEW z \in Ratios
  PROVE  /\ ~SmallerRatio(x, x)
         /\ SmallerRatio(x, y) => ~SmallerRatio(y, x)
         /\ ~SmallerRatio(y, x) /\ ~SmallerRatio(z, y) => ~SmallerRatio(z, x)
         /\ SmallerRatio(y, x) <=> ~(x[1] * y[2] <= y[1] * x[2])
<1>1. /\ x[1] \in Nat /\ x[2] \in Nat \ {0} /\ y[1] \in Nat /\ y[2] \in Nat \ {0}
      /\ z[1] \in Nat /\ z[2] \in Nat \ {0}
  BY DEF Ratios
<1>2. /\ x[1] * y[2] \in Nat /\ y[1] * x[2] \in Nat /\ x[1] * z[2] \in Nat
      /\ z[1] * x[2] \in Nat /\ y[1] * z[2] \in Nat /\ z[1] * y[2] \in Nat
      /\ x[1] * x[2] \in Nat
  BY <1>1
<1>3. x[1] * y[2] <= y[1] * x[2] /\ y[1] * z[2] <= z[1] * y[2] => x[1] * z[2] <= z[1] * x[2]
  <2>. SUFFICES ASSUME x[1] * y[2] <= y[1] * x[2], y[1] * z[2] <= z[1] * y[2]
                PROVE  x[1] * z[2] <= z[1] * x[2]
    OBVIOUS
  <2>1. ASSUME NEW a \in Nat, NEW b \in Nat \ {0}, NEW c \in Nat, NEW d \in Nat \ {0},
               NEW e \in Nat, NEW f \in Nat \ {0},
               a = x[1], b = x[2], c = y[1], d = y[2], e = z[1], f = z[2]
        PROVE  a * f <= e * b
    <3>1. a * d <= c * b /\ c * f <= e * d
      BY <2>1
    <3>. QED
      BY <3>1, RatioTransitive
  <2>. QED
    BY <1>1, <2>1
<1>. QED
  BY <1>2, <1>3 DEF SmallerRatio

\* What two ratios of one bound say of the values, and each of another.
Bounds(need) == {p \in Properties : need[p] \notin {None, 0}}

LEMMA NeedTypes ==
  ASSUME NEW need \in Requirements
  PROVE  /\ None \notin Nat
         /\ \A p \in Bounds(need) : p \in Properties /\ need[p] \in Nat \ {0}
BY MaterialsAssumption DEF Bounds

LEMMA RecordTypes ==
  ASSUME NEW library \in MaterialLibraries
  PROVE  /\ Len(library) \in Nat /\ DOMAIN library = 1 .. Len(library)
         /\ \A i \in DOMAIN library : library[i] \in Range(library)
         /\ \A r \in Range(library) : \E i \in DOMAIN library : r = library[i]
         /\ \A r \in Range(library) :
              r.rank \in Nat /\ \A p \in Properties : r[p] \in Nat \cup {None}
         /\ \A i, j \in DOMAIN library : library[i].rank = library[j].rank => i = j
<1>1. library \in Seq(Range(library))
  BY MaterialsAssumption
<1>2. Len(library) \in Nat /\ DOMAIN library = 1 .. Len(library)
  BY <1>1, LenProperties
<1>. QED
  BY <1>2, MaterialsAssumption DEF Range

\* The margin is the tightest of the ratios, if there is any.
LEMMA MarginTightest ==
  ASSUME NEW need \in Requirements, NEW r,
         \A p \in Properties : r[p] \in Nat \cup {None}, Meets(r, need)
  PROVE  /\ Bounds(need) = {} => Margin(r, need) = None
         /\ Bounds(need) # {} =>
              /\ Margin(r, need) # None /\ Margin(r, need) \in Ratios
              /\ \E q \in Bounds(need) : Margin(r, need) = <<r[q], need[q]>>
              /\ \A p \in Bounds(need) : ~SmallerRatio(<<r[p], need[p]>>, Margin(r, need))
<1>. DEFINE B == Bounds(need)
            ratio(p) == <<r[p], need[p]>>
            least(S, p) == p \in S /\ \A q \in S : ~SmallerRatio(ratio(q), ratio(p))
            ratios == {ratio(p) : p \in B}
<1>1. \A p \in B : p \in Properties /\ ratio(p) \in Ratios /\ r[p] # None
  <2>. SUFFICES ASSUME NEW p \in B
                PROVE  p \in Properties /\ ratio(p) \in Ratios /\ r[p] # None
    OBVIOUS
  <2>1. p \in Properties /\ need[p] \in Nat \ {0} /\ need[p] # None
    BY NeedTypes
  <2>2. r[p] # None /\ r[p] \in Nat
    BY <2>1 DEF Meets
  <2>. QED
    BY <2>1, <2>2 DEF Ratios
<1>2. {<<r[p], need[p]>> : p \in {q \in Properties : need[q] \notin {None, 0} /\ r[q] # None}}
        = ratios
  <2>1. {q \in Properties : need[q] \notin {None, 0} /\ r[q] # None} = B
    BY <1>1 DEF Bounds
  <2>. QED
    BY <2>1
<1>3. Margin(r, need) = IF ratios = {} THEN None
        ELSE CHOOSE x \in ratios : \A y \in ratios : ~SmallerRatio(y, x)
  <2>1. Margin(r, need)
          = LET all == {<<r[p], need[p]>> :
                          p \in {q \in Properties : need[q] \notin {None, 0} /\ r[q] # None}}
            IN  IF all = {} THEN None
                ELSE CHOOSE x \in all : \A y \in all : ~SmallerRatio(y, x)
    BY Zenon DEF Margin
  <2>. HIDE DEF ratios
  <2>. QED
    BY <1>2, <2>1
<1>. HIDE DEF ratio
<1>4. ASSUME NEW S \in SUBSET B, NEW p \in B, S = {} \/ \E m \in S : least(S, m)
      PROVE  \E m \in S \cup {p} : least(S \cup {p}, m)
  <2>0. ~SmallerRatio(ratio(p), ratio(p))
    BY <1>1, RatiosOrdered
  <2>1. CASE S = {}
    BY <2>0, <2>1
  <2>2. CASE S # {}
    <3>1. PICK m \in S : least(S, m)
      BY <1>4, <2>2
    <3>2. CASE SmallerRatio(ratio(p), ratio(m))
      <4>1. \A q \in S : ~SmallerRatio(ratio(q), ratio(p))
        <5>. SUFFICES ASSUME NEW q \in S
                      PROVE  ~SmallerRatio(ratio(q), ratio(p))
          OBVIOUS
        <5>1. ratio(p) \in Ratios /\ ratio(m) \in Ratios /\ ratio(q) \in Ratios
          BY <1>1
        <5>2. ~SmallerRatio(ratio(q), ratio(m)) /\ ~SmallerRatio(ratio(m), ratio(p))
          BY <3>1, <3>2, <5>1, RatiosOrdered
        <5>. QED
          BY <5>1, <5>2, RatiosOrdered
      <4>. QED
        BY <2>0, <4>1
    <3>3. CASE ~SmallerRatio(ratio(p), ratio(m))
      BY <3>1, <3>3
    <3>. QED
      BY <3>2, <3>3
  <2>. QED
    BY <2>1, <2>2
<1>5. B # {} => \E m \in B : least(B, m)
  <2>1. PICK S1 : S1 = B \cap {"rp02"}
    OBVIOUS
  <2>2. PICK S2 : S2 = B \cap {"rp02", "rm"}
    OBVIOUS
  <2>3. B = B \cap {"rp02", "rm", "elastic"}
    BY <1>1 DEF Properties
  <2>. HIDE DEF B, least
  <2>4. S1 = {} \/ \E m \in S1 : least(S1, m)
    <3>1. CASE "rp02" \in B
      <4>1. {} \cup {"rp02"} = S1 /\ {} \in SUBSET B
        BY <2>1, <3>1
      <4>2. \E m \in {} \cup {"rp02"} : least({} \cup {"rp02"}, m)
        BY <1>4, <3>1
      <4>. QED
        BY <4>1, <4>2
    <3>. QED
      BY <2>1, <3>1
  <2>5. S2 = {} \/ \E m \in S2 : least(S2, m)
    <3>1. CASE "rm" \in B
      <4>1. S1 \cup {"rm"} = S2 /\ S1 \in SUBSET B
        BY <2>1, <2>2, <3>1
      <4>. QED
        BY <1>4, <2>4, <3>1, <4>1
    <3>2. CASE "rm" \notin B
      <4>1. S2 = S1
        BY <2>1, <2>2, <3>2
      <4>. QED
        BY <2>4, <4>1
    <3>. QED
      BY <3>1, <3>2
  <2>6. CASE "elastic" \in B
    <3>1. S2 \cup {"elastic"} = B /\ S2 \in SUBSET B
      BY <2>2, <2>3, <2>6
    <3>. QED
      BY <1>4, <2>5, <2>6, <3>1
  <2>7. CASE "elastic" \notin B
    <3>1. S2 = B
      BY <2>2, <2>3, <2>7
    <3>. QED
      BY <2>5, <3>1
  <2>. QED
    BY <2>6, <2>7
<1>6. CASE B = {}
  BY <1>3, <1>6
<1>7. CASE B # {}
  <2>1. PICK m \in B : least(B, m)
    BY <1>5, <1>7
  <2>2. ratio(m) \in ratios /\ \A y \in ratios : ~SmallerRatio(y, ratio(m))
    BY <2>1
  <2>3. Margin(r, need) \in ratios /\ \A y \in ratios : ~SmallerRatio(y, Margin(r, need))
    <3>1. Margin(r, need) = CHOOSE x \in ratios : \A y \in ratios : ~SmallerRatio(y, x)
      BY <1>3, <2>2
    <3>. HIDE DEF ratios
    <3>. QED
      BY <2>2, <3>1
  <2>4. PICK q \in B : Margin(r, need) = ratio(q)
    BY <2>3
  <2>5. \A p \in B : ~SmallerRatio(ratio(p), Margin(r, need))
    BY <2>3
  <2>6. Ratios \subseteq Nat \X Nat
    BY DEF Ratios
  <2>7. None \notin Ratios
    BY <2>6, MaterialsAssumption
  <2>. QED
    BY <1>1, <1>7, <2>4, <2>5, <2>7 DEF ratio
<1>. QED
  BY <1>6, <1>7

(* The ranking. *)

\* A strict order on the positions that lists each of them once.
LEMMA OneListing ==
  ASSUME NEW S, IsFiniteSet(S), NEW R,
         \A i \in S : <<i, i>> \notin R,
         \A i, j, k \in S : <<i, j>> \in R /\ <<j, k>> \in R => <<i, k>> \in R,
         \A i, j \in S : i = j \/ <<i, j>> \in R \/ <<j, i>> \in R,
         NEW list, list = InOrder(S, R)
  PROVE  /\ \E n \in Nat : DOMAIN list = 1 .. n /\ (n = 0 <=> S = {})
         /\ \A k \in S : \E n \in DOMAIN list : list[n] = k
         /\ \A n \in DOMAIN list : list[n] \in S
         /\ \A m, n \in DOMAIN list : list[m] = list[n] => m = n
         /\ \A m, n \in DOMAIN list : m < n => <<list[m], list[n]>> \in R
<1>1. /\ list \in Seq(S) /\ Len(list) = Cardinality(S)
      /\ DOMAIN list = 1 .. Cardinality(S) /\ Cardinality(S) \in Nat
      /\ \A k \in S : \E n \in DOMAIN list : list[n] = k
      /\ \A m, n \in DOMAIN list : m < n => <<list[m], list[n]>> \in R
  BY InOrderLists
<1>2. Cardinality(S) = 0 <=> S = {}
  BY FS_EmptySet
<1>3. \A n \in DOMAIN list : list[n] \in S
  BY <1>1, ElementOfSeq
<1>4. \A m, n \in DOMAIN list : list[m] = list[n] => m = n
  <2>. SUFFICES ASSUME NEW m \in DOMAIN list, NEW n \in DOMAIN list, list[m] = list[n], m # n
                PROVE  FALSE
    OBVIOUS
  <2>1. m < n \/ n < m
    BY <1>1
  <2>2. <<list[m], list[m]>> \in R
    BY <1>1, <2>1
  <2>. QED
    BY <1>3, <2>2
<1>. QED
  BY <1>1, <1>2, <1>3, <1>4

\* Of matching records the ranking by margin and id is a strict total order.
LEMMA RanksOrder ==
  ASSUME NEW library \in MaterialLibraries, NEW need \in Requirements, Bounds(need) # {},
         NEW i \in Matching(library, need), NEW j \in Matching(library, need),
         NEW k \in Matching(library, need)
  PROVE  /\ ~RanksBefore(library[i], library[i], need)
         /\ RanksBefore(library[i], library[j], need) /\ RanksBefore(library[j], library[k], need)
              => RanksBefore(library[i], library[k], need)
         /\ i = j \/ RanksBefore(library[i], library[j], need)
              \/ RanksBefore(library[j], library[i], need)
         /\ RanksBefore(library[i], library[j], need)
              => ~SmallerRatio(Margin(library[i], need), Margin(library[j], need))
<1>1. \A m \in Matching(library, need) :
        /\ m \in DOMAIN library /\ Meets(library[m], need)
        /\ library[m].rank \in Nat
        /\ \A p \in Properties : library[m][p] \in Nat \cup {None}
  BY RecordTypes DEF Matching
<1>2. \A m \in Matching(library, need) : Margin(library[m], need) \in Ratios
  BY <1>1, MarginTightest
<1>3. PICK x \in Ratios : x = Margin(library[i], need)
  BY <1>2
<1>4. PICK y \in Ratios : y = Margin(library[j], need)
  BY <1>2
<1>5. PICK z \in Ratios : z = Margin(library[k], need)
  BY <1>2
<1>6. /\ library[i].rank \in Nat /\ library[j].rank \in Nat /\ library[k].rank \in Nat
      /\ library[i].rank = library[j].rank => i = j
  BY <1>1, RecordTypes
<1>7. /\ RanksBefore(library[i], library[i], need)
           <=> SmallerRatio(x, x) \/ (~SmallerRatio(x, x) /\ library[i].rank < library[i].rank)
      /\ RanksBefore(library[i], library[j], need)
           <=> SmallerRatio(y, x) \/ (~SmallerRatio(x, y) /\ library[i].rank < library[j].rank)
      /\ RanksBefore(library[j], library[i], need)
           <=> SmallerRatio(x, y) \/ (~SmallerRatio(y, x) /\ library[j].rank < library[i].rank)
      /\ RanksBefore(library[j], library[k], need)
           <=> SmallerRatio(z, y) \/ (~SmallerRatio(y, z) /\ library[j].rank < library[k].rank)
      /\ RanksBefore(library[i], library[k], need)
           <=> SmallerRatio(z, x) \/ (~SmallerRatio(x, z) /\ library[i].rank < library[k].rank)
  BY <1>3, <1>4, <1>5 DEF RanksBefore
<1>8. /\ ~SmallerRatio(x, x)
      /\ SmallerRatio(x, y) => ~SmallerRatio(y, x)
      /\ SmallerRatio(y, z) => ~SmallerRatio(z, y)
      /\ ~SmallerRatio(x, y) /\ ~SmallerRatio(y, z) => ~SmallerRatio(x, z)
      /\ ~SmallerRatio(z, x) /\ ~SmallerRatio(x, y) => ~SmallerRatio(z, y)
      /\ ~SmallerRatio(y, z) /\ ~SmallerRatio(z, x) => ~SmallerRatio(y, x)
  BY RatiosOrdered
<1>. QED
  BY <1>3, <1>4, <1>6, <1>7, <1>8

\* The places of the candidates: each match once, and in the order of the
\* ranking where there is a bound to rank by.
LEMMA RankedListing ==
  ASSUME NEW library \in MaterialLibraries, NEW need \in Requirements,
         NEW list, list = RankedPlaces(library, need)
  PROVE  /\ \E n \in Nat : DOMAIN list = 1 .. n /\ (n = 0 <=> Matching(library, need) = {})
         /\ \A k \in Matching(library, need) : \E n \in DOMAIN list : list[n] = k
         /\ \A n \in DOMAIN list : list[n] \in Matching(library, need)
         /\ \A m, n \in DOMAIN list : list[m] = list[n] => m = n
         /\ Bounds(need) # {} =>
              \A m, n \in DOMAIN list : m < n =>
                RanksBefore(library[list[m]], library[list[n]], need)
<1>1. PICK found : found = Matching(library, need)
  OBVIOUS
<1>2. found \subseteq DOMAIN library /\ DOMAIN library = 1 .. Len(library) /\ Len(library) \in Nat
  BY <1>1, RecordTypes DEF Matching
<1>3. IsFiniteSet(found)
  <2>1. IsFiniteSet(1 .. Len(library))
    BY <1>2, FS_Interval
  <2>. QED
    BY <1>2, <2>1, FS_Subset
<1>4. list = IF \E i \in found : Margin(library[i], need) # None
               THEN ByRank(library, found, need) ELSE Ascending(found)
  BY <1>1 DEF RankedPlaces
<1>5. \A i \in found : Margin(library[i], need) # None <=> Bounds(need) # {}
  <2>. SUFFICES ASSUME NEW i \in found
                PROVE  Margin(library[i], need) # None <=> Bounds(need) # {}
    OBVIOUS
  <2>1. Meets(library[i], need) /\ \A p \in Properties : library[i][p] \in Nat \cup {None}
    BY <1>1, RecordTypes DEF Matching
  <2>. QED
    BY <2>1, MarginTightest
<1>6. CASE (\E i \in found : Margin(library[i], need) # None)
  <2>1. PICK R : R = {p \in found \X found : RanksBefore(library[p[1]], library[p[2]], need)}
    OBVIOUS
  <2>2. list = InOrder(found, R)
    BY <1>4, <1>6, <2>1 DEF ByRank
  <2>3. Bounds(need) # {}
    BY <1>5, <1>6
  <2>4. \A i, j \in found : <<i, j>> \in R <=> RanksBefore(library[i], library[j], need)
    BY <2>1
  <2>5. /\ \A i \in found : <<i, i>> \notin R
        /\ \A i, j, k \in found : <<i, j>> \in R /\ <<j, k>> \in R => <<i, k>> \in R
        /\ \A i, j \in found : i = j \/ <<i, j>> \in R \/ <<j, i>> \in R
    BY <1>1, <2>3, <2>4, RanksOrder
  <2>6. /\ \E n \in Nat : DOMAIN list = 1 .. n /\ (n = 0 <=> found = {})
        /\ \A k \in found : \E n \in DOMAIN list : list[n] = k
        /\ \A n \in DOMAIN list : list[n] \in found
        /\ \A m, n \in DOMAIN list : list[m] = list[n] => m = n
        /\ \A m, n \in DOMAIN list : m < n => <<list[m], list[n]>> \in R
    BY <1>3, <2>2, <2>5, OneListing
  <2>. QED
    BY <1>1, <2>4, <2>6
<1>7. CASE ~(\E i \in found : Margin(library[i], need) # None)
  <2>1. PICK R : R = {p \in found \X found : p[1] < p[2]}
    OBVIOUS
  <2>2. list = InOrder(found, R)
    BY <1>4, <1>7, <2>1 DEF Ascending
  <2>3. \A i, j \in found : <<i, j>> \in R <=> i < j
    BY <2>1
  <2>4. \A i \in found : i \in Int
    BY <1>2
  <2>5. /\ \A i \in found : <<i, i>> \notin R
        /\ \A i, j, k \in found : <<i, j>> \in R /\ <<j, k>> \in R => <<i, k>> \in R
        /\ \A i, j \in found : i = j \/ <<i, j>> \in R \/ <<j, i>> \in R
    BY <2>3, <2>4
  <2>6. /\ \E n \in Nat : DOMAIN list = 1 .. n /\ (n = 0 <=> found = {})
        /\ \A k \in found : \E n \in DOMAIN list : list[n] = k
        /\ \A n \in DOMAIN list : list[n] \in found
        /\ \A m, n \in DOMAIN list : list[m] = list[n] => m = n
    BY <1>3, <2>2, <2>5, OneListing
  <2>7. Bounds(need) # {} => found = {}
    BY <1>5, <1>7
  <2>. QED
    BY <1>1, <2>6, <2>7
<1>. QED
  BY <1>6, <1>7

LEMMA AnswerOfMaterials ==
  ASSUME MaterialsInv, NEW t \in Threads, At(t, "materials_answered")
  PROVE  /\ calls[t].library \in MaterialLibraries /\ calls[t].need \in Requirements
         /\ calls[t].answer = Recommend(calls[t].library, calls[t].need)
<1>1. PICK library \in MaterialLibraries, need \in Requirements :
        calls[t] = MaterialsAnswer(library, need)
  BY MaterialsAnswers
<1>. QED
  BY <1>1 DEF MaterialsAnswer

LEMMA RecommendFields ==
  ASSUME NEW library, NEW need
  PROVE  /\ Recommend(library, need).candidates = Ranked(library, need)
         /\ Recommend(library, need).level = ReadinessLevel(library)
         /\ "no_candidates" \in Recommend(library, need).reasons
              <=> Matching(library, need) = {}
BY DEF Recommend

LEMMA CandidatesCompleteHolds ==
  MaterialsInv => CandidatesComplete
<1>. SUFFICES ASSUME MaterialsInv, NEW t \in Threads, At(t, "materials_answered")
              PROVE  LET call == calls[t] IN
                       /\ Range(call.answer.candidates)
                            = {r \in Range(call.library) : Meets(r, call.need)}
                       /\ IsInjective(call.answer.candidates)
                       /\ call.answer.candidates = <<>> <=> "no_candidates" \in call.answer.reasons
  BY DEF CandidatesComplete
<1>1. PICK library \in MaterialLibraries : library = calls[t].library
  BY AnswerOfMaterials
<1>2. PICK need \in Requirements : need = calls[t].need
  BY AnswerOfMaterials
<1>3. PICK list : list = RankedPlaces(library, need)
  OBVIOUS
<1>4. PICK candidates : candidates = [n \in DOMAIN list |-> library[list[n]]]
  OBVIOUS
<1>5. /\ calls[t].answer.candidates = candidates
      /\ "no_candidates" \in calls[t].answer.reasons <=> Matching(library, need) = {}
  BY <1>1, <1>2, <1>3, <1>4, AnswerOfMaterials, RecommendFields DEF Ranked
<1>6. /\ \E n \in Nat : DOMAIN list = 1 .. n /\ (n = 0 <=> Matching(library, need) = {})
      /\ \A k \in Matching(library, need) : \E n \in DOMAIN list : list[n] = k
      /\ \A n \in DOMAIN list : list[n] \in Matching(library, need)
      /\ \A m, n \in DOMAIN list : list[m] = list[n] => m = n
  BY <1>3, RankedListing
<1>7. /\ \A i \in DOMAIN library : library[i] \in Range(library)
      /\ \A r \in Range(library) : \E i \in DOMAIN library : r = library[i]
      /\ \A i, j \in DOMAIN library : library[i].rank = library[j].rank => i = j
  BY RecordTypes
<1>8. Range(candidates) = {r \in Range(library) : Meets(r, need)}
  <2>1. ASSUME NEW r \in Range(candidates)
        PROVE  r \in Range(library) /\ Meets(r, need)
    <3>1. PICK n \in DOMAIN list : r = library[list[n]]
      BY <1>4 DEF Range
    <3>. QED
      BY <1>6, <1>7, <3>1 DEF Matching
  <2>2. ASSUME NEW r \in Range(library), Meets(r, need)
        PROVE  r \in Range(candidates)
    <3>1. PICK i \in DOMAIN library : r = library[i]
      BY <1>7
    <3>2. i \in Matching(library, need)
      BY <2>2, <3>1 DEF Matching
    <3>3. PICK n \in DOMAIN list : list[n] = i
      BY <1>6, <3>2
    <3>. QED
      BY <1>4, <3>1, <3>3 DEF Range
  <2>. QED
    BY <2>1, <2>2
<1>9. IsInjective(candidates)
  <2>. SUFFICES ASSUME NEW m \in DOMAIN list, NEW n \in DOMAIN list,
                       library[list[m]] = library[list[n]]
                PROVE  m = n
    BY <1>4 DEF IsInjective
  <2>1. list[m] \in DOMAIN library /\ list[n] \in DOMAIN library
    BY <1>6 DEF Matching
  <2>. QED
    BY <1>6, <1>7, <2>1
<1>10. candidates = <<>> <=> Matching(library, need) = {}
  <2>1. PICK n \in Nat : DOMAIN list = 1 .. n /\ (n = 0 <=> Matching(library, need) = {})
    BY <1>6
  <2>2. DOMAIN candidates = 1 .. n
    BY <1>4, <2>1
  <2>3. n # 0 => candidates # <<>>
    BY <2>2
  <2>4. n = 0 => candidates = <<>>
    BY <1>4, <2>1, <2>2
  <2>. QED
    BY <2>1, <2>3, <2>4
<1>. QED
  BY <1>1, <1>2, <1>5, <1>8, <1>9, <1>10

LEMMA WidestMarginFirstHolds ==
  MaterialsInv => WidestMarginFirst
<1>. SUFFICES ASSUME MaterialsInv, NEW t \in Threads, At(t, "materials_answered")
              PROVE  LET list == calls[t].answer.candidates
                         bounds == {p \in Properties : calls[t].need[p] \notin {None, 0}}
                     IN  \A i, j \in DOMAIN list : i < j =>
                           \A p \in bounds : \E q \in bounds :
                             list[i][p] * calls[t].need[q] >= list[j][q] * calls[t].need[p]
  BY DEF WidestMarginFirst
<1>1. PICK library \in MaterialLibraries : library = calls[t].library
  BY AnswerOfMaterials
<1>2. PICK need \in Requirements : need = calls[t].need
  BY AnswerOfMaterials
<1>3. PICK list : list = RankedPlaces(library, need)
  OBVIOUS
<1>4. PICK candidates : candidates = [n \in DOMAIN list |-> library[list[n]]]
  OBVIOUS
<1>5. calls[t].answer.candidates = candidates
  BY <1>1, <1>2, <1>3, <1>4, AnswerOfMaterials, RecommendFields DEF Ranked
<1>6. ASSUME NEW i \in DOMAIN list, NEW j \in DOMAIN list, i < j, NEW p \in Bounds(need)
      PROVE  \E q \in Bounds(need) :
               library[list[i]][p] * need[q] >= library[list[j]][q] * need[p]
  <2>1. /\ list[i] \in Matching(library, need) /\ list[j] \in Matching(library, need)
        /\ RanksBefore(library[list[i]], library[list[j]], need)
    BY <1>3, <1>6, RankedListing
  <2>2. PICK a : a = library[list[i]]
    OBVIOUS
  <2>3. PICK b : b = library[list[j]]
    OBVIOUS
  <2>4. /\ Meets(a, need) /\ \A q \in Properties : a[q] \in Nat \cup {None}
        /\ Meets(b, need) /\ \A q \in Properties : b[q] \in Nat \cup {None}
    BY <2>1, <2>2, <2>3, RecordTypes DEF Matching
  <2>5. ~SmallerRatio(Margin(a, need), Margin(b, need))
    BY <1>6, <2>1, <2>2, <2>3, RanksOrder
  <2>6. Margin(a, need) \in Ratios /\ ~SmallerRatio(<<a[p], need[p]>>, Margin(a, need))
    BY <1>6, <2>4, MarginTightest
  <2>7. Margin(b, need) \in Ratios
    BY <1>6, <2>4, MarginTightest
  <2>8. PICK q \in Bounds(need) : Margin(b, need) = <<b[q], need[q]>>
    BY <1>6, <2>4, MarginTightest
  <2>9. /\ a[p] \in Nat /\ need[p] \in Nat \ {0} /\ b[q] \in Nat /\ need[q] \in Nat \ {0}
        /\ <<a[p], need[p]>> \in Ratios
    <3>1. p \in Properties /\ q \in Properties /\ need[p] \in Nat \ {0} /\ need[q] \in Nat \ {0}
          /\ need[p] # None /\ need[q] # None
      BY NeedTypes
    <3>2. a[p] # None /\ b[q] # None
      BY <2>4, <3>1 DEF Meets
    <3>. QED
      BY <2>4, <3>1, <3>2 DEF Ratios
  <2>10. ~SmallerRatio(<<a[p], need[p]>>, <<b[q], need[q]>>)
    BY <2>5, <2>6, <2>7, <2>8, <2>9, RatiosOrdered
  <2>11. a[p] * need[q] >= b[q] * need[p]
    <3>1. ~(a[p] * need[q] < b[q] * need[p])
      BY <2>10 DEF SmallerRatio
    <3>2. a[p] * need[q] \in Nat /\ b[q] * need[p] \in Nat
      BY <2>9
    <3>. QED
      BY <3>1, <3>2
  <2>. QED
    BY <2>2, <2>3, <2>11
<1>. QED
  BY <1>2, <1>4, <1>5, <1>6 DEF Bounds

(* Levels and comparisons. *)

LEMMA UnlocksFields ==
  /\ DOMAIN Unlocks = 1 .. 4
  /\ "engineering_recommendation" \notin Unlocks[1] /\ "engineering_recommendation" \notin Unlocks[2]
  /\ "engineering_recommendation" \in Unlocks[3]
  /\ "production_approval" \notin Unlocks[1] /\ "production_approval" \notin Unlocks[2]
  /\ "production_approval" \notin Unlocks[3] /\ "production_approval" \in Unlocks[4]
BY DEF Unlocks

LEMMA UnlockedBelow ==
  ASSUME NEW level \in {1, 2, 3}, NEW c
  PROVE  c \in UNION {Unlocks[k] : k \in 1 .. level} <=> \E k \in {1, 2, 3} : k <= level /\ c \in Unlocks[k]
<1>1. \A k : k \in 1 .. level <=> k \in {1, 2, 3} /\ k <= level
  OBVIOUS
<1>. QED
  BY <1>1

LEMMA MaterialsNeverOverclaimHolds ==
  MaterialsInv => MaterialsNeverOverclaim
<1>. SUFFICES ASSUME MaterialsInv, NEW t \in Threads, At(t, "materials_answered")
              PROVE  LET answer == calls[t].answer IN
                       /\ "production_approval" \in answer.blocked
                       /\ "engineering_recommendation" \in answer.capabilities =>
                            /\ \E r \in Range(calls[t].library) : r.validation # "reference_only"
                            /\ \E r \in Range(calls[t].library) : r.approval # "pending"
                       /\ "engineering_recommendation" \in answer.blocked =>
                            answer.missing /\ "approval_pending" \in answer.reasons
  BY DEF MaterialsNeverOverclaim
<1>1. PICK library : library = calls[t].library
  OBVIOUS
<1>2. PICK need : need = calls[t].need
  OBVIOUS
<1>3. PICK level : level = ReadinessLevel(library)
  OBVIOUS
<1>4. PICK unlocked : unlocked = UNION {Unlocks[k] : k \in 1 .. level}
  OBVIOUS
<1>5. PICK answer : answer = Recommend(library, need)
  OBVIOUS
<1>6. calls[t].answer = answer
  BY <1>1, <1>2, <1>5, AnswerOfMaterials
<1>7. /\ answer.capabilities = unlocked
      /\ answer.blocked = (UNION Range(Unlocks)) \ unlocked
      /\ level < 3 => answer.missing /\ "approval_pending" \in answer.reasons
  BY <1>3, <1>4, <1>5 DEF Recommend
<1>8. level \in {1, 2, 3}
  BY <1>3 DEF ReadinessLevel
<1>9. level = 3 => /\ \E r \in Range(library) : r.validation # "reference_only"
                   /\ \E r \in Range(library) : r.approval # "pending"
  BY <1>3 DEF ReadinessLevel
<1>10. /\ "production_approval" \notin unlocked
       /\ "engineering_recommendation" \in unlocked <=> level = 3
  <2>1. \A c : c \in unlocked <=> \E k \in {1, 2, 3} : k <= level /\ c \in Unlocks[k]
    BY <1>4, <1>8, UnlockedBelow
  <2>. QED
    BY <1>8, <2>1, UnlocksFields
<1>11. "production_approval" \in UNION Range(Unlocks)
  <2>1. 4 \in DOMAIN Unlocks /\ "production_approval" \in Unlocks[4]
    BY UnlocksFields
  <2>. HIDE DEF Unlocks
  <2>. QED
    BY <2>1 DEF Range
<1>12. "production_approval" \in answer.blocked
  BY <1>7, <1>10, <1>11
<1>13. ASSUME "engineering_recommendation" \in answer.blocked
       PROVE  answer.missing /\ "approval_pending" \in answer.reasons
  <2>1. level < 3
    BY <1>7, <1>8, <1>10, <1>13
  <2>. QED
    BY <1>7, <2>1
<1>14. "engineering_recommendation" \in answer.capabilities => level = 3
  BY <1>7, <1>10
<1>. QED
  BY <1>1, <1>6, <1>9, <1>12, <1>13, <1>14

LEMMA ComparisonMatchesFilterHolds ==
  MaterialsInv => ComparisonMatchesFilter
<1>. SUFFICES ASSUME MaterialsInv, NEW t \in Threads, At(t, "materials_compared"),
                     \A p \in Properties : calls[t].answer[p] \in {"a_higher", "equal"},
                     NEW need \in Requirements,
                     Meets(calls[t].b, [need EXCEPT !.family = None])
              PROVE  Meets(calls[t].a, [need EXCEPT !.family = None])
  BY DEF ComparisonMatchesFilter
<1>1. PICK library \in MaterialLibraries : \E x, y \in Range(library) :
        calls[t] = MaterialsCompared(library, x, y)
  BY MaterialsAnswers
<1>2. PICK a \in Range(library), b \in Range(library) :
        calls[t] = MaterialsCompared(library, a, b)
  BY <1>1
<1>3. /\ calls[t].a = a /\ calls[t].b = b
      /\ \A p \in Properties : calls[t].answer[p] = ValueRelation(a[p], b[p])
  BY <1>2 DEF MaterialsCompared
<1>4. /\ \A p \in Properties : a[p] \in Nat \cup {None} /\ b[p] \in Nat \cup {None}
      /\ \A p \in Properties : need[p] \in Nat \cup {None}
      /\ need = [f \in Properties \cup {"family"} |-> need[f]]
  BY RecordTypes, MaterialsAssumption
<1>5. PICK bound : bound = [need EXCEPT !.family = None]
  OBVIOUS
<1>6. bound.family = None /\ \A p \in Properties : bound[p] = need[p]
  BY <1>4, <1>5 DEF Properties
<1>7. Meets(b, bound)
  BY <1>3, <1>5
<1>8. ASSUME NEW p \in Properties, bound[p] # None
      PROVE  a[p] # None /\ a[p] >= bound[p]
  <2>1. ValueRelation(a[p], b[p]) \in {"a_higher", "equal"}
    BY <1>3
  <2>2. a[p] # None /\ b[p] # None /\ a[p] \in Nat /\ b[p] \in Nat /\ a[p] >= b[p]
    <3>1. None \notin {a[p], b[p]}
      BY <2>1 DEF ValueRelation
    <3>2. a[p] \in Nat /\ b[p] \in Nat
      BY <1>4, <3>1
    <3>3. ~(a[p] < b[p])
      BY <2>1, <3>1, <3>2 DEF ValueRelation
    <3>. QED
      BY <3>1, <3>2, <3>3
  <2>3. bound[p] \in Nat /\ b[p] >= bound[p]
    BY <1>4, <1>6, <1>7, <1>8 DEF Meets
  <2>. QED
    BY <2>2, <2>3
<1>9. Meets(a, bound)
  BY <1>6, <1>8 DEF Meets
<1>. QED
  BY <1>3, <1>5, <1>9

LEMMA MaterialsInvTypes ==
  MaterialsInv => MaterialsTypeOK
<1>. SUFFICES ASSUME MaterialsInv, NEW t \in Threads
              PROVE  \/ calls[t] = Idle
                     \/ /\ At(t, "materials_answered")
                        /\ calls[t].need \in Requirements
                        /\ calls[t].answer.level \in DOMAIN Levels
                        /\ calls[t].answer.candidates \in Seq(Range(calls[t].library))
                     \/ /\ At(t, "materials_compared")
                        /\ {calls[t].a, calls[t].b} \subseteq Range(calls[t].library)
  BY DEF MaterialsTypeOK
<1>1. ASSUME NEW library \in MaterialLibraries, NEW need \in Requirements,
             calls[t] = MaterialsAnswer(library, need)
      PROVE  /\ At(t, "materials_answered") /\ calls[t].need \in Requirements
             /\ calls[t].answer.level \in DOMAIN Levels
             /\ calls[t].answer.candidates \in Seq(Range(calls[t].library))
  <2>1. /\ calls[t].at = "materials_answered" /\ calls[t].library = library
        /\ calls[t].need = need /\ calls[t].answer = Recommend(library, need)
    BY <1>1 DEF MaterialsAnswer
  <2>2. PICK list : list = RankedPlaces(library, need)
    OBVIOUS
  <2>3. /\ calls[t].answer.level = ReadinessLevel(library)
        /\ calls[t].answer.candidates = [n \in DOMAIN list |-> library[list[n]]]
    BY <2>1, <2>2, RecommendFields DEF Ranked
  <2>4. /\ \E n \in Nat : DOMAIN list = 1 .. n
        /\ \A n \in DOMAIN list : list[n] \in Matching(library, need)
    BY <2>2, RankedListing
  <2>5. \A n \in DOMAIN list : library[list[n]] \in Range(library)
    BY <2>4, RecordTypes DEF Matching
  <2>6. calls[t].answer.candidates \in Seq(Range(library))
    <3>1. PICK n \in Nat : DOMAIN list = 1 .. n
      BY <2>4
    <3>2. [m \in DOMAIN list |-> library[list[m]]] \in [1 .. n -> Range(library)]
      BY <2>5, <3>1
    <3>. QED
      BY <2>3, <3>2, SeqDef
  <2>7. ReadinessLevel(library) \in DOMAIN Levels
    BY DEF ReadinessLevel, Levels
  <2>. QED
    BY <2>1, <2>3, <2>6, <2>7 DEF At
<1>2. ASSUME NEW library, NEW a \in Range(library), NEW b \in Range(library),
             calls[t] = MaterialsCompared(library, a, b)
      PROVE  At(t, "materials_compared") /\ {calls[t].a, calls[t].b} \subseteq Range(calls[t].library)
  BY <1>2 DEF MaterialsCompared, At
<1>3. Recommended(calls[t])
  BY DEF MaterialsInv
<1>. QED
  BY <1>1, <1>2, <1>3 DEF Recommended

\* Every call of MaterialsSpec has its type (material_intelligence.py).
THEOREM MaterialsTypeCorrect == MaterialsSpec => []MaterialsTypeOK
<1>1. MaterialsSpec => []MaterialsInv
  BY MaterialsInductive, PTL DEF MaterialsSpec
<1>. QED
  BY <1>1, MaterialsInvTypes, PTL

\* A recommendation leaves out no match, ranks by the margin it reports and
\* says no more than validation and approval allow (recommend_materials).
THEOREM RecommendationsAreSound == MaterialsSpec => []MaterialsSound
<1>1. MaterialsSpec => []MaterialsInv
  BY MaterialsInductive, PTL DEF MaterialsSpec
<1>2. MaterialsInv => MaterialsSound
  BY CandidatesCompleteHolds, WidestMarginFirstHolds, MaterialsNeverOverclaimHolds,
     ComparisonMatchesFilterHolds DEF MaterialsSound
<1>. QED
  BY <1>1, <1>2, PTL

(* ---- The checks over the data files. ---- *)

AuditAnswer(d) == [at |-> "audit_answered", data |-> d, answer |-> Audit(d)]

StatisticsAnswer(d) == [at |-> "statistics_answered", data |-> d, answer |-> Structure(d)]

ClassAnswer(file, r, diameter, manual) ==
  [at |-> "class_answered", file |-> file, report |-> BoltClassReport(file),
   designation |-> r.designation,
   found |-> ListClasses(file, r.standard, r.designation, diameter),
   manual |-> manual, answer |-> ResolveStrength(file, r.designation, manual)]

LedgerAnswer(ledger) ==
  [at |-> "ledger_answered", ledger |-> ledger,
   report |-> LedgerReport(ledger.records, ledger.washers)]

Diameters == {1000, 1600, 2000}

Checked(c) ==
  \/ c = Idle
  \/ \E d \in DataSets : c = AuditAnswer(d) \/ c = StatisticsAnswer(d)
  \/ \E file \in ClassFiles :
       /\ Comparable(file)
       /\ \E k \in DOMAIN file, diameter \in Diameters, manual \in {<< >>, [ratio |-> 7]} :
            c = ClassAnswer(file, file[k], diameter, manual)
  \/ \E ledger \in Ledgers : c = LedgerAnswer(ledger)

ChecksInv ==
  /\ calls = [t \in Threads |-> calls[t]]
  /\ \A t \in Threads : Checked(calls[t])

LEMMA ChecksInductive ==
  /\ InitCalls => ChecksInv
  /\ ChecksInv /\ [ChecksNext]_calls => ChecksInv'
<1>1. ASSUME InitCalls
      PROVE  ChecksInv
  BY <1>1 DEF InitCalls, ChecksInv, Checked
<1>2. ASSUME ChecksInv, UNCHANGED calls
      PROVE  ChecksInv'
  <2>1. ASSUME NEW t \in Threads
        PROVE  Checked(calls'[t])
    BY <1>2 DEF ChecksInv
  <2>. QED
    BY <1>2, <2>1 DEF ChecksInv, Checked
<1>3. ASSUME ChecksInv, NEW t \in Threads, NEW call, Goto(t, call), Checked(call)
      PROVE  ChecksInv'
  <2>1. /\ calls' = [u \in Threads |-> calls'[u]]
        /\ \A u \in Threads : calls'[u] = IF u = t THEN call ELSE calls[u]
    BY <1>3, GotoCalls DEF ChecksInv
  <2>2. \A u \in Threads : Checked(calls'[u])
    BY <1>3, <2>1 DEF ChecksInv
  <2>. QED
    BY <2>1, <2>2 DEF ChecksInv, Checked
<1>4. ASSUME ChecksInv, NEW t \in Threads, AskAudit(t)
      PROVE  ChecksInv'
  <2>1. PICK d \in DataSets : Goto(t, AuditAnswer(d))
    BY <1>4 DEF AskAudit, AuditAnswer
  <2>. QED
    BY <1>3, <1>4, <2>1 DEF Checked
<1>5. ASSUME ChecksInv, NEW t \in Threads, AskStatistics(t)
      PROVE  ChecksInv'
  <2>1. PICK d \in DataSets : Goto(t, StatisticsAnswer(d))
    BY <1>5 DEF AskStatistics, StatisticsAnswer
  <2>. QED
    BY <1>3, <1>5, <2>1 DEF Checked
<1>6. ASSUME ChecksInv, NEW t \in Threads, AskClass(t)
      PROVE  ChecksInv'
  <2>1. PICK file \in ClassFiles :
          /\ Comparable(file)
          /\ \E k \in DOMAIN file, diameter \in Diameters, manual \in {<< >>, [ratio |-> 7]} :
               Goto(t, ClassAnswer(file, file[k], diameter, manual))
    BY <1>6 DEF AskClass, ClassAnswer, Diameters
  <2>2. PICK k \in DOMAIN file, diameter \in Diameters, manual \in {<< >>, [ratio |-> 7]} :
          Goto(t, ClassAnswer(file, file[k], diameter, manual))
    BY <2>1
  <2>3. Checked(ClassAnswer(file, file[k], diameter, manual))
    BY <2>1 DEF Checked
  <2>. QED
    BY <1>3, <1>6, <2>2, <2>3
<1>7. ASSUME ChecksInv, NEW t \in Threads, AskLedger(t)
      PROVE  ChecksInv'
  <2>1. PICK ledger \in Ledgers : Goto(t, LedgerAnswer(ledger))
    BY <1>7 DEF AskLedger, LedgerAnswer
  <2>. QED
    BY <1>3, <1>7, <2>1 DEF Checked
<1>8. ASSUME ChecksInv, NEW t \in Threads, Leave(t)
      PROVE  ChecksInv'
  BY <1>3, <1>8 DEF Leave, Finish, Checked
<1>. QED
  BY <1>1, <1>2, <1>4, <1>5, <1>6, <1>7, <1>8 DEF ChecksNext, CheckStep

LEMMA ChecksAnswers ==
  ASSUME ChecksInv
  PROVE  /\ \A call \in Audits : \E d \in DataSets : call = AuditAnswer(d)
         /\ \A call \in Answered("statistics_answered") :
              \E d \in DataSets : call = StatisticsAnswer(d)
         /\ \A call \in Answered("class_answered") :
              \E file \in ClassFiles :
                /\ Comparable(file)
                /\ \E k \in DOMAIN file, diameter \in Diameters,
                      manual \in {<< >>, [ratio |-> 7]} :
                     call = ClassAnswer(file, file[k], diameter, manual)
         /\ \A call \in Answered("ledger_answered") :
              \E ledger \in Ledgers : call = LedgerAnswer(ledger)
<1>1. ASSUME NEW step, NEW call \in Answered(step)
      PROVE  Checked(call) /\ call.at = step
  BY <1>1 DEF Answered, At, ChecksInv
<1>2. /\ Idle.at = "idle"
      /\ \A d : AuditAnswer(d).at = "audit_answered"
      /\ \A d : StatisticsAnswer(d).at = "statistics_answered"
      /\ \A file, r, n, m : ClassAnswer(file, r, n, m).at = "class_answered"
      /\ \A ledger : LedgerAnswer(ledger).at = "ledger_answered"
  BY DEF Idle, AuditAnswer, StatisticsAnswer, ClassAnswer, LedgerAnswer
<1>3. ASSUME NEW call \in Audits
      PROVE  \E d \in DataSets : call = AuditAnswer(d)
  <2>1. Checked(call) /\ call.at = "audit_answered"
    BY <1>1 DEF Audits
  <2>. QED
    BY <1>2, <2>1 DEF Checked
<1>4. ASSUME NEW call \in Answered("statistics_answered")
      PROVE  \E d \in DataSets : call = StatisticsAnswer(d)
  <2>1. Checked(call) /\ call.at = "statistics_answered"
    BY <1>1
  <2>. QED
    BY <1>2, <2>1 DEF Checked
<1>5. ASSUME NEW call \in Answered("class_answered")
      PROVE  \E file \in ClassFiles :
               /\ Comparable(file)
               /\ \E k \in DOMAIN file, diameter \in Diameters,
                     manual \in {<< >>, [ratio |-> 7]} :
                    call = ClassAnswer(file, file[k], diameter, manual)
  <2>1. Checked(call) /\ call.at = "class_answered"
    BY <1>1
  <2>. QED
    BY <1>2, <2>1 DEF Checked
<1>6. ASSUME NEW call \in Answered("ledger_answered")
      PROVE  \E ledger \in Ledgers : call = LedgerAnswer(ledger)
  <2>1. Checked(call) /\ call.at = "ledger_answered"
    BY <1>1
  <2>. QED
    BY <1>2, <2>1 DEF Checked
<1>. QED
  BY <1>3, <1>4, <1>5, <1>6

(* What a clean report says. *)

LEMMA AuditFields ==
  ASSUME NEW d
  PROVE  /\ AuditAnswer(d).data = d
         /\ AuditAnswer(d).answer.integrity = IntegrityReport(d)
         /\ \A lib \in Libraries :
              /\ AuditAnswer(d).answer.domain[lib] = DomainReport(d, lib)
              /\ AuditAnswer(d).answer.provenance[lib]
                   = [i \in DOMAIN d[lib] |-> Provenance(d[lib][i])]
BY DEF AuditAnswer, Audit

LEMMA DomainReports ==
  ASSUME NEW d
  PROVE  /\ DomainReport(d, "threads") = ThreadReport(d.threads)
         /\ DomainReport(d, "bolts") = BoltReport(d.bolts)
         /\ DomainReport(d, "nuts") = NutReport(d.nuts)
         /\ DomainReport(d, "conditions") = ConditionReport(d.conditions)
         /\ DomainReport(d, "washers") = WasherReport(d.washers)
         /\ DomainReport(d, "hardware") = HardwareReport(d.hardware)
<1>1. DomainReport(d, "threads") = ThreadReport(d.threads)
  BY Zenon DEF DomainReport
<1>2. DomainReport(d, "bolts") = BoltReport(d.bolts)
  BY Zenon DEF DomainReport
<1>3. DomainReport(d, "nuts") = NutReport(d.nuts)
  BY Zenon DEF DomainReport
<1>4. DomainReport(d, "conditions") = ConditionReport(d.conditions)
  BY Zenon DEF DomainReport
<1>5. DomainReport(d, "washers") = WasherReport(d.washers)
  BY Zenon DEF DomainReport
<1>6. DomainReport(d, "hardware") = HardwareReport(d.hardware)
  BY Zenon DEF DomainReport
<1>. QED
  BY <1>1, <1>2, <1>3, <1>4, <1>5, <1>6

LEMMA LibraryNames ==
  \A lib \in {"threads", "bolts", "nuts", "washers", "hardware", "conditions"} :
    lib \in Libraries
BY DEF Libraries

\* What an audit of a data set says.
LEMMA AuditsOf ==
  ASSUME ChecksInv, NEW call \in Audits
  PROVE  \E d \in DataSets :
           /\ call.data = d
           /\ call.answer.integrity = IntegrityReport(d)
           /\ call.answer.domain.threads = ThreadReport(d.threads)
           /\ call.answer.domain.bolts = BoltReport(d.bolts)
           /\ call.answer.domain.nuts = NutReport(d.nuts)
           /\ call.answer.domain.conditions = ConditionReport(d.conditions)
           /\ call.answer.domain.washers = WasherReport(d.washers)
           /\ call.answer.domain.hardware = HardwareReport(d.hardware)
           /\ \A lib \in Libraries :
                call.answer.provenance[lib] = [i \in DOMAIN d[lib] |-> Provenance(d[lib][i])]
<1>1. PICK d \in DataSets : call = AuditAnswer(d)
  BY ChecksAnswers
<1>2. /\ call.data = d
      /\ call.answer.integrity = IntegrityReport(d)
      /\ \A lib \in Libraries :
           /\ call.answer.domain[lib] = DomainReport(d, lib)
           /\ call.answer.provenance[lib] = [i \in DOMAIN d[lib] |-> Provenance(d[lib][i])]
  BY <1>1, AuditFields
<1>3. /\ call.answer.domain.threads = DomainReport(d, "threads")
      /\ call.answer.domain.bolts = DomainReport(d, "bolts")
      /\ call.answer.domain.nuts = DomainReport(d, "nuts")
      /\ call.answer.domain.conditions = DomainReport(d, "conditions")
      /\ call.answer.domain.washers = DomainReport(d, "washers")
      /\ call.answer.domain.hardware = DomainReport(d, "hardware")
  BY <1>2, LibraryNames
<1>. QED
  BY <1>2, <1>3, DomainReports

\* The checks a joined report takes over are clean when it is.
LEMMA JoinedClean ==
  ASSUME NEW a, NEW b, Clean(Joined(a, b))
  PROVE  /\ Clean(a)
         /\ \A c \in DOMAIN b \ DOMAIN a : b[c] = {}
<1>1. DOMAIN Joined(a, b) = DOMAIN a \cup DOMAIN b
  BY DEF Joined
<1>2. \A c \in DOMAIN a \cup DOMAIN b :
        Joined(a, b)[c] = IF c \in DOMAIN a THEN a[c] ELSE b[c]
  BY DEF Joined
<1>. QED
  BY <1>1, <1>2 DEF Clean

(* Bolts and nuts. *)

LEMMA CleanPart ==
  ASSUME NEW records, Clean(PartReport(records)), NEW i \in DOMAIN records
  PROVE  /\ ~PitchDisagrees(records[i])
         /\ records[i].pitch # Null
<1>1. PartReport(records).pitch_designation = {} /\ PartReport(records).pitch = {}
  <2>1. {"pitch_designation", "pitch"} \subseteq DOMAIN PartReport(records)
    BY DEF PartReport
  <2>. QED
    BY <2>1 DEF Clean
<1>2. Flagged(records, PitchDisagrees) = {}
  BY <1>1 DEF PartReport
<1>3. Flagged(records, LAMBDA r : Pitch(r) # None /\ ~Positive(Pitch(r))) = {}
  BY <1>1 DEF PartReport
<1>4. ~PitchDisagrees(records[i])
  BY <1>2 DEF Flagged
<1>5. ~(Pitch(records[i]) # None /\ ~Positive(Pitch(records[i])))
  BY <1>3 DEF Flagged
<1>6. ASSUME records[i].pitch = Null
      PROVE  FALSE
  <2>1. Null # None
    BY ChecksAssumption
  <2>2. Pitch(records[i]) = Null
    BY <1>6, <2>1 DEF Pitch
  <2>. QED
    BY <1>5, <2>1, <2>2 DEF Positive, Missing
<1>. QED
  BY <1>4, <1>6

LEMMA PartsPair ==
  ASSUME ChecksInv
  PROVE  CleanPartsPair
<1>1. SUFFICES ASSUME NEW d \in DataSets,
                      Clean(BoltReport(d.bolts)), Clean(NutReport(d.nuts)),
                      NEW i \in DOMAIN d.bolts, NEW j \in DOMAIN d.nuts,
                      d.bolts[i].thread = d.nuts[j].thread, ~Missing(d.bolts[i].thread),
                      ImpliedPitch(d.bolts[i].thread) # None
               PROVE  ~Mismatch(d.bolts[i].pitch, d.nuts[j].pitch)
  <2>1. SUFFICES ASSUME NEW call \in Audits,
                        Clean(call.answer.domain.bolts), Clean(call.answer.domain.nuts),
                        NEW i \in DOMAIN call.data.bolts, NEW j \in DOMAIN call.data.nuts,
                        call.data.bolts[i].thread = call.data.nuts[j].thread,
                        ~Missing(call.data.bolts[i].thread),
                        ImpliedPitch(call.data.bolts[i].thread) # None
                 PROVE  ~Mismatch(call.data.bolts[i].pitch, call.data.nuts[j].pitch)
    BY DEF CleanPartsPair
  <2>2. PICK d \in DataSets :
          /\ call.data = d
          /\ call.answer.domain.bolts = BoltReport(d.bolts)
          /\ call.answer.domain.nuts = NutReport(d.nuts)
    BY AuditsOf
  <2>. QED
    BY <1>1, <2>1, <2>2
<1>2. Clean(PartReport(d.bolts)) /\ Clean(PartReport(d.nuts))
  BY <1>1, JoinedClean DEF BoltReport, NutReport
<1>3. /\ ~PitchDisagrees(d.bolts[i]) /\ d.bolts[i].pitch # Null
      /\ ~PitchDisagrees(d.nuts[j]) /\ d.nuts[j].pitch # Null
  BY <1>2, CleanPart
<1>. QED
  BY <1>1, <1>3 DEF PitchDisagrees, Mismatch, Missing

(* Threads. *)

LEMMA ThreadsServe ==
  ASSUME ChecksInv
  PROVE  CleanThreadsServe
<1>1. SUFFICES ASSUME NEW d \in DataSets, Clean(ThreadReport(d.threads)),
                      IntegrityReport(d).dangling_thread_references = {},
                      \A i \in DOMAIN d.threads : IsMetric(d.threads[i]),
                      NEW i \in DOMAIN d.bolts, ~Missing(d.bolts[i].thread)
               PROVE  Engine(d)!CheckThread([thread |-> d.bolts[i].thread,
                                             diameter |-> d.bolts[i].thread[1]])
                        = "compatible"
  <2>1. SUFFICES ASSUME NEW call \in Audits,
                        Clean(call.answer.domain.threads),
                        call.answer.integrity.dangling_thread_references = {},
                        \A i \in DOMAIN call.data.threads : IsMetric(call.data.threads[i]),
                        NEW i \in DOMAIN call.data.bolts, ~Missing(call.data.bolts[i].thread)
                 PROVE  Engine(call.data)!CheckThread(
                          [thread |-> call.data.bolts[i].thread,
                           diameter |-> call.data.bolts[i].thread[1]]) = "compatible"
    BY DEF CleanThreadsServe
  <2>2. PICK d \in DataSets :
          /\ call.data = d
          /\ call.answer.integrity = IntegrityReport(d)
          /\ call.answer.domain.threads = ThreadReport(d.threads)
    BY AuditsOf
  <2>. QED
    BY <1>1, <2>1, <2>2
<1>2. ThreadReport(d.threads).designation_diameter = {}
  <2>1. "designation_diameter" \in DOMAIN ThreadReport(d.threads)
    BY DEF ThreadReport
  <2>. QED
    BY <1>1, <2>1 DEF Clean
<1>3. Flagged(d.threads, LAMBDA r :
        IsMetric(r) /\ (Missing(r.designation) \/ r.designation[1] # r.nominal)) = {}
  BY <1>2 DEF ThreadReport
<1>4. \A k \in DOMAIN d.threads : d.threads[k].designation[1] = d.threads[k].nominal
  BY <1>1, <1>3 DEF Flagged
<1>5. d.bolts[i].thread \in {d.threads[k].designation : k \in DOMAIN d.threads}
  BY <1>1 DEF IntegrityReport, Flagged
<1>6. PICK k \in DOMAIN d.threads : d.bolts[i].thread = d.threads[k].designation
  BY <1>5
<1>. DEFINE in == [thread |-> d.bolts[i].thread, diameter |-> d.bolts[i].thread[1]]
            q == [designation |-> d.threads[k].designation, diameter |-> d.threads[k].nominal]
<1>7. q \in EngineThreads(d.threads)
  BY DEF EngineThreads
<1>8. q.designation = in.thread /\ in.diameter = q.diameter /\ in.thread # None
  BY <1>1, <1>4, <1>6 DEF Missing
<1>. HIDE DEF in, q
<1>9. Engine(d)!CheckThread(in) = "compatible"
  BY <1>7, <1>8 DEF Engine!CheckThread, Engine!Verdict
<1>. QED
  BY <1>9 DEF in

(* Friction conditions. *)

LEMMA MissingOrNumber ==
  /\ \A v \in Ends : ~Missing(v) => v \in Int
  /\ None \notin Ends \X Ends
BY ChecksAssumption DEF Ends, Missing

\* What the report of conditions says when it is clean.
LEMMA CleanCondition ==
  ASSUME NEW records, Clean(ConditionReport(records)), NEW i \in DOMAIN records
  PROVE  /\ DuplicateIds(records) = {}
         /\ \A f \in RangeFields : /\ ~Above(records[i][f][1], records[i][f][2])
                                   /\ Missing(records[i][f][1]) = Missing(records[i][f][2])
         /\ Given(records[i].muThread) = Given(records[i].muBearing)
         /\ HasCoefficient(records[i]) => ~Missing(records[i].sourceReference)
<1>1. Clean(LubricationReport(records))
  BY JoinedClean DEF ConditionReport
<1>2. \A c \in {"duplicate_id", "min_max", "asymmetric", "one_sided", "missing_source"} :
        LubricationReport(records)[c] = {}
  <2>1. {"duplicate_id", "min_max", "asymmetric", "one_sided", "missing_source"}
          \subseteq DOMAIN LubricationReport(records)
    BY DEF LubricationReport
  <2>. QED
    BY <1>1, <2>1 DEF Clean
<1>3. DuplicateIds(records) = {}
  BY <1>2 DEF LubricationReport
<1>4. Flagged(records, LAMBDA r : \E f \in RangeFields : Above(r[f][1], r[f][2])) = {}
  BY <1>2 DEF LubricationReport
<1>5. Flagged(records, LAMBDA r :
        \E f \in RangeFields : Missing(r[f][1]) # Missing(r[f][2])) = {}
  BY <1>2 DEF LubricationReport
<1>6. Flagged(records, LAMBDA r : Given(r.muThread) # Given(r.muBearing)) = {}
  BY <1>2 DEF LubricationReport
<1>7. Flagged(records, LAMBDA r : HasCoefficient(r) /\ Missing(r.sourceReference)) = {}
  BY <1>2 DEF LubricationReport
<1>8. \A f \in RangeFields : ~Above(records[i][f][1], records[i][f][2])
  BY <1>4 DEF Flagged
<1>9. \A f \in RangeFields : Missing(records[i][f][1]) = Missing(records[i][f][2])
  BY <1>5 DEF Flagged
<1>10. Given(records[i].muThread) = Given(records[i].muBearing)
  BY <1>6 DEF Flagged
<1>11. HasCoefficient(records[i]) => ~Missing(records[i].sourceReference)
  BY <1>7 DEF Flagged
<1>. QED
  BY <1>3, <1>8, <1>9, <1>10, <1>11

\* The condition of the engine that a record of the file becomes.
EngineCondition(r) ==
  [id |-> r.id, coating |-> Reference(r.coating), lubricant |-> Reference(r.lubricant),
   overall |-> Complete(r.overall), muThread |-> Complete(r.muThread),
   muBearing |-> Complete(r.muBearing), kFactor |-> Complete(r.kFactor),
   sourced |-> ~Missing(r.sourceReference)]

LEMMA EngineConditionFields ==
  ASSUME NEW r
  PROVE  /\ EngineCondition(r).id = r.id
         /\ EngineCondition(r).coating = Reference(r.coating)
         /\ EngineCondition(r).lubricant = Reference(r.lubricant)
         /\ EngineCondition(r).overall = Complete(r.overall)
         /\ EngineCondition(r).muThread = Complete(r.muThread)
         /\ EngineCondition(r).muBearing = Complete(r.muBearing)
         /\ EngineCondition(r).sourced = ~Missing(r.sourceReference)
BY DEF EngineCondition

LEMMA EngineConditionsMembers ==
  ASSUME NEW records
  PROVE  /\ \A i \in DOMAIN records : EngineCondition(records[i]) \in EngineConditions(records)
         /\ \A q \in EngineConditions(records) :
              \E i \in DOMAIN records : q = EngineCondition(records[i])
<1>1. EngineConditions(records) = {EngineCondition(r) : r \in {records[i] : i \in DOMAIN records}}
  BY DEF EngineConditions, EngineCondition
<1>. QED
  BY <1>1

\* A record with an id of its own is the one the engine finds by it.
LEMMA FoundById ==
  ASSUME NEW d \in DataSets, DuplicateIds(d.conditions) = {},
         NEW i \in DOMAIN d.conditions, d.conditions[i].id # None
  PROVE  Engine(d)!FrictionRecord(d.conditions[i].id) = EngineCondition(d.conditions[i])
<1>. DEFINE records == d.conditions
            e == EngineCondition(records[i])
<1>1. DOMAIN records \subseteq Nat /\ \A a \in DOMAIN records, b \in Nat \ {0} :
        b < a => b \in 1..(a - 1)
  <2>1. records \in Seq(Range(records))
    BY ChecksAssumption DEF Libraries
  <2>. QED
    BY <2>1
<1>2. ASSUME NEW a \in DOMAIN records, NEW b \in DOMAIN records,
             records[a].id = records[b].id, records[a].id # None, b < a
      PROVE  FALSE
  <2>1. b \in 1..(a - 1)
    <3>1. records \in Seq(Range(records))
      BY ChecksAssumption DEF Libraries
    <3>. QED
      BY <1>2, <3>1
  <2>2. a \in DuplicateIds(records)
    BY <1>2, <2>1 DEF DuplicateIds, Repeats
  <2>. QED
    BY <2>2
<1>3. \A k \in DOMAIN records : records[k].id = records[i].id => k = i
  BY <1>1, <1>2
<1>4. e \in EngineConditions(records) /\ e.id = records[i].id
  BY EngineConditionsMembers, EngineConditionFields
<1>5. ASSUME NEW q \in EngineConditions(records), q.id = records[i].id
      PROVE  q = e
  <2>1. PICK k \in DOMAIN records : q = EngineCondition(records[k])
    BY EngineConditionsMembers
  <2>2. records[k].id = records[i].id
    BY <1>5, <2>1, EngineConditionFields
  <2>3. k = i
    BY <1>3, <2>2
  <2>. QED
    BY <2>1, <2>3
<1>. HIDE DEF e
<1>6. Engine(d)!FrictionRecord(records[i].id) = e
  BY <1>4, <1>5 DEF Engine!FrictionRecord
<1>. QED
  BY <1>6 DEF e

LEMMA ConditionsServe ==
  ASSUME ChecksInv
  PROVE  CleanConditionsServe
<1>1. SUFFICES ASSUME NEW d \in DataSets, Clean(ConditionReport(d.conditions)),
                      IntegrityReport(d).broken_friction_condition_references = {},
                      NEW i \in DOMAIN d.conditions,
                      d.conditions[i].id # None, HasCoefficient(d.conditions[i])
               PROVE  /\ Engine(d)!Resolvable(d.conditions[i].id)
                      /\ (Engine(d)!FrictionReadiness(d.conditions[i].id, TRUE, TRUE).mode
                             = "blocked"
                           <=> /\ ~Given(d.conditions[i].overall)
                               /\ ~Given(d.conditions[i].muThread)
                               /\ ~Given(d.conditions[i].muBearing))
                      /\ LET range == Engine(d)!FrictionRecord(d.conditions[i].id).overall IN
                           range # None => range[1] <= range[2]
  <2>1. SUFFICES ASSUME NEW call \in Audits, Clean(call.answer.domain.conditions),
                        call.answer.integrity.broken_friction_condition_references = {},
                        NEW i \in DOMAIN call.data.conditions,
                        call.data.conditions[i].id # None,
                        HasCoefficient(call.data.conditions[i])
                 PROVE  LET d == call.data
                            r == d.conditions[i]
                        IN  /\ Engine(d)!Resolvable(r.id)
                            /\ (Engine(d)!FrictionReadiness(r.id, TRUE, TRUE).mode = "blocked"
                                 <=> /\ ~Given(r.overall)
                                     /\ ~Given(r.muThread) /\ ~Given(r.muBearing))
                            /\ LET range == Engine(d)!FrictionRecord(r.id).overall IN
                                 range # None => range[1] <= range[2]
    BY DEF CleanConditionsServe
  <2>2. PICK d \in DataSets :
          /\ call.data = d
          /\ call.answer.integrity = IntegrityReport(d)
          /\ call.answer.domain.conditions = ConditionReport(d.conditions)
    BY AuditsOf
  <2>. QED
    BY <1>1, <2>1, <2>2
<1>. DEFINE records == d.conditions
            r == d.conditions[i]
            e == EngineCondition(d.conditions[i])
<1>2. /\ DuplicateIds(records) = {}
      /\ \A f \in RangeFields : /\ ~Above(r[f][1], r[f][2])
                                /\ Missing(r[f][1]) = Missing(r[f][2])
      /\ Given(r.muThread) = Given(r.muBearing)
      /\ ~Missing(r.sourceReference)
  BY <1>1, CleanCondition
<1>3. Engine(d)!FrictionRecord(r.id) = e
  BY <1>1, <1>2, FoundById
<1>4. \A f \in RangeFields : /\ r[f] # None
                             /\ r[f] \in Ends \X Ends
                             /\ Complete(r[f]) = IF Given(r[f]) THEN r[f] ELSE None
  <2>1. \A f \in RangeFields : r[f] \in Ends \X Ends
    BY ChecksAssumption
  <2>. QED
    BY <1>2, <2>1, MissingOrNumber DEF Complete, Given
<1>5. Engine(d)!Resolvable(r.id)
  <2>1. Dangling(records, Ids(d.coatings), Ids(d.lubrications)) = {}
    BY <1>1 DEF IntegrityReport
  <2>2. /\ Reference(r.coating) \in Ids(d.coatings) \cup {None}
        /\ Reference(r.lubricant) \in Ids(d.lubrications) \cup {None}
    BY <2>1 DEF Dangling, Flagged, Reference
  <2>3. /\ e \in EngineConditions(records) /\ e.id = r.id
        /\ e.coating \in Ids(d.coatings) \cup {None}
        /\ e.lubricant \in Ids(d.lubrications) \cup {None}
        /\ e.sourced
    BY <1>2, <2>2, EngineConditionsMembers, EngineConditionFields
  <2>. HIDE DEF e
  <2>. QED
    BY <2>3 DEF Engine!Resolvable
<1>6. /\ r["overall"] = r.overall /\ r["muThread"] = r.muThread /\ r["muBearing"] = r.muBearing
      /\ {"overall", "muThread", "muBearing"} \subseteq RangeFields
  BY DEF RangeFields
<1>7. /\ e.muThread = IF Given(r.muThread) THEN r.muThread ELSE None
      /\ e.muBearing = IF Given(r.muBearing) THEN r.muBearing ELSE None
      /\ e.overall = IF Given(r.overall) THEN r.overall ELSE None
      /\ None \notin {r.muThread, r.muBearing, r.overall}
  BY <1>4, <1>6, EngineConditionFields
<1>8. Engine(d)!FrictionReadiness(r.id, TRUE, TRUE).mode
        = IF e.muThread # None /\ e.muBearing # None THEN "separated"
          ELSE IF e.overall # None THEN "combined" ELSE "blocked"
  <2>. HIDE DEF e
  <2>. QED
    BY <1>3 DEF Engine!FrictionReadiness
<1>9. Engine(d)!FrictionReadiness(r.id, TRUE, TRUE).mode = "blocked"
        <=> ~Given(r.overall) /\ ~Given(r.muThread) /\ ~Given(r.muBearing)
  BY <1>2, <1>7, <1>8
<1>10. LET range == Engine(d)!FrictionRecord(r.id).overall IN
         range # None => range[1] <= range[2]
  <2>1. SUFFICES ASSUME Given(r.overall)
                 PROVE  r.overall[1] <= r.overall[2]
    BY <1>3, <1>7
  <2>2. /\ r.overall \in Ends \X Ends
        /\ ~Above(r.overall[1], r.overall[2])
        /\ Missing(r.overall[1]) = Missing(r.overall[2])
    BY <1>2, <1>4, <1>6
  <2>3. ~Missing(r.overall[1]) /\ ~Missing(r.overall[2])
    BY <2>1, <2>2 DEF Given
  <2>4. r.overall[1] \in Int /\ r.overall[2] \in Int
    BY <2>2, <2>3, MissingOrNumber
  <2>. QED
    BY <2>2, <2>3, <2>4 DEF Above
<1>. QED
  BY <1>5, <1>9, <1>10

(* Records and where they come from. *)

\* A check that finds nothing anywhere finds nothing in any library.
LEMMA NothingAnywhere ==
  ASSUME NEW found, UNION {{lib} \X found[lib] : lib \in Libraries} = {},
         NEW lib \in Libraries
  PROVE  found[lib] = {}
<1>1. ASSUME NEW i \in found[lib]
      PROVE  FALSE
  <2>1. <<lib, i>> \in {lib} \X found[lib]
    BY <1>1
  <2>2. <<lib, i>> \in UNION {{l} \X found[l] : l \in Libraries}
    BY <2>1
  <2>. QED
    BY <2>2
<1>. QED
  BY <1>1

LEMMA StatusesRight ==
  ASSUME NEW d, IntegrityReport(d).invalid_status_values = {},
         NEW lib \in Libraries, NEW i \in DOMAIN d[lib]
  PROVE  ~WrongStatus(d[lib][i])
<1>. DEFINE found == [l \in Libraries |-> Flagged(d[l], WrongStatus)]
<1>1. UNION {{l} \X found[l] : l \in Libraries} = {}
  <2>1. Everywhere(d, LAMBDA records : Flagged(records, WrongStatus)) = {}
    BY DEF IntegrityReport
  <2>2. UNION {{l} \X Flagged(d[l], WrongStatus) : l \in Libraries} = {}
    BY <2>1 DEF Everywhere
  <2>. QED
    BY <2>2
<1>2. found[lib] = {}
  <2>. HIDE DEF found
  <2>. QED
    BY <1>1, NothingAnywhere
<1>. QED
  BY <1>2 DEF Flagged

\* Where the report looks for sources, every record names one.
LEMMA SourcesNamed ==
  ASSUME NEW records,
         \/ Clean(BoltReport(records)) \/ Clean(NutReport(records))
         \/ Clean(WasherReport(records)) \/ Clean(HardwareReport(records)),
         NEW i \in DOMAIN records
  PROVE  ~(Missing(records[i].source) /\ Missing(records[i].standard))
<1>1. MissingSource(records) = {}
  <2>1. CASE Clean(PartReport(records))
    <3>1. "missing_source" \in DOMAIN PartReport(records)
      BY DEF PartReport
    <3>. QED
      BY <2>1, <3>1 DEF Clean, PartReport
  <2>2. CASE Clean(WasherReport(records))
    <3>1. "missing_source" \in DOMAIN WasherReport(records)
      BY DEF WasherReport
    <3>. QED
      BY <2>2, <3>1 DEF Clean, WasherReport
  <2>3. CASE Clean(HardwareReport(records))
    <3>1. "missing_source" \in DOMAIN HardwareReport(records)
      BY DEF HardwareReport
    <3>. QED
      BY <2>3, <3>1 DEF Clean, HardwareReport
  <2>4. Clean(BoltReport(records)) \/ Clean(NutReport(records)) => Clean(PartReport(records))
    BY JoinedClean DEF BoltReport, NutReport
  <2>. QED
    BY <2>1, <2>2, <2>3, <2>4
<1>. QED
  BY <1>1 DEF MissingSource, Flagged

LEMMA RecordsTraceable ==
  ASSUME ChecksInv
  PROVE  CleanRecordsTraceable
<1>1. SUFFICES ASSUME NEW call \in Audits,
                      call.answer.integrity.invalid_status_values = {},
                      NEW lib \in Libraries,
                      NEW i \in DOMAIN call.answer.provenance[lib]
               PROVE  LET origin == call.answer.provenance[lib] IN
                        /\ /\ lib \in {"bolts", "nuts", "washers", "hardware"}
                           /\ Clean(call.answer.domain[lib])
                           => origin[i] # "unknown_provenance"
                        /\ call.data[lib][i].approval = "approved"
                             => origin[i] \in {"verified_standard_data", "unknown_provenance"}
  BY DEF CleanRecordsTraceable
<1>2. PICK d \in DataSets :
        /\ call.data = d
        /\ call.answer.integrity = IntegrityReport(d)
        /\ call.answer.domain.bolts = BoltReport(d.bolts)
        /\ call.answer.domain.nuts = NutReport(d.nuts)
        /\ call.answer.domain.washers = WasherReport(d.washers)
        /\ call.answer.domain.hardware = HardwareReport(d.hardware)
        /\ \A l \in Libraries :
             call.answer.provenance[l] = [k \in DOMAIN d[l] |-> Provenance(d[l][k])]
  BY AuditsOf
<1>. DEFINE r == d[lib][i]
<1>3. i \in DOMAIN d[lib] /\ call.answer.provenance[lib][i] = Provenance(r)
  BY <1>1, <1>2
<1>4. ~WrongStatus(r)
  BY <1>1, <1>2, <1>3, StatusesRight
<1>5. ASSUME lib \in {"bolts", "nuts", "washers", "hardware"},
             Clean(call.answer.domain[lib])
      PROVE  Provenance(r) # "unknown_provenance"
  <2>1. \/ Clean(BoltReport(d[lib])) \/ Clean(NutReport(d[lib]))
        \/ Clean(WasherReport(d[lib])) \/ Clean(HardwareReport(d[lib]))
    BY <1>2, <1>5
  <2>2. ~(Missing(r.source) /\ Missing(r.standard))
    BY <1>3, <2>1, SourcesNamed
  <2>. QED
    BY <1>4, <2>2 DEF Provenance, WrongStatus
<1>6. ASSUME r.approval = "approved"
      PROVE  Provenance(r) \in {"verified_standard_data", "unknown_provenance"}
  BY <1>4, <1>6 DEF Provenance, WrongStatus
<1>. QED
  BY <1>2, <1>3, <1>5, <1>6

(* Ledgers. *)

LEMMA LegalMoves ==
  ASSUME NEW old, NEW new, W!Legal(old, new)
  PROVE  old \in Active
BY DEF W!Legal, W!AllowedTransitions, W!Active, Active

LEMMA LedgersStayClean ==
  ASSUME ChecksInv
  PROVE  CleanLedgersStayClean
<1>1. SUFFICES ASSUME NEW ledger \in Ledgers,
                      Clean(LedgerReport(ledger.records, ledger.washers)),
                      NEW i \in DOMAIN ledger.records, NEW new \in W!Statuses,
                      W!Legal(ledger.records[i].status, new)
               PROVE  DuplicateActive([ledger.records EXCEPT ![i].status = new]) = {}
  <2>1. SUFFICES ASSUME NEW call \in Answered("ledger_answered"), Clean(call.report),
                        NEW i \in DOMAIN call.ledger.records, NEW new \in W!Statuses,
                        W!Legal(call.ledger.records[i].status, new)
                 PROVE  DuplicateActive([call.ledger.records EXCEPT ![i].status = new]) = {}
    BY DEF CleanLedgersStayClean
  <2>2. PICK ledger \in Ledgers : call = LedgerAnswer(ledger)
    BY ChecksAnswers
  <2>3. /\ call.ledger = ledger
        /\ call.report = LedgerReport(ledger.records, ledger.washers)
    BY <2>2 DEF LedgerAnswer
  <2>. QED
    BY <1>1, <2>1, <2>3
<1>. DEFINE old == ledger.records
            now == [old EXCEPT ![i].status = new]
<1>2. DuplicateActive(old) = {}
  <2>1. "duplicate_active" \in DOMAIN LedgerReport(old, ledger.washers)
    BY DEF LedgerReport
  <2>. QED
    BY <1>1, <2>1 DEF Clean, LedgerReport
<1>3. old[i].status \in Active
  BY <1>1, LegalMoves
<1>4. {"washer", "issue", "status"} \subseteq DOMAIN old[i]
  BY ChecksAssumption
<1>5. /\ DOMAIN now = DOMAIN old
      /\ \A k \in DOMAIN old : /\ now[k].washer = old[k].washer
                               /\ now[k].issue = old[k].issue
                               /\ now[k].status \in Active => old[k].status \in Active
  <2>1. \A k \in DOMAIN old : now[k] = IF k = i THEN [old[i] EXCEPT !.status = new] ELSE old[k]
    OBVIOUS
  <2>2. /\ [old[i] EXCEPT !.status = new].washer = old[i].washer
        /\ [old[i] EXCEPT !.status = new].issue = old[i].issue
    BY <1>4
  <2>. QED
    BY <1>3, <2>1, <2>2
<1>6. old \in Seq(Range(old))
  BY ChecksAssumption
<1>. HIDE DEF now
<1>7. \A a \in DOMAIN old : \A b \in 1..(a - 1) : b \in DOMAIN old
  BY <1>6
<1>8. ASSUME NEW a \in DuplicateActive(now)
      PROVE  a \in DuplicateActive(old)
  <2>1. a \in DOMAIN old /\ now[a].status \in Active
    BY <1>5, <1>8 DEF DuplicateActive
  <2>2. PICK b \in 1..(a - 1) : /\ now[b].status \in Active
                                /\ now[b].washer = now[a].washer
                                /\ now[b].issue = now[a].issue
    BY <1>8 DEF DuplicateActive
  <2>3. b \in DOMAIN old
    BY <1>7, <2>1
  <2>4. /\ old[a].status \in Active /\ old[b].status \in Active
        /\ old[b].washer = old[a].washer /\ old[b].issue = old[a].issue
    BY <1>5, <2>1, <2>2, <2>3
  <2>. QED
    BY <2>1, <2>4 DEF DuplicateActive
<1>9. DuplicateActive(now) = {}
  BY <1>2, <1>8
<1>. QED
  BY <1>9 DEF now

(* Statistics. *)

LEMMA RulesKnown ==
  ASSUME NEW rules, BrokenCompatibility(rules) = {}, NEW i \in DOMAIN rules
  PROVE  /\ rules[i].bolt \in DOMAIN RecordMinimum
         /\ rules[i].nut \in DOMAIN NutNumeral
<1>1. rules[i].bolt \in KnownBoltClasses /\ rules[i].nut \in KnownNutClasses
  BY DEF BrokenCompatibility, Flagged
<1>2. DOMAIN NutNumeral = NutClasses \cup {"05"}
  BY DEF NutNumeral
<1>3. KnownNutClasses \subseteq NutClasses \cup {"05"}
  BY DEF KnownNutClasses, NutClasses
<1>. QED
  BY <1>1, <1>2, <1>3 DEF KnownBoltClasses

LEMMA StatisticsFollow ==
  ASSUME ChecksInv
  PROVE  StatisticsAgree
<1>1. SUFFICES ASSUME NEW d \in DataSets
               PROVE  /\ Structure(d).broken_compatibility = {} =>
                           \A i \in DOMAIN d.rules :
                             /\ d.rules[i].bolt \in DOMAIN RecordMinimum
                             /\ d.rules[i].nut \in DOMAIN NutNumeral
                      /\ IntegrityReport(d).duplicate_ids = {}
                           => Structure(d).duplicate_id = {}
  <2>1. ASSUME NEW call \in Answered("statistics_answered")
        PROVE  \E d \in DataSets : call.data = d /\ call.answer = Structure(d)
    BY <2>1, ChecksAnswers DEF StatisticsAnswer
  <2>. QED
    BY <1>1, <2>1 DEF StatisticsAgree
<1>2. ASSUME Structure(d).broken_compatibility = {}
      PROVE  \A i \in DOMAIN d.rules : /\ d.rules[i].bolt \in DOMAIN RecordMinimum
                                       /\ d.rules[i].nut \in DOMAIN NutNumeral
  <2>1. BrokenCompatibility(d.rules) = {}
    BY <1>2 DEF Structure
  <2>. QED
    BY <2>1, RulesKnown
<1>3. ASSUME IntegrityReport(d).duplicate_ids = {}
      PROVE  Structure(d).duplicate_id = {}
  <2>. DEFINE found == [l \in Libraries |-> Repeats(d[l], LAMBDA r : r.id)]
  <2>1. UNION {{l} \X found[l] : l \in Libraries} = {}
    <3>1. UNION {{l} \X Repeats(d[l], LAMBDA r : r.id) : l \in Libraries} = {}
      BY <1>3 DEF IntegrityReport, Everywhere
    <3>. QED
      BY <3>1
  <2>2. \A l \in Libraries : found[l] = {}
    <3>. HIDE DEF found
    <3>. QED
      BY <2>1, NothingAnywhere
  <2>3. \A l \in Libraries : DuplicateIds(d[l]) = {}
    BY <2>2 DEF DuplicateIds
  <2>4. UNION {{l} \X DuplicateIds(d[l]) : l \in Libraries} = {}
    BY <2>3
  <2>. QED
    BY <2>4 DEF Structure, Everywhere
<1>. QED
  BY <1>2, <1>3

(* Strength classes. *)

\* Two ranges that hold one diameter overlap.
LEMMA HoldingOverlap ==
  ASSUME NEW a \in Ends \X Ends, NEW b \in Ends \X Ends, NEW diameter \in Nat,
         \A e \in 1..2 : Null \notin {a[e], b[e]},
         \A r \in {a, b} : /\ ~Missing(r[1]) => diameter >= r[1]
                           /\ ~Missing(r[2]) => diameter <= r[2]
  PROVE  Overlap(a, b)
<1>1. ASSUME NEW r \in {a, b}
      PROVE  /\ r[1] # None => r[1] \in Int /\ diameter >= r[1]
             /\ r[2] # None => r[2] \in Int /\ diameter <= r[2]
  <2>1. r[1] \in Ends /\ r[2] \in Ends /\ r[1] # Null /\ r[2] # Null
    OBVIOUS
  <2>. QED
    BY <2>1, MissingOrNumber DEF Missing
<1>. QED
  BY <1>1 DEF Overlap

\* In a clean file one diameter finds at most one record of a class.
LEMMA OneClassFound ==
  ASSUME NEW file \in ClassFiles, Comparable(file), OverlappingClasses(file) = {},
         NEW standard, standard # None, NEW designation, designation # None,
         NEW diameter \in Nat, diameter # None,
         NEW i \in ListClasses(file, standard, designation, diameter),
         NEW j \in ListClasses(file, standard, designation, diameter), j < i
  PROVE  FALSE
<1>1. ASSUME NEW k \in ListClasses(file, standard, designation, diameter)
      PROVE  /\ k \in DOMAIN file
             /\ file[k].standard = standard /\ file[k].designation = designation
             /\ file[k].diameters \in Ends \X Ends
             /\ ~Missing(file[k].diameters[1]) => diameter >= file[k].diameters[1]
             /\ ~Missing(file[k].diameters[2]) => diameter <= file[k].diameters[2]
  <2>1. /\ k \in DOMAIN file
        /\ standard \in {None, file[k].standard}
        /\ designation \in {None, file[k].designation}
        /\ MatchesDiameter(file[k], diameter)
    BY <1>1 DEF ListClasses, Flagged
  <2>2. file[k].diameters \in Ends \X Ends
    BY <2>1, ChecksAssumption
  <2>. QED
    BY <2>1, <2>2 DEF MatchesDiameter
<1>2. j \in 1..(i - 1) /\ i # j
  <2>1. file \in Seq(Range(file)) /\ i \in DOMAIN file /\ j \in DOMAIN file
    BY <1>1, ChecksAssumption
  <2>. QED
    BY <2>1
<1>3. \A e \in 1..2 : Null \notin {file[i].diameters[e], file[j].diameters[e]}
  BY <1>1, <1>2 DEF Comparable
<1>. DEFINE a == file[i].diameters
            b == file[j].diameters
<1>4. Overlap(a, b)
  <2>1. /\ a \in Ends \X Ends /\ b \in Ends \X Ends
        /\ \A r \in {a, b} : /\ ~Missing(r[1]) => diameter >= r[1]
                             /\ ~Missing(r[2]) => diameter <= r[2]
    BY <1>1
  <2>2. \A e \in 1..2 : Null \notin {a[e], b[e]}
    BY <1>3
  <2>. HIDE DEF a, b
  <2>. QED
    BY <2>1, <2>2, HoldingOverlap
<1>5. i \in OverlappingClasses(file)
  BY <1>1, <1>2, <1>4 DEF OverlappingClasses
<1>. QED
  BY <1>5

\* The first record of a designation, where there is one.
LEMMA FirstOfClass ==
  ASSUME NEW file \in ClassFiles, NEW k \in DOMAIN file
  PROVE  \E i \in DOMAIN file : /\ GetClass(file, file[k].designation) = file[i]
                                /\ file[i].designation = file[k].designation
<1>. DEFINE found == Flagged(file, LAMBDA r : r.designation = file[k].designation)
<1>1. found = {i \in DOMAIN file : file[i].designation = file[k].designation}
  BY DEF Flagged
<1>2. k \in found /\ found \subseteq Nat
  <2>1. file \in Seq(Range(file))
    BY ChecksAssumption
  <2>2. DOMAIN file \subseteq Nat
    BY <2>1
  <2>. HIDE DEF found
  <2>. QED
    BY <1>1, <2>2
<1>3. Min(found) \in found
  BY <1>2, MinMember
<1>4. GetClass(file, file[k].designation) = file[Min(found)]
  BY <1>2 DEF GetClass
<1>. HIDE DEF found
<1>. QED
  BY <1>1, <1>3, <1>4

LEMMA CleanClass ==
  ASSUME NEW records, Clean(BoltClassReport(records))
  PROVE  /\ OverlappingClasses(records) = {}
         /\ \A i \in DOMAIN records :
              /\ ~Missing(records[i].designation)
              /\ records[i].standard = "ISO 898-1" =>
                   /\ Parses(records[i].designation)
                   /\ ~Contradicts(records[i].nominalTensile,
                                   NominalTensile(records[i].designation))
                   /\ ~Contradicts(records[i].ratio, YieldRatio(records[i].designation))
<1>. DEFINE Wrong(r) == r.standard = "ISO 898-1" /\
                          \/ ~Parses(r.designation)
                          \/ Contradicts(r.nominalTensile, NominalTensile(r.designation))
                          \/ Contradicts(r.ratio, YieldRatio(r.designation))
            more == [yield_tensile |->
                       Flagged(records, LAMBDA r : Above(r.minYield, r.minTensile)),
                     yield_ratio |->
                       Flagged(records, LAMBDA r : ~Missing(r.ratio) /\ r.ratio \notin 1..10),
                     iso898 |-> Flagged(records, Wrong)]
<1>1. BoltClassReport(records) = Joined(NutClassReport(records), more)
  BY DEF BoltClassReport
<1>2. /\ {"overlapping", "empty_designation"} \subseteq DOMAIN NutClassReport(records)
      /\ "iso898" \in DOMAIN more \ DOMAIN NutClassReport(records)
      /\ more.iso898 = Flagged(records, Wrong)
  BY DEF NutClassReport
<1>3. Clean(NutClassReport(records)) /\ more.iso898 = {}
  <2>1. Clean(Joined(NutClassReport(records), more))
    BY <1>1
  <2>. HIDE DEF more
  <2>. QED
    BY <1>2, <2>1, JoinedClean
<1>4. /\ OverlappingClasses(records) = {}
      /\ Flagged(records, LAMBDA r : Missing(r.designation)) = {}
  BY <1>2, <1>3 DEF NutClassReport, Clean
<1>5. \A i \in DOMAIN records : ~Missing(records[i].designation)
  BY <1>4 DEF Flagged
<1>6. \A i \in DOMAIN records : ~Wrong(records[i])
  BY <1>2, <1>3 DEF Flagged
<1>. QED
  BY <1>4, <1>5, <1>6

\* What follows from the designation is what a record that does not contradict
\* it says.
LEMMA DerivedOrRecorded ==
  ASSUME NEW file, NEW designation, NEW manual, Parses(designation),
         NEW f \in {"nominalTensile", "ratio"},
         GetClass(file, designation) # None =>
           /\ ~Contradicts(GetClass(file, designation).nominalTensile,
                           NominalTensile(designation))
           /\ ~Contradicts(GetClass(file, designation).ratio, YieldRatio(designation))
  PROVE  ResolveStrength(file, designation, manual)[f][1]
           = IF f \in DOMAIN manual THEN manual[f]
             ELSE IF f = "ratio" THEN YieldRatio(designation)
             ELSE NominalTensile(designation)
<1>. DEFINE record == GetClass(file, designation)
            n == NominalTensile(designation)
            q == YieldRatio(designation)
<1>1. Derived(designation) = [nominalTensile |-> n, ratio |-> q]
  BY DEF Derived
<1>2. /\ f \in DOMAIN Derived(designation)
      /\ Derived(designation)[f] = IF f = "ratio" THEN q ELSE n
  <2>. HIDE DEF n, q
  <2>. QED
    BY <1>1
<1>3. ResolveStrength(file, designation, manual)[f]
        = IF f \in DOMAIN manual THEN <<manual[f], "manual_override">>
          ELSE IF record # None /\ ~Missing(record[f]) THEN <<record[f], "library_record">>
          ELSE IF f \in DOMAIN Derived(designation)
            THEN <<Derived(designation)[f], "derived_from_strength_class">>
          ELSE <<None, None>>
  BY DEF ResolveStrength, ResolvableFields
<1>4. record # None /\ ~Missing(record[f]) => record[f] = IF f = "ratio" THEN q ELSE n
  BY DEF Contradicts
<1>. HIDE DEF record, n, q
<1>. QED
  BY <1>2, <1>3, <1>4 DEF n, q

LEMMA ClassesServe ==
  ASSUME ChecksInv
  PROVE  CleanClassesServe
<1>1. SUFFICES ASSUME NEW call \in Answered("class_answered")
               PROVE  /\ \A f \in DOMAIN call.manual :
                           call.answer[f] = <<call.manual[f], "manual_override">>
                      /\ Clean(call.report) =>
                           /\ Cardinality(call.found) <= 1
                           /\ GetClass(call.file, call.designation).standard = "ISO 898-1" =>
                                \A f \in {"nominalTensile", "ratio"} :
                                  call.answer[f][1]
                                    = ResolveStrength(<< >>, call.designation, call.manual)[f][1]
  BY DEF CleanClassesServe
<1>2. PICK file \in ClassFiles :
        /\ Comparable(file)
        /\ \E k \in DOMAIN file, diameter \in Diameters, manual \in {<< >>, [ratio |-> 7]} :
             call = ClassAnswer(file, file[k], diameter, manual)
  BY <1>1, ChecksAnswers
<1>3. PICK k \in DOMAIN file, diameter \in Diameters, manual \in {<< >>, [ratio |-> 7]} :
         call = ClassAnswer(file, file[k], diameter, manual)
  BY <1>2
<1>. DEFINE designation == file[k].designation
<1>4. /\ call.file = file /\ call.manual = manual
       /\ call.report = BoltClassReport(file) /\ call.designation = designation
       /\ call.found = ListClasses(file, file[k].standard, designation, diameter)
       /\ call.answer = ResolveStrength(file, designation, manual)
  BY <1>3 DEF ClassAnswer
<1>5. DOMAIN manual \subseteq {"ratio"}
  OBVIOUS
<1>6. \A f \in DOMAIN call.manual : call.answer[f] = <<call.manual[f], "manual_override">>
  <2>1. DOMAIN manual \subseteq ResolvableFields
    BY <1>5 DEF ResolvableFields
  <2>2. \A f \in DOMAIN manual :
          ResolveStrength(file, designation, manual)[f] = <<manual[f], "manual_override">>
    BY <2>1 DEF ResolveStrength
  <2>. QED
    BY <1>4, <2>2
<1>7. ASSUME Clean(BoltClassReport(file))
      PROVE  Cardinality(ListClasses(file, file[k].standard, designation, diameter)) <= 1
  <2>. DEFINE found == ListClasses(file, file[k].standard, designation, diameter)
  <2>1. /\ OverlappingClasses(file) = {} /\ designation # None
        /\ file[k].standard # None
    BY <1>7, CleanClass, ChecksAssumption DEF Missing
  <2>2. diameter \in Nat /\ diameter # None
    BY ChecksAssumption DEF Diameters
  <2>3. found \subseteq Nat
    <3>1. file \in Seq(Range(file))
      BY ChecksAssumption
    <3>. QED
      BY <3>1 DEF ListClasses, Flagged
  <2>4. ASSUME NEW i \in found, NEW j \in found
        PROVE  i = j
    <3>1. ~(j < i) /\ ~(i < j)
      BY <1>2, <2>1, <2>2, <2>4, OneClassFound
    <3>. QED
      BY <2>3, <3>1
  <2>. HIDE DEF found
  <2>5. CASE found = {}
    BY <2>5, FS_EmptySet DEF found
  <2>6. CASE found # {}
    <3>1. PICK i \in found : TRUE
      BY <2>6
    <3>2. found = {i}
      BY <2>4, <3>1
    <3>3. Cardinality(found) = 1
      BY <3>2, FS_Singleton
    <3>. QED
      BY <3>3 DEF found
  <2>. QED
    BY <2>5, <2>6
<1>8. ASSUME Clean(BoltClassReport(file)),
             GetClass(file, designation).standard = "ISO 898-1",
             NEW f \in {"nominalTensile", "ratio"}
      PROVE  ResolveStrength(file, designation, manual)[f][1]
               = ResolveStrength(<< >>, designation, manual)[f][1]
  <2>1. PICK i \in DOMAIN file : /\ GetClass(file, designation) = file[i]
                                 /\ file[i].designation = designation
    BY FirstOfClass
  <2>2. /\ Parses(designation)
        /\ ~Contradicts(file[i].nominalTensile, NominalTensile(designation))
        /\ ~Contradicts(file[i].ratio, YieldRatio(designation))
    BY <1>8, <2>1, CleanClass
  <2>3. GetClass(<< >>, designation) = None
    <3>1. Flagged(<< >>, LAMBDA r : r.designation = designation) = {}
      BY DEF Flagged
    <3>. QED
      BY <3>1 DEF GetClass
  <2>. HIDE DEF designation
  <2>4. ResolveStrength(file, designation, manual)[f][1]
          = IF f \in DOMAIN manual THEN manual[f]
            ELSE IF f = "ratio" THEN YieldRatio(designation)
            ELSE NominalTensile(designation)
    BY <2>1, <2>2, DerivedOrRecorded
  <2>5. ResolveStrength(<< >>, designation, manual)[f][1]
          = IF f \in DOMAIN manual THEN manual[f]
            ELSE IF f = "ratio" THEN YieldRatio(designation)
            ELSE NominalTensile(designation)
    BY <2>2, <2>3, DerivedOrRecorded
  <2>. QED
    BY <2>4, <2>5
<1>. QED
  BY <1>4, <1>6, <1>7, <1>8

\* A library whose reports are clean serves the engines that read it, whatever
\* the library: what the audit, the statistics, the lookup of a strength class
\* and the check of a resolution ledger answer is the report of the file they
\* read (the checks of validator.py, strength_validator.py and population.py).
THEOREM CleanLibrariesAlwaysServe == ChecksSpec => []CleanLibrariesServe
<1>1. ChecksInv => CleanLibrariesServe
  BY ConditionsServe, PartsPair, ThreadsServe, RecordsTraceable, ClassesServe,
     LedgersStayClean, StatisticsFollow DEF CleanLibrariesServe
<1>. QED
  BY <1>1, ChecksInductive, PTL DEF ChecksSpec
===============================================================================
