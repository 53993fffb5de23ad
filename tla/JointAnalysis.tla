---------------------------- MODULE JointAnalysis ----------------------------
(***************************************************************************)
(* The assessment of one joint and the torque recommended for it           *)
(* (src/backend/calculation_engine/joint_analysis.py over                  *)
(* src/backend/vdi2230_core/, and src/backend/torque_recommendation/).     *)
(* Every input is optional: what the inputs given do not support stays     *)
(* None and the rest is evaluated.                                         *)
(*                                                                         *)
(* The stress area is the unit of area, so that stresses are forces, and   *)
(* ratios and thresholds are in parts of Whole.  For one geometry and      *)
(* friction, preload and torque are proportional with a positive           *)
(* coefficient: a torque is measured by the preload it gives.              *)
(***************************************************************************)
EXTENDS Requests, Integers

CONSTANTS
  Whole,         \* 100 %
  JointInputs,   \* the inputs of the requests
  TracedInputs   \* those recommended on, with a trace

Magnitudes == Nat \ {0}

\* TorqueRecommendationRequest and JointAnalysisRequest.  Diameter and pitch are
\* one input, and the two friction coefficients with the bearing diameter
\* another; a stiffness is that of a segment list, whose parts are positive.
\* Only the external load may be negative.
Requested ==
  [thread : {None, "metric", "pitch_too_large"}, friction : BOOLEAN,
   rp02 : Magnitudes \cup {None}, ratio : Magnitudes \cup {None},
   max_ratio : Magnitudes \cup {None}, bolt : Magnitudes \cup {None},
   joint : Magnitudes \cup {None}, load : Int \cup {None}, clamp : Nat \cup {None},
   applied : Magnitudes \cup {None}, fail : Magnitudes \cup {None},
   warn : Magnitudes \cup {None}]

ASSUME InputsAssumption ==
  /\ Whole \in Magnitudes
  /\ None \notin Int
  /\ TracedInputs \subseteq JointInputs
  /\ JointInputs \subseteq Requested
  /\ \A i \in JointInputs :
       i.bolt # None /\ i.joint # None /\ i.load # None
         => (i.bolt * i.load) % (i.bolt + i.joint) = 0

\* tensile_stress_area_mm2 raises, and the request is refused with a 422.
Rejected(i) == i.thread = "pitch_too_large"

\* target_preload_n, also for the preload at the utilization allowed
TargetPreload(rp02, ratio) == (rp02 * ratio) \div Whole

\* evaluate_safety: nothing is evaluated on thresholds that contradict each
\* other, nor on a bolt under compression.
EvaluateSafety(stress, rp02, fail, warn) ==
  CASE None \in {stress, rp02, fail} -> "missing_input"
    [] None \notin {stress, rp02, fail} /\ (stress < 0 \/ (warn # None /\ warn >= fail)) ->
         "invalid_input"
    [] OTHER -> IF stress * Whole > fail * rp02 THEN "fail"
                ELSE IF warn # None /\ stress * Whole > warn * rp02 THEN "warn"
                ELSE "pass"

\* The quantities worked out from the inputs, None where that is not possible.
\* A load that is not given is none.
Quantities(i) ==
  LET load == IF i.load = None THEN 0 ELSE i.load
      area == i.thread # None
      geometry == area /\ i.friction
      phi == i.bolt # None /\ i.joint # None
      added == (i.bolt * load) \div (i.bolt + i.joint)   \* Phi * F_A
      preload == IF area /\ None \notin {i.rp02, i.ratio}
                   THEN TargetPreload(i.rp02, i.ratio) ELSE None
      loaded == phi /\ preload # None
      service == IF loaded THEN preload + added ELSE preload
      status == EvaluateSafety(service, i.rp02, i.fail, i.warn)
  IN  [area |-> area, bolt |-> i.bolt # None, joint |-> i.joint # None, phi |-> phi,
       preload |-> preload,
       residual |-> IF loaded THEN preload - (load - added) ELSE None,
       torque |-> IF geometry THEN preload ELSE None,
       from_torque |-> IF geometry THEN i.applied ELSE None,
       lower |-> IF ~geometry \/ i.clamp = None THEN None
                 ELSE IF phi THEN i.clamp + load - added ELSE i.clamp,
       upper |-> IF geometry /\ None \notin {i.rp02, i.max_ratio}
                   THEN TargetPreload(i.rp02, i.max_ratio) ELSE None,
       safety |-> status,
       used |-> IF status \in {"pass", "warn", "fail"} THEN service ELSE None]

CriticalFindings(q) ==
  (IF q.residual # None /\ q.residual < 0 THEN {"residual_clamp_load_negative"} ELSE {})
  \cup (IF None \notin {q.lower, q.upper} /\ q.lower > q.upper
          THEN {"torque_window_inverted"} ELSE {})
  \cup (IF q.safety = "fail" THEN {"yield_utilization_fail"} ELSE {})

\* _TRACKED_QUANTITIES with a value; the safety factor is the reciprocal of a
\* utilization above zero.
Evaluated(q) ==
  {n \in {"area", "bolt", "joint", "phi"} : q[n]}
  \cup {n \in {"preload", "residual", "torque", "from_torque", "lower", "upper", "used"} :
          q[n] # None}
  \cup (IF q.residual # None THEN {"load_increase"} ELSE {})
  \cup (IF q.used # None /\ q.used > 0 THEN {"safety_factor"} ELSE {})

Readiness(q) ==
  CASE Evaluated(q) = {} -> "insufficient_data"
    [] None \notin {q.lower, q.upper, q.used} -> "full"
    [] {q.lower, q.upper} # {None} /\ None \in {q.lower, q.upper, q.used} ->
         "torque_window_partial"
    [] OTHER -> "partial"

\* The formulas used that nobody has validated yet: those of the core but Phi
\* and F_S, and the three of this module.  The result frame is always used.
Provisional(q) ==
  (Evaluated(q) \cap
     {"area", "preload", "bolt", "joint", "residual", "from_torque", "safety_factor"})
  \cup {"result"}

----------------------------------------------------------------------------
(* The recommendation *)

\* Mutant of Classify: findings are left to the warnings.
ClassifyByReadiness(q) ==
  IF q.torque = None \/ Readiness(q) = "insufficient_data" THEN "NOT_APPLICABLE"
  ELSE IF Readiness(q) = "full" THEN "MEDIUM" ELSE "LOW"

\* A formula that is provisional warns as well, so there is nothing to add for
\* the warnings.
Classify(q) ==
  IF CriticalFindings(q) # {} \/ q.torque = None \/ Readiness(q) = "insufficient_data"
    THEN "NOT_APPLICABLE"
  ELSE IF Readiness(q) = "full"
    THEN IF q.safety = "pass" /\ Provisional(q) = {} THEN "HIGH" ELSE "MEDIUM"
  ELSE "LOW"

\* recommend_torque: what is withheld is still shown as calculated.
Recommendation(i) ==
  LET q == Quantities(i)
      confidence == Classify(q)
      status == IF confidence = "NOT_APPLICABLE" THEN "not_applicable" ELSE "recommended"
  IN  [status |-> status, confidence |-> confidence, calculated |-> q.torque,
       torque |-> IF status = "recommended" THEN q.torque ELSE None,
       findings |-> CriticalFindings(q), readiness |-> Readiness(q)]

\* POST /api/engineering/joint-analysis, which keeps no trace
AnalyzeJoint(t) ==
  /\ IsIdle(t)
  /\ \E i \in JointInputs :
       Goto(t, IF Rejected(i) THEN [at |-> "joint_rejected"]
               ELSE [at |-> "joint_analyzed", inputs |-> i])

----------------------------------------------------------------------------
(* What is promised. *)

\* A recommended torque neither opens the joint nor overloads the bolt, as far
\* as the inputs tell, and where both bounds are known they leave room for one.
RecommendedHolds(i) ==
  LET load == IF i.load = None THEN 0 ELSE i.load
      preload == (i.rp02 * i.ratio) \div Whole
      stiff == None \notin {i.bolt, i.joint}
      opening == IF stiff THEN i.joint * load ELSE 0
      scale == IF stiff THEN i.bolt + i.joint ELSE 1
      service == preload * scale + (IF stiff THEN i.bolt * load ELSE 0)
  IN  Recommendation(i).status = "recommended" =>
        /\ {i.thread, i.rp02, i.ratio} \cap {None} = {} /\ i.friction
        /\ stiff => preload * scale >= opening
        /\ None \notin {i.clamp, i.max_ratio}
             => i.clamp * scale + opening <= ((i.rp02 * i.max_ratio) \div Whole) * scale
        /\ i.fail # None /\ (i.warn = None \/ i.warn < i.fail) /\ service >= 0
             => service * Whole <= i.fail * i.rp02 * scale

\* Whatever is asked of the joint on top may take a recommendation back but
\* never wins one, changes the torque or hides a finding.  A threshold for
\* warnings is no such input: one that is not below the threshold for failures
\* leaves the failure unevaluated.
BoundsOnlyWithhold(i) ==
  \A bound \in {"clamp", "max_ratio", "fail", "applied"} :
    LET without == [i EXCEPT ![bound] = None] IN
      /\ Recommendation(i).status = "recommended"
           => Recommendation(without).torque = Recommendation(i).torque
      /\ Recommendation(without).findings \subseteq Recommendation(i).findings
      /\ Evaluated(Quantities(without)) \subseteq Evaluated(Quantities(i))

\* Medium confidence needs the whole window and a utilization; high confidence
\* is out of reach while the formulas every torque rests on are provisional.
ConfidenceEarned(i) ==
  LET r == Recommendation(i)
      needed == {i.clamp, i.max_ratio, i.fail}
  IN  /\ r.confidence # "HIGH"
      /\ r.confidence = "MEDIUM" => None \notin needed
      /\ r.confidence = "LOW" =>
           \/ None \in needed
           \/ i.warn # None /\ i.warn >= i.fail
           \/ i.load # None /\ i.load < 0

\* A torque recommended for a joint holds on its inputs, and what is missing or
\* asked on top only takes away (recommend_torque in its engine.py;
\* the functions of calculation_engine/joint_analysis.py).
RecommendationsSound ==
  \A call \in Answered("joint_analyzed") :
    /\ RecommendedHolds(call.inputs)
    /\ BoundsOnlyWithhold(call.inputs)
    /\ ConfidenceEarned(call.inputs)
=============================================================================
