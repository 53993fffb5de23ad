------------------------------ MODULE Reasoning ------------------------------
(***************************************************************************)
(* Torque recommendations with a trace, and the reasoning given on a trace *)
(* (src/backend/torque_recommendation/audit.py and its route,              *)
(* src/backend/ai_gateway/reasoning/, and POST                             *)
(* /api/ai/engineering-reasoning in routes/ai_gateway.py).  A trace is an  *)
(* audit_log row; the reasoning reads its owner and then the row, may have *)
(* a model word the conclusion, and is recorded in the audit table of the  *)
(* gateway before it is answered.                                          *)
(***************************************************************************)
EXTENDS JointAnalysis, AiGateway

CONSTANTS
  MaxTraces,        \* bounds of the model: recommendations with a trace
  MaxReasonings     \* and reasonings recorded


VARIABLE
  traceLog   \* audit_log: the rows of the recommendations

aiAllVars == <<aiVars, traceLog>>

TracesInit == traceLog = <<>>

\* What may have become of a row that was changed outside the program: its
\* JSON does not parse, or lacks the status, has one that nobody knows, or
\* lacks the formulas.
Damages == {"unreadable", "no_status", "unknown_status", "no_formulas"}

\* NULL is neither of these, nor a recommendation, nor a wording.
ASSUME ReasoningAssumption ==
  /\ MaxTraces \in Nat
  /\ MaxReasonings \in Nat
  /\ None \notin Damages \cup {"text"}
  /\ \A i \in JointInputs : Recommendation(i) # None

\* POST /api/ai/torque-recommendation: calculated, then inserted, then answered
RecommendTorque(t) ==
  /\ IsIdle(t)
  /\ Len(traceLog) < MaxTraces
  /\ \E i \in TracedInputs, u \in Users :
       IF Rejected(i)
         THEN /\ Goto(t, [at |-> "joint_rejected"])
              /\ UNCHANGED traceLog
         ELSE /\ traceLog' = Append(traceLog, [user |-> u, inputs |-> i, damage |-> None,
                                               result |-> Recommendation(i)])
              /\ Goto(t, [at |-> "recommended", trace |-> Len(traceLog) + 1])
  /\ UNCHANGED aiAudit

\* The reasoning answers damaged rows as well: once, some row is damaged.
DamageTrace ==
  /\ \A n \in DOMAIN traceLog : traceLog[n].damage = None
  /\ \E n \in DOMAIN traceLog, d \in Damages :
       traceLog' = [traceLog EXCEPT ![n].damage = d]
  /\ UNCHANGED <<aiAudit, calls>>

----------------------------------------------------------------------------
(* The reasoning *)

\* to_calculation_response: a record without formulas is no evidence.
HasFormulas(damage) == damage \notin {"unreadable", "no_formulas"}

\* check_evidence over no sources
EvidenceFound(damage) == damage # "no_status" /\ HasFormulas(damage)

\* run_reasoning, which copies the conclusion from the row and refuses to
\* draw one from a row it does not understand.
Reason(row) ==
  LET evidence == EvidenceFound(row.damage)
      state == IF ~evidence \/ row.damage = "unknown_status" THEN "INSUFFICIENT_EVIDENCE"
               ELSE IF row.result.status = "recommended" THEN "SUPPORTED"
               ELSE "UNSUPPORTED"
  IN  [state |-> state, evidence |-> IF evidence THEN "PASS" ELSE "FAIL",
       label |-> IF evidence THEN "CALCULATED" ELSE None,
       conclusion |-> IF state = "INSUFFICIENT_EVIDENCE" THEN None ELSE row.result]

\* The owner first, and only then the row; any other id is not found.  Whether
\* wording is wanted, and whose, is part of the request.
AskReasoning(t) ==
  /\ IsIdle(t)
  /\ \E n \in 1..(MaxTraces + 1), u \in Users, isAdmin \in BOOLEAN,
        provider \in Providers \cup {None, "unknown"} :
       IF n \notin DOMAIN traceLog
         THEN Goto(t, [at |-> "reason_not_found"])
         ELSE IF traceLog[n].user # u /\ ~isAdmin
           THEN Goto(t, [at |-> "reason_forbidden"])
           ELSE Goto(t, [at |-> "reason_wording", trace |-> n, user |-> u,
                         isAdmin |-> isAdmin, provider |-> provider,
                         formulas |-> HasFormulas(traceLog[n].damage),
                         reasoning |-> Reason(traceLog[n])])
  /\ UNCHANGED <<traceLog, aiAudit>>

\* attempt_ai_explanation: without a conclusion, or a client of that name,
\* there is no wording; a client that fails leaves none.  Wording that has no
\* encoding breaks the hash of the record, and with it the request.
WordConclusion(t) ==
  /\ At(t, "reason_wording")
  /\ LET call == calls[t]
         asked == call.reasoning.conclusion # None /\ call.provider \in Providers
     IN  \E outcome \in (IF asked THEN ModelOutcomes(call.provider) ELSE {None}) :
           Goto(t, IF outcome = "half_surrogate"
                     THEN [at |-> "reason_failed"]
                     ELSE [call EXCEPT !.at = "reason_record",
                                       !.provider = IF outcome = "text" THEN @ ELSE None])
  /\ UNCHANGED <<traceLog, aiAudit>>

RecordReasoning(t) ==
  /\ At(t, "reason_record")
  /\ Len(aiAudit) < MaxReasonings
  /\ LET call == calls[t] IN
       /\ aiAudit' = Append(aiAudit,
            [trace |-> call.trace, user |-> call.user, model |-> call.provider,
             formulas |-> call.formulas, status |-> call.reasoning.evidence,
             label |-> call.reasoning.label])
       /\ Goto(t, [at |-> "reason_answered", trace |-> call.trace, user |-> call.user,
                   isAdmin |-> call.isAdmin, provider |-> call.provider,
                   formulas |-> call.formulas, reasoning |-> call.reasoning,
                   row |-> Len(aiAudit) + 1])
  /\ UNCHANGED traceLog

ReasoningStep(t) == AskReasoning(t) \/ WordConclusion(t) \/ RecordReasoning(t)

\* Everything that answers by way of the gateway, with the question bank it
\* draws on and the recommendations it reasons about, on the same threads.
AiStep(t) ==
  \/ QuestionStep(t) /\ UNCHANGED <<aiAudit, traceLog>>
  \/ GatewayStep(t) /\ UNCHANGED traceLog
  \/ (RecommendTorque(t) \/ ReasoningStep(t)) /\ UNCHANGED questionTables
  \/ (AnalyzeJoint(t) \/ Leave(t)) /\ UNCHANGED <<questionTables, aiAudit, traceLog>>

AiNext ==
  \/ \E t \in Threads : AiStep(t)
  \/ DamageTrace /\ UNCHANGED questionTables

AiSpec ==
  /\ InitCalls /\ QuestionsInit /\ GatewayInit /\ TracesInit
  /\ [][AiNext]_aiAllVars

----------------------------------------------------------------------------
(* What is promised. *)

Reasonings ==
  [state : {"SUPPORTED", "UNSUPPORTED", "INSUFFICIENT_EVIDENCE"},
   evidence : {"PASS", "FAIL"}, label : {"CALCULATED", None},
   conclusion : {None} \cup {row.result : row \in Range(traceLog)}]

ReasoningTypeOK ==
  /\ \A row \in Range(traceLog) :
       /\ row.user \in Users /\ row.inputs \in TracedInputs
       /\ row.damage \in Damages \cup {None}
  /\ \A t \in Threads : "reasoning" \in DOMAIN calls[t] =>
       /\ calls[t].reasoning \in Reasonings
       /\ calls[t].provider \in Providers \cup {None, "unknown"}

\* Whatever the model answers and whatever happens to the row meanwhile, the
\* reasoning shows nobody else's trace but to an administrator; its conclusion
\* is the recommendation that was given on that trace, supported only where
\* that torque was not withheld and holds on the inputs it was given for; an
\* intact trace is never refused one, and wording is given to nothing else.
\* The answer leaves with an audit row that names the trace, who asked and
\* whose model, if any, has worded it.
ReasoningGrounded ==
  \A t \in {u \in Threads : "reasoning" \in DOMAIN calls[u]} :
    LET call == calls[t]
        row == traceLog[call.trace]
        reasoning == call.reasoning
    IN  /\ call.isAdmin \/ row.user = call.user
        /\ reasoning.conclusion \in {None, row.result}
        /\ reasoning.state = "SUPPORTED" =>
             /\ row.result.torque # None /\ row.result.findings = {}
             /\ RecommendedHolds(row.inputs)
        /\ reasoning.state = "UNSUPPORTED" => row.result.torque = None
        /\ row.damage = None => reasoning.conclusion # None
        /\ reasoning.conclusion = None
             => reasoning.label = None \/ row.damage = "unknown_status"
        /\ ~At(t, "reason_wording") /\ reasoning.conclusion = None
             => call.provider = None
        /\ At(t, "reason_answered") =>
             /\ aiAudit[call.row].trace = call.trace
             /\ aiAudit[call.row].user = call.user
             /\ aiAudit[call.row].model = call.provider
             /\ aiAudit[call.row].label = reasoning.label

\* Nothing the model gateway answers rests on anything but what is recorded:
\* questions that were validated, torques that were recommended.
AiAnswersSound == AnswersGrounded /\ RecommendationsSound /\ ReasoningGrounded
=============================================================================
