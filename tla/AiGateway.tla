------------------------------ MODULE AiGateway ------------------------------
(***************************************************************************)
(* Questions put to the language model (src/backend/api/routes/            *)
(* ai_gateway.py, src/backend/ai_gateway/): evidence is read from the      *)
(* question bank, the model is called, and the interaction is written to   *)
(* the audit table before the answer leaves.  Reviewers go on changing the *)
(* question bank all the while.                                            *)
(***************************************************************************)
EXTENDS QuestionBank, ModelProviders

CONSTANTS
  HighConfidence,   \* contents approved and of a source kind that is trusted
  MaxInteractions   \* bound of the model: rows of the audit table

ASSUME GatewayAssumption ==
  /\ HighConfidence \subseteq Texts
  /\ MaxInteractions \in Nat
  /\ None \notin ModelErrors \cup {"deterministic", "ollama", "anthropic", "VALIDATED"}

VARIABLE
  aiAudit   \* ai_audit_records; the evidence is recorded by question_id only

aiVars == <<questionVars, aiAudit>>

GatewayInit == aiAudit = <<>>

\* Mutant of SelectValidated: questions still under review are selected too.
SelectReviewed(t) ==
  /\ IsIdle(t)
  /\ Goto(t, [at |-> "ai_load", cites |-> {},
              pending |-> {k \in QuestionKeys :
                             StatusMap[k] \in {"technical_review", "validated"}}])
  /\ UNCHANGED <<questionTables, aiAudit>>

\* get_publishable_questions: one SELECT of the validated rows ...
SelectValidated(t) ==
  /\ IsIdle(t)
  /\ Goto(t, [at |-> "ai_load", cites |-> {},
              pending |-> {k \in QuestionKeys : StatusMap[k] = "validated"}])
  /\ UNCHANGED <<questionTables, aiAudit>>

\* ... and one read of the JSON file for each; content that is not there is
\* skipped, and so is content without the keyword asked for.  Deletion and
\* archival are not looked at.
LoadEvidence(t) ==
  /\ At(t, "ai_load")
  /\ LET call == calls[t] IN
       \/ /\ call.pending = {}
          /\ Goto(t, [at |-> "ai_asked", cites |-> call.cites, single |-> FALSE])
       \/ \E k \in call.pending, matches \in BOOLEAN :
            Goto(t, [call EXCEPT
              !.pending = @ \ {k},
              !.cites = IF matches /\ k[2] \in Stored(k[1])
                          THEN @ \cup {Citation(k)}
                          ELSE @])
  /\ UNCHANGED <<questionTables, aiAudit>>

\* Without evidence a query is answered with a fixed notice: what the model said
\* is not looked at again (compose).
IsNotice(call) == ~call.single /\ call.cites = {}

\* The client was picked when the request arrived, from a probe that says
\* nothing about its server now.  handle_query reports every error as one,
\* an explanation by its name.  Text that has no encoding passes the validation
\* and, if it is to be the answer, breaks the hash that is recorded of it: a 500,
\* without a record.
ModelCompletes(t) ==
  /\ At(t, "ai_asked")
  /\ \E client \in {DefaultQueryClient(probe) : probe \in Probes} :
       \E outcome \in ModelOutcomes(client) :
         LET call == calls[t] IN
           Goto(t,
             CASE outcome = "half_surrogate" /\ ~IsNotice(call) -> [at |-> "ai_failed"]
               [] outcome = "text" \/ (outcome = "half_surrogate" /\ IsNotice(call)) ->
                    [at |-> "ai_audit", client |-> client, error |-> None,
                     single |-> call.single, cites |-> call.cites]
               [] outcome \in ModelErrors ->
                    [at |-> "ai_audit", client |-> client, single |-> call.single,
                     error |-> IF call.single THEN outcome ELSE "ModelUnavailableError",
                     cites |-> {}])
  /\ UNCHANGED <<questionTables, aiAudit>>

\* check_evidence: one source that is not trusted makes it a warning.
EvidenceStatus(cites) ==
  CASE cites = {} -> "FAIL"
    [] cites # {} /\ (\A c \in cites : c.text \in HighConfidence) -> "PASS"
    [] OTHER -> "WARN"

\* _resolve_result_label
ResultLabel(status) ==
  CASE status = "PASS" -> "VALIDATED"
    [] status = "WARN" -> "ESTIMATED"
    [] status = "FAIL" -> None

\* Mutant of AuditRow: a notice is put down to the client that was asked.
AuditRowOfClient(call) ==
  LET status == IF call.error = None /\ call.single
                  THEN "PASS"
                  ELSE EvidenceStatus(call.cites)
  IN  [model |-> call.client, error |-> call.error,
       evidence |-> {c.key[1] : c \in call.cites}, status |-> status,
       label |-> IF call.single THEN None ELSE ResultLabel(status)]

\* What is recorded.  A failure has no evidence and names the client that was
\* asked, a notice names none; an explanation is recorded as PASS without a label,
\* whatever its one source is.
AuditRow(call) ==
  LET status == IF call.error = None /\ call.single
                  THEN "PASS"
                  ELSE EvidenceStatus(call.cites)
  IN  [model |-> IF call.error = None /\ IsNotice(call) THEN None ELSE call.client,
       error |-> call.error,
       evidence |-> {c.key[1] : c \in call.cites}, status |-> status,
       label |-> IF call.single THEN None ELSE ResultLabel(status)]

\* Mutant of RecordInteraction: what equals the newest row is not recorded again.
RecordOnce(t) ==
  LET row == AuditRow(calls[t])
      repeated == aiAudit # <<>> /\ aiAudit[Len(aiAudit)] = row
      rows == IF repeated THEN aiAudit ELSE Append(aiAudit, row)
  IN  /\ At(t, "ai_audit")
      /\ Len(aiAudit) < MaxInteractions
      /\ aiAudit' = rows
      /\ Goto(t, [at |-> "ai_answered", error |-> calls[t].error,
                  cites |-> calls[t].cites, single |-> calls[t].single,
                  row |-> Len(rows)])
      /\ UNCHANGED questionTables

\* record_with_latency, or record_failure on the way to the 503.
RecordInteraction(t) ==
  /\ At(t, "ai_audit")
  /\ Len(aiAudit) < MaxInteractions
  /\ aiAudit' = Append(aiAudit, AuditRow(calls[t]))
  /\ Goto(t, [at |-> "ai_answered", error |-> calls[t].error,
              cites |-> calls[t].cites, single |-> calls[t].single,
              row |-> Len(aiAudit) + 1])
  /\ UNCHANGED questionTables

\* GET /api/ai/providers
ListProviders(t) ==
  /\ IsIdle(t)
  /\ \E readiness \in {[name \in Providers |-> ReadinessStatus(name, probe)] :
                          probe \in Probes} :
       Goto(t, [at |-> "ai_providers", readiness |-> readiness])
  /\ UNCHANGED <<questionTables, aiAudit>>

GatewayStep(t) ==
  \/ SelectValidated(t) \/ LoadEvidence(t) \/ ModelCompletes(t)
  \/ RecordInteraction(t) \/ ListProviders(t)

GatewayNext ==
  \E t \in Threads :
    \/ GatewayStep(t)
    \/ QuestionStep(t) /\ UNCHANGED aiAudit
    \/ Leave(t) /\ UNCHANGED <<questionTables, aiAudit>>

GatewaySpec ==
  InitCalls /\ QuestionsInit /\ GatewayInit /\ [][GatewayNext]_aiVars

----------------------------------------------------------------------------
(* What is promised. *)

ReadinessStatuses ==
  {"server_unavailable", "server_reachable", "model_missing", "model_ready",
   "not_applicable", "enabled"}

GatewayCalls ==
  QuestionCalls
  \cup [at : {"ai_load"}, cites : SUBSET Citations, pending : SUBSET QuestionKeys]
  \cup [at : {"ai_audit"}, client : Providers, error : ModelErrors \cup {None},
        cites : SUBSET Citations, single : BOOLEAN]
  \cup [at : {"ai_answered"}, error : ModelErrors \cup {None},
        cites : SUBSET Citations, single : BOOLEAN, row : DOMAIN aiAudit]
  \cup [at : {"ai_failed"}]
  \cup [at : {"ai_providers"}, readiness : [Providers -> ReadinessStatuses]]

GatewayTypeOK ==
  /\ TablesTypeOK
  /\ calls \in [Threads -> GatewayCalls]
  /\ aiAudit \in Seq([model : Providers \cup {None}, error : ModelErrors \cup {None},
                      evidence : SUBSET Questions,
                      status : {"PASS", "WARN", "FAIL"},
                      label : {"VALIDATED", "ESTIMATED", None}])

\* What the answer a thread has delivered, or is about to, is based on.
Cited(t) ==
  CASE calls[t].at \in {"list_answered", "ai_asked", "ai_audit", "ai_answered"} ->
         calls[t].cites
    [] At(t, "get_answered") -> {calls[t].cite}
    [] OTHER -> {}

\* get_question reads the content before it knows the version is registered.
ReadContentFirst(t) ==
  \/ At(t, "get_answered")
  \/ calls[t].at \in {"ai_asked", "ai_audit", "ai_answered"} /\ calls[t].single

\* Whatever reviews, updates and roll-backs run during a listing or a call of
\* the model, an answer cites only versions that somebody validated, and what
\* was read after the version was registered is what the archive still holds,
\* word for word; an answer or refusal of the model leaves with an audit row of
\* its own that names the questions it rests on and, but for an answer that rests
\* on none, which has no label either, a model; that is not the paid one, and a
\* failure is not put down to the client that cannot fail; and an answer
\* labelled VALIDATED rests on trusted content alone, as the archive has it now
\* (list_questions, retrieval.py; handle_query, orchestrator.py; compose,
\* composer.py; _run_query and _run_qb_explain, routes/ai_gateway.py).
AnswersGrounded ==
  \A t \in Threads :
    /\ \A cite \in Cited(t) :
         IF ReadContentFirst(t) THEN WasValidated(cite.key) ELSE Grounded(cite)
    /\ At(t, "ai_answered") =>
         LET row == aiAudit[calls[t].row] IN
           /\ row.error = calls[t].error
           /\ row.evidence = {c.key[1] : c \in calls[t].cites}
           /\ row.label = "VALIDATED" =>
                \A q \in row.evidence : \E v \in Versions :
                  content[q][v] \in HighConfidence /\ WasValidated(<<q, v>>)
           /\ row.model = None <=> row.error = None /\ row.evidence = {}
           /\ row.model = None => row.label = None
           /\ row.model # "anthropic"
           /\ row.model = "deterministic" => row.error = None
           /\ row.error = "ModelTimeoutError" => calls[t].single
           /\ \A u \in Threads \ {t} :
                At(u, "ai_answered") => calls[u].row # calls[t].row
=============================================================================
