----------------------------- MODULE MCRecords -----------------------------
(***************************************************************************)
(* The components that keep their rows in the SQLite database, on small    *)
(* instances.  They share the database file and the request threads but no *)
(* table, so each behaviour is about one of them: the first state picks a  *)
(* part, and only that part's actions are taken.                           *)
(***************************************************************************)
EXTENDS JointProjections, ValidationStudies, CalculationRecords, Reasoning,
        Documents, ToolRegister, MCLibrary, MCDataFiles

CONSTANTS
  Parts,                    \* the parts this run is about
  torque, friction,         \* data sets
  sound, complete, broken   \* contents of data packages

VARIABLE part   \* the one this behaviour is about

recordsVars ==
  <<part, jointTables, studyTables, releaseTables, calculationTables,
    questionTables, aiAudit, traceLog, documentTables, toolTables, calls>>

MCSymmetry == Permutations(Threads) \cup Permutations(Users)

MCUploads ==
  {[dataset |-> torque, content |-> sound, confidence |-> 4],
   [dataset |-> friction, content |-> complete, confidence |-> 4],
   [dataset |-> friction, content |-> broken, confidence |-> 4]}

\* Every order of every field, with a term that some fields contain, one that
\* few do and no term; and every page of one listing.
MCQueries ==
  [search : {None, {"review", "under_review", "source_unavailable"}, {"approved"}},
   sort_by : {"joint_revision_id", "source_status", "canonical_status", "outcome"},
   sort_order : {"asc", "desc"}, page : {2}, page_size : {1}]
  \cup [search : {None}, sort_by : {"source_status"}, sort_order : {"desc"},
        page : 1..3, page_size : {1, 2, 25}]

\* A row that names its number and one that takes the next.
MCCsvFiles == {<<1, 0>>}

Readable == [extension |-> ".pdf", empty |-> FALSE, matches |-> TRUE,
             archive |-> "sound", hasText |-> TRUE]

MCDocumentFiles ==
  {Readable,
   [Readable EXCEPT !.hasText = FALSE],
   [Readable EXCEPT !.extension = ".docx", !.archive = "suspicious"]}

\* A joint with every input, whose numbers vary; and one whose numbers are fixed,
\* of which anything may be missing.
MCJoint ==
  [thread |-> "metric", friction |-> TRUE, rp02 |-> 4, ratio |-> 3, max_ratio |-> 4,
   bolt |-> 1, joint |-> 1, load |-> 2, clamp |-> 1, applied |-> 2, fail |-> 4,
   warn |-> 2]

\* One torque that is recommended and one that is withheld.
MCTracedInputs == {MCJoint, [MCJoint EXCEPT !.load = 8]}

MCJointInputs ==
  MCTracedInputs
  \cup
  {[MCJoint EXCEPT !.ratio = r, !.max_ratio = m, !.load = l, !.clamp = c, !.fail = f,
                   !.warn = w] :
     r \in {2, 4}, m \in {2, 4}, l \in {None, -8, 2, 6}, c \in {1, 3}, f \in {3, 5},
     w \in {None, 2, 4}}
  \cup
  {[n \in DOMAIN MCJoint |->
      IF n \notin missing THEN MCJoint[n] ELSE IF n = "friction" THEN FALSE ELSE None] :
     missing \in SUBSET (DOMAIN MCJoint \ {"warn"})}
  \cup {[MCJoint EXCEPT !.thread = "pitch_too_large"]}

----------------------------------------------------------------------------
(* Releases of calculations start from one approved package whose version  *)
(* is active, certificates from two packages of which one was approved     *)
(* twice, studies of tools from one registered tool; everything else       *)
(* starts from empty tables.                                               *)

ApprovedPackage(d, c) ==
  [dataset |-> d, content |-> c, confidence |-> 4, status |-> "approved"]

VersionRow(p, no, active) == [package |-> p, no |-> no, active |-> active]

MCInit ==
  /\ part \in Parts
  /\ InitCalls
  /\ JointsInit /\ StudiesInit /\ CalculationsInit /\ QuestionsInit
  /\ GatewayInit /\ TracesInit /\ DocumentsInit
  /\ IF part \in {"calculations", "certificates"}
       THEN /\ packages = IF part = "calculations" THEN <<ApprovedPackage(torque, sound)>>
                          ELSE <<ApprovedPackage(torque, sound),
                                 ApprovedPackage(friction, complete)>>
            /\ versions = IF part = "calculations" THEN <<VersionRow(1, 1, TRUE)>>
                          ELSE <<VersionRow(1, 1, FALSE), VersionRow(2, 1, FALSE),
                                 VersionRow(1, 2, FALSE)>>
            /\ golden = <<>>
            /\ certificates = <<>>
       ELSE ReleasesInit
  /\ IF part = "toolstudies"
       THEN /\ \E reg \in Registrations : tools = <<Tool(reg, "KONTROL", None)>>
            /\ toolStudies = <<>>
       ELSE ToolsInit

OtherThan(t, steps) == \A u \in Threads \ {t} : calls[u].at \in steps

WritingSteps ==
  {"idle", "qb_save", "qb_register", "qb_compensate", "qb_transition", "qb_flags"}

ReadingSteps ==
  {"idle", "list_lifecycles", "list_contents", "list_answered", "get_status",
   "get_lifecycle", "get_answered", "ai_load", "ai_asked", "ai_audit", "ai_answered"}

\* Of some requests there is one at a time, while the other thread does anything
\* else: two of them read the same or write the same.
OneAt(t, steps) ==
  calls[t].at = "idle" /\ calls'[t].at \in steps =>
    \A u \in Threads \ {t} : calls[u].at \notin steps

\* A request that inserts a row begins when the bound leaves room for it.
WithRoom(t, steps, rows, max) ==
  calls[t].at = "idle" /\ calls'[t].at \in steps => Len(rows) < max

\* One version fewer than in the part "certificates", whose packages and
\* versions are there from the start.
ReleasesPart(t) ==
  /\ ReleaseStep(t)
  /\ part = "releases" => Len(versions') < MaxVersions
  /\ OneAt(t, {"cert_packages", "cert_golden", "cert_insert"})
  /\ WithRoom(t, {"cert_packages"}, certificates, MaxCertificates)
  /\ WithRoom(t, {"package_insert"}, packages, MaxPackages)

CalculationsPart(t) ==
  /\ CalculationStep(t)
  /\ OneAt(t, {"release_read"})
  /\ OneAt(t, {"trace_read", "trace_insert"})
  /\ OneAt(t, {"crev_submit"})
  /\ WithRoom(t, {"release_read"}, releases, MaxReleases)
  /\ WithRoom(t, {"crev_locked"}, calcRevisions, MaxRevisionRows)

\* Texts are changed when all measurements are there, one study or dataset at a
\* time: nothing that is promised is about them.
StudiesPart(t) ==
  /\ StudyStep(t)
  /\ calls[t].at = "idle" /\ calls'[t].at \in {"study_patch", "set_patch"} =>
       Len(measurements) = MaxRecords
  /\ OneAt(t, {"study_patch", "set_patch", "set_lock"})
  /\ OneAt(t, {"invalid_study", "invalid_write"})
  /\ WithRoom(t, {"record_study", "import_study"}, measurements, MaxRecords)

JointsPart(t) ==
  /\ JointStep(t)
  /\ OneAt(t, {"rev_submit"})
  /\ OneAt(t, {"joint_archive"})

DocumentsPart(t) ==
  DocumentStep(t) /\ OneAt(t, {"doc_retrieved", "doc_answered"})

\* One writer of joints and one reader of their projections at a time, without
\* idempotency keys, which no projection shows; the last step of a query reads no
\* table, so nothing need run beside it.
ProjectionsStep(t) ==
  \/ /\ OtherThan(t, {"idle", "query_read"})
     /\ JointStep(t) /\ calls'[t].at # "rev_find_key"
  \/ /\ \A u \in Threads \ {t} :
          calls[u].at \notin {"query_read", "query_answered", "one_answered"}
     /\ ReadProjections(t)
  \/ OtherThan(t, {"idle"}) /\ AnswerQuery(t)

\* One reviewer and one reader at a time, and one row of the audit table less than
\* the part "interactions" has.  Deletions and archivals belong to
\* the part "reviews": no answer has to look at them.
AnswersStep(t) ==
  \/ OtherThan(t, ReadingSteps) /\ QuestionReview(t) /\ UNCHANGED aiAudit
  \/ OtherThan(t, WritingSteps) /\ QuestionRead(t) /\ UNCHANGED aiAudit
  \/ /\ OtherThan(t, WritingSteps)
     /\ GatewayStep(t)
     /\ Len(aiAudit') < MaxInteractions

\* Two questions to the model at once, when one reviewer has had the first version
\* of a question validated and nobody changes the question bank any more.
InteractionsStep(t) ==
  IF \A k \in QuestionKeys : StatusMap[k] # "validated"
    THEN /\ OtherThan(t, {"idle"}) /\ QuestionReview(t) /\ UNCHANGED aiAudit
         /\ \A q \in Questions : \A v \in Versions \ {1} : content'[q][v] = None
    ELSE \/ GatewayStep(t) /\ calls'[t].at # "ai_providers"
         \/ /\ QuestionRead(t)
            /\ calls'[t].at \in {"get_status", "get_lifecycle", "ai_asked"}
            /\ UNCHANGED aiAudit

\* One request at a time, while rows are damaged between its steps; an analysis
\* reads no table, so it is left out once there is a trace.
ReasoningPart(t) ==
  \/ DamageTrace
  \/ /\ OtherThan(t, {"idle"})
     /\ \/ RecommendTorque(t)
        \/ ReasoningStep(t) /\ WithRoom(t, {"reason_wording"}, aiAudit, MaxReasonings)
        \/ traceLog = <<>> /\ AnalyzeJoint(t) /\ UNCHANGED <<traceLog, aiAudit>>

\* The register with one writer at a time and no studies; then the studies of
\* one tool, which may be deactivated meanwhile.
RegisterAlone(t) ==
  OtherThan(t, {"idle", "tool_latest"}) /\ RegisterStep(t)

StudiesOfOne(t) ==
  CapabilityStep(t) \/ ReadTools(t) \/ AttachLatest(t) \/ DeactivateTool(t)

\* An assessment or a check of the library reads nothing that a request
\* changes: one at a time will do.
AssessmentAlone(t) == OtherThan(t, {"idle"}) /\ AssemblyStep(t)

MaterialAlone(t) == OtherThan(t, {"idle"}) /\ MaterialStep(t)

CheckAlone(t) == OtherThan(t, {"idle"}) /\ CheckStep(t)

MCNext ==
  \E t \in Threads :
    \/ /\ \/ part = "joints" /\ JointsPart(t)
          \/ part = "projections" /\ ProjectionsStep(t)
       /\ UNCHANGED <<part, studyTables, releaseTables, calculationTables,
                      questionTables, aiAudit, traceLog, documentTables, toolTables>>
    \/ /\ part = "studies" /\ StudiesPart(t)
       /\ UNCHANGED <<part, jointTables, releaseTables, calculationTables,
                      questionTables, aiAudit, traceLog, documentTables, toolTables>>
    \/ /\ part \in {"releases", "certificates"} /\ ReleasesPart(t)
       /\ UNCHANGED <<part, jointTables, studyTables, calculationTables,
                      questionTables, aiAudit, traceLog, documentTables, toolTables>>
    \/ /\ part = "calculations" /\ CalculationsPart(t)
       /\ UNCHANGED <<part, jointTables, studyTables, questionTables, aiAudit, traceLog,
                      documentTables, toolTables>>
    \/ /\ part = "reviews" /\ QuestionWrite(t)
       /\ UNCHANGED <<part, jointTables, studyTables, releaseTables,
                      calculationTables, aiAudit, traceLog, documentTables, toolTables>>
    \/ /\ \/ part = "answers" /\ AnswersStep(t)
          \/ part = "interactions" /\ InteractionsStep(t)
       /\ UNCHANGED <<part, jointTables, studyTables, releaseTables,
                      calculationTables, traceLog, documentTables, toolTables>>
    \/ /\ part = "reasoning" /\ ReasoningPart(t)
       /\ UNCHANGED <<part, jointTables, studyTables, releaseTables,
                      calculationTables, questionTables, documentTables, toolTables>>
    \/ /\ part = "documents" /\ DocumentsPart(t)
       /\ UNCHANGED <<part, jointTables, studyTables, releaseTables,
                      calculationTables, questionTables, aiAudit, traceLog,
                      toolTables>>
    \/ /\ \/ part = "tools" /\ RegisterAlone(t)
          \/ part = "toolstudies" /\ StudiesOfOne(t)
       /\ UNCHANGED <<part, jointTables, studyTables, releaseTables,
                      calculationTables, questionTables, aiAudit, traceLog, documentTables>>
    \/ /\ \/ part = "assemblies" /\ AssessmentAlone(t)
          \/ part = "materials" /\ MaterialAlone(t)
          \/ part = "checks" /\ CheckAlone(t)
          \/ Leave(t)
       /\ UNCHANGED <<part, jointTables, studyTables, releaseTables,
                      calculationTables, questionTables, aiAudit, traceLog, documentTables, toolTables>>

MCSpec == MCInit /\ [][MCNext]_recordsVars

\* Every table and every request has its type, whichever part it belongs to.
RecordsTypeOK ==
  /\ part = "joints" => JointsTypeOK
  /\ part = "projections" => ProjectionsTypeOK
  /\ part = "studies" => StudiesTypeOK
  /\ part \in {"releases", "certificates"} => ReleasesTypeOK
  /\ part = "calculations" => CalculationsTypeOK
  /\ part \in {"reviews", "answers", "interactions"} => GatewayTypeOK
  /\ part = "reasoning" => ReasoningTypeOK
  /\ part = "documents" => DocumentsTypeOK
  /\ part \in {"tools", "toolstudies"} => ToolsTypeOK
  /\ part = "assemblies" => AssembliesTypeOK
  /\ part = "materials" => MaterialsTypeOK
=============================================================================
