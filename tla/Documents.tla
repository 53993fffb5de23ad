------------------------------ MODULE Documents ------------------------------
(***************************************************************************)
(* Document ingestion (src/backend/api/routes/documents.py,                *)
(* src/backend/documents/): an upload is audited, gets a row in status     *)
(* processing, is validated and converted outside any transaction, and its *)
(* row is then closed as extracted or failed and the outcome audited, each *)
(* in a transaction of its own.  A row is its position in the table.       *)
(***************************************************************************)
EXTENDS Requests

CONSTANTS
  DocumentFiles,          \* uploads: what the checks below find in them
  MaxDocuments,   \* bounds of the model: rows of document_extractions
  MaxEntries      \* and of the audit log

VARIABLES
  documents,      \* table document_extractions, in order of id
  auditLog        \* the entries of this component, in order

documentTables == <<documents, auditLog>>

documentVars == <<documentTables, calls>>

DocumentsInit == documents = <<>> /\ auditLog = <<>>

Extensions == {".pdf", ".docx", ".xlsx", ".pptx"}

\* An upload past the size limit is refused by the route, before any of this.
FileTypeOK(f) ==
  f \in [extension : Extensions \cup {"other"}, empty : BOOLEAN,
         matches : BOOLEAN, archive : {"sound", "malformed", "suspicious"},
         hasText : BOOLEAN]

ASSUME DocumentsAssumption == None \notin DocumentFiles /\ \A f \in DocumentFiles : FileTypeOK(f)

OcrErrors ==
  {"ocr_unavailable", "ocr_timeout", "ocr_failed", "ocr_empty", "ocr_page_limit"}

ConverterErrors == {"extraction_failed", "missing_document_dependency"}

Errors ==
  {"unsupported_document_format", "empty_document", "content_type_mismatch",
   "malformed_ooxml", "suspicious_archive", "empty_extraction"}
  \cup ConverterErrors \cup OcrErrors

Methods == {"markitdown", "markitdown+ocr"}

\* The checks of a document, each run when those before it have passed.
Unsupported(f) == f.extension \notin Extensions

Empty(f) == f.empty

Mismatched(f) == ~f.matches

\* A PDF is no archive.
Malformed(f) == f.extension # ".pdf" /\ f.archive = "malformed"

Suspicious(f) == f.extension # ".pdf" /\ f.archive = "suspicious"

\* validate_document: the first check that fails, or None.
Rejection(f) ==
  IF Unsupported(f) THEN "unsupported_document_format"
  ELSE IF Empty(f) THEN "empty_document"
  ELSE IF Mismatched(f) THEN "content_type_mismatch"
  ELSE IF Malformed(f) THEN "malformed_ooxml"
  ELSE IF Suspicious(f) THEN "suspicious_archive"
  ELSE None

\* ocr_pdf: text of the pages, or one of the ways it fails.
OcrOutcomes == {"markitdown+ocr"} \cup OcrErrors

\* extract_document: what a file can come to.  Only a PDF without text goes to
\* OCR.
Outcomes(f) ==
  IF Rejection(f) # None THEN {Rejection(f)}
  ELSE ConverterErrors \cup
       (CASE f.hasText -> {"markitdown"}
          [] ~f.hasText /\ f.extension = ".pdf" -> OcrOutcomes
          [] ~f.hasText /\ f.extension # ".pdf" -> {"empty_extraction"})

Logged(entry) ==
  /\ Len(auditLog) < MaxEntries
  /\ auditLog' = Append(auditLog, entry)

Entry(action, doc) == [action |-> action, doc |-> doc]

----------------------------------------------------------------------------
(* Upload *)

StartUpload(t) ==
  /\ IsIdle(t)
  /\ \E u \in Users, f \in DocumentFiles :
       Goto(t, [at |-> "doc_create", user |-> u, file |-> f])
  /\ Logged(Entry("started", 0))
  /\ UNCHANGED documents

\* extraction_method is written here, and nowhere else.
NewDocument(call) ==
  [owner |-> call.user, file |-> call.file, status |-> "processing",
   method |-> "markitdown", text |-> None, error |-> None]

CreateRow(t) ==
  /\ At(t, "doc_create")
  /\ Len(documents) < MaxDocuments
  /\ documents' = Append(documents, NewDocument(calls[t]))
  /\ Goto(t, [at |-> "doc_extract", doc |-> Len(documents) + 1])
  /\ UNCHANGED auditLog

\* Any other exception leaves the row as it is (Leave).
Extract(t) ==
  /\ At(t, "doc_extract")
  /\ \E outcome \in Outcomes(documents[calls[t].doc].file) :
       Goto(t, [at |-> "doc_close", doc |-> calls[t].doc, outcome |-> outcome])
  /\ UNCHANGED documentTables

\* mark_extracted and mark_failed; neither closes a row that is closed.
Closed(document, outcome) ==
  IF outcome \in Methods
    THEN [document EXCEPT !.status = "extracted", !.text = outcome]
    ELSE [document EXCEPT !.status = "failed", !.error = outcome]

\* Mutant of CloseRow: every row that could be closed counts as a success.
CloseRowAsSuccess(t) ==
  /\ At(t, "doc_close")
  /\ LET call == calls[t] IN
       /\ documents[call.doc].status = "processing"
       /\ documents' = [documents EXCEPT ![call.doc] = Closed(@, call.outcome)]
       /\ Goto(t, [at |-> "doc_audit", doc |-> call.doc, action |-> "succeeded"])
  /\ UNCHANGED auditLog

CloseRow(t) ==
  /\ At(t, "doc_close")
  /\ LET call == calls[t] IN
       /\ documents[call.doc].status = "processing"
       /\ documents' = [documents EXCEPT ![call.doc] = Closed(@, call.outcome)]
       /\ Goto(t, [at |-> "doc_audit", doc |-> call.doc,
                   action |-> IF call.outcome \in Methods THEN "succeeded"
                                                          ELSE "failed"])
  /\ UNCHANGED auditLog

\* DocumentPersistenceError, from creating the row or from closing it: it
\* carries no document id, so the audit entry of the failure names none.
FailToStore(t) ==
  /\ calls[t].at \in {"doc_create", "doc_close"}
  /\ Goto(t, [at |-> "doc_audit", doc |-> 0, action |-> "failed"])
  /\ UNCHANGED documentTables

AuditOutcome(t) ==
  /\ At(t, "doc_audit")
  /\ Logged(Entry(calls[t].action, calls[t].doc))
  /\ IF calls[t].action = "succeeded"
       THEN Goto(t, [at |-> "doc_answered", doc |-> calls[t].doc,
                     row |-> documents[calls[t].doc]])
       ELSE Finish(t)
  /\ UNCHANGED documents

----------------------------------------------------------------------------
(* Retrieval, by the owner only *)

GetOwned(t) ==
  /\ IsIdle(t)
  /\ \E u \in Users, i \in DOMAIN documents :
       /\ documents[i].owner = u
       /\ Goto(t, [at |-> "doc_retrieved", doc |-> i, row |-> documents[i]])
  /\ UNCHANGED documentTables

AuditRetrieval(t) ==
  /\ At(t, "doc_retrieved")
  /\ Logged(Entry("retrieved", calls[t].doc))
  /\ Continue(t, "doc_answered")
  /\ UNCHANGED documents

DocumentStep(t) ==
  \/ StartUpload(t) \/ CreateRow(t) \/ Extract(t) \/ CloseRow(t)
  \/ FailToStore(t) \/ AuditOutcome(t) \/ GetOwned(t) \/ AuditRetrieval(t)

DocumentsNext ==
  \E t \in Threads :
    \/ DocumentStep(t)
    \/ Leave(t) /\ UNCHANGED documentTables

DocumentsSpec == InitCalls /\ DocumentsInit /\ [][DocumentsNext]_documentVars

----------------------------------------------------------------------------
(* What is promised. *)

DocumentRows ==
  [owner : Users, file : DocumentFiles, status : {"processing", "extracted", "failed"},
   method : Methods, text : Methods \cup {None}, error : Errors \cup {None}]

DocumentCalls ==
  {Idle}
  \cup [at : {"doc_create"}, user : Users, file : DocumentFiles]
  \cup [at : {"doc_extract"}, doc : DOMAIN documents]
  \cup [at : {"doc_close"}, doc : DOMAIN documents, outcome : Errors \cup Methods]
  \cup [at : {"doc_audit"}, doc : {0} \cup DOMAIN documents,
        action : {"succeeded", "failed"}]
  \cup [at : {"doc_retrieved", "doc_answered"}, doc : DOMAIN documents,
        row : DocumentRows]

DocumentsTypeOK ==
  /\ documents \in Seq(DocumentRows)
  /\ auditLog \in Seq([action : {"started", "succeeded", "failed", "retrieved"},
                       doc : {0} \cup DOMAIN documents])
  /\ calls \in [Threads -> DocumentCalls]

Closing == {"doc_extract", "doc_close"}

\* What the log reports of a document is what its row says, once; a row is in
\* the hands of one upload at most, and only while it is processing; a closed
\* row has a text or an error its file can come to; and whoever was answered
\* with a closed row was answered with what the row says ever after
\* (ingest_document, ingestion_service.py; mark_extracted, repository.py).
DocumentsSound ==
  /\ \A i \in DOMAIN auditLog :
       LET e == auditLog[i] IN e.action \in {"succeeded", "failed"} /\ e.doc # 0 =>
         /\ documents[e.doc].status =
              IF e.action = "succeeded" THEN "extracted" ELSE "failed"
         /\ \A j \in 1..(i - 1) :
              auditLog[j].doc = e.doc => auditLog[j].action = "retrieved"
  /\ \A t \in Threads : calls[t].at \in Closing =>
       /\ documents[calls[t].doc].status = "processing"
       /\ \A u \in Threads \ {t} :
            calls[u].at \in Closing => calls[u].doc # calls[t].doc
  /\ \A i \in DOMAIN documents :
       LET d == documents[i] IN
         CASE d.status = "processing" -> d.text = None /\ d.error = None
           [] d.status = "extracted" ->
                d.text \in Methods \cap Outcomes(d.file) /\ d.error = None
           [] d.status = "failed" ->
                d.error \in Errors \cap Outcomes(d.file) /\ d.text = None
  /\ \A t \in Threads :
       At(t, "doc_answered") /\ calls[t].row.status # "processing" =>
         documents[calls[t].doc] = calls[t].row
=============================================================================
