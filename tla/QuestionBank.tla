---------------------------- MODULE QuestionBank ----------------------------
(***************************************************************************)
(* The question bank (src/backend/question_bank/): the content of a        *)
(* question's versions is in one JSON file, replaced as a whole under a    *)
(* lock; their review status, deletion and archival are SQLite rows.  No   *)
(* transaction spans the two, and each SQLite request reads before its     *)
(* transaction begins to write.                                            *)
(***************************************************************************)
EXTENDS Requests

CONSTANTS
  Questions,    \* question_id
  Texts,        \* contents: structurally valid and active
  MaxVersion,   \* bounds of the model: content versions of a question
  MaxHistory    \* and rows of its status history

ASSUME QuestionsAssumption ==
  /\ None \notin Texts
  /\ MaxVersion \in Nat
  /\ MaxHistory \in Nat

VARIABLES
  content,        \* JSON store: the content of each version, or None
  records,        \* question_bank_records
  history,        \* question_bank_status_history of each version, in order
  lifecycleAudit  \* question_bank_lifecycle_audit, as far as anything below
                  \* tells its rows apart: the newest deletion or restoration
                  \* of a question, and the versions an archival lists

questionTables == <<content, records, history, lifecycleAudit>>

questionVars == <<questionTables, calls>>

Versions == 1..MaxVersion

QuestionKeys == Questions \X Versions

Statuses == {"draft", "technical_review", "validated", "rejected", "deprecated"}

NoRow == [status |-> "absent", deleted |-> FALSE, archived |-> FALSE]

QuestionsInit ==
  /\ content = [q \in Questions |-> [v \in Versions |-> None]]
  /\ records = [q \in Questions |-> [v \in Versions |-> NoRow]]
  /\ history = [q \in Questions |-> [v \in Versions |-> <<>>]]
  /\ lifecycleAudit =
       [q \in Questions |-> [deleted |-> FALSE, listed |-> {}, archived |-> {}]]

Registered(q) == {v \in Versions : records[q][v].status # "absent"}

Stored(q) == {v \in Versions : content[q][v] # None}

\* load_question_content without a version: the highest in the file.
LatestVersion(q) == CHOOSE v \in Stored(q) : \A w \in Stored(q) : w <= v

HistoryRows(q) == FoldSet(LAMBDA v, n : n + Len(history[q][v]), 0, Versions)

UnchangedTables == UNCHANGED questionTables

----------------------------------------------------------------------------
(* Creation, import of one record, and update: JSON first, SQLite second.  *)

\* Mutant of SaveContent: a version that is there is replaced.
OverwriteContent(q, v, x) ==
  /\ content' = [content EXCEPT ![q][v] = x]
  /\ UNCHANGED <<records, history, lifecycleAudit>>

\* save_question_content: a version that is there is never overwritten.
SaveContent(q, v, x) ==
  /\ content[q][v] = None
  /\ content' = [content EXCEPT ![q][v] = x]
  /\ UNCHANGED <<records, history, lifecycleAudit>>

CreateQuestion(t) ==
  /\ IsIdle(t)
  /\ \E q \in Questions, v \in Versions, x \in Texts :
       /\ SaveContent(q, v, x)
       /\ Goto(t, [at |-> "qb_register", q |-> q, v |-> v, updating |-> FALSE])

\* update_question merges the patch into the newest version it finds; the
\* patch has to change something.
ReadForUpdate(t) ==
  /\ IsIdle(t)
  /\ \E q \in Questions, x \in Texts :
       /\ Stored(q) # {}
       /\ LatestVersion(q) < MaxVersion
       /\ x # content[q][LatestVersion(q)]
       /\ Goto(t, [at |-> "qb_save", q |-> q, v |-> LatestVersion(q) + 1, text |-> x])
  /\ UnchangedTables

SaveUpdate(t) ==
  /\ At(t, "qb_save")
  /\ LET call == calls[t] IN
       \/ /\ SaveContent(call.q, call.v, call.text)
          /\ Goto(t, [at |-> "qb_register", q |-> call.q, v |-> call.v,
                      updating |-> TRUE])
       \/ /\ content[call.q][call.v] # None
          /\ Finish(t)
          /\ UnchangedTables

\* The row and its first history entry, in one transaction.
RegisterRecord(t) ==
  /\ At(t, "qb_register")
  /\ LET q == calls[t].q
         v == calls[t].v
     IN  /\ HistoryRows(q) < MaxHistory
         /\ records[q][v].status = "absent"
         /\ records' = [records EXCEPT ![q][v].status = "draft"]
         /\ history' = [history EXCEPT ![q][v] =
                          Append(@, [from |-> None, to |-> "draft"])]
  /\ Finish(t)
  /\ UNCHANGED <<content, lifecycleAudit>>

\* The transaction fails (a locked database).  An update rolls its own JSON
\* entry back next; a creation does not, and an import only for errors this
\* cannot be.
FailRegistration(t) ==
  /\ At(t, "qb_register")
  /\ IF calls[t].updating THEN Continue(t, "qb_compensate") ELSE Finish(t)
  /\ UnchangedTables

\* _delete_question_content_version.  When it fails too, the request ends
\* and the orphan stays (Leave).
Compensate(t) ==
  /\ At(t, "qb_compensate")
  /\ content' = [content EXCEPT ![calls[t].q][calls[t].v] = None]
  /\ Finish(t)
  /\ UNCHANGED <<records, history, lifecycleAudit>>

----------------------------------------------------------------------------
(* Review: submit, validate, reject and deprecate go through _transition.  *)

\* QUESTION_VALIDATION_TRANSITIONS, less the two edges to draft: only
\* return_to_draft takes those, and nothing calls it.
Transitions ==
  {<<"draft", "technical_review">>, <<"technical_review", "validated">>,
   <<"technical_review", "rejected">>, <<"validated", "deprecated">>}

ReadStatus(t) ==
  /\ IsIdle(t)
  /\ \E q \in Questions : \E v \in Registered(q), edge \in Transitions :
       /\ records[q][v].status = edge[1]
       /\ Goto(t, [at |-> "qb_transition", q |-> q, v |-> v, edge |-> edge])
  /\ UnchangedTables

\* Mutant of WriteStatus: the update asks for the status that was read, and
\* the history entry is written all the same.
WriteExpectedStatus(t) ==
  /\ At(t, "qb_transition")
  /\ LET q == calls[t].q
         v == calls[t].v
         edge == calls[t].edge
     IN  /\ HistoryRows(q) < MaxHistory
         /\ records' = IF records[q][v].status = edge[1]
                         THEN [records EXCEPT ![q][v].status = edge[2]]
                         ELSE records
         /\ history' = [history EXCEPT ![q][v] =
                          Append(@, [from |-> edge[1], to |-> edge[2]])]
  /\ Finish(t)
  /\ UNCHANGED <<content, lifecycleAudit>>

WriteStatus(t) ==
  /\ At(t, "qb_transition")
  /\ LET q == calls[t].q
         v == calls[t].v
         edge == calls[t].edge
     IN  /\ HistoryRows(q) < MaxHistory
         /\ records' = [records EXCEPT ![q][v].status = edge[2]]
         /\ history' = [history EXCEPT ![q][v] =
                          Append(@, [from |-> edge[1], to |-> edge[2]])]
  /\ Finish(t)
  /\ UNCHANGED <<content, lifecycleAudit>>

----------------------------------------------------------------------------
(* Deletion, restoration and archival of all versions of a question.       *)

\* A request whose rows all have the flag already is refused.
ReadRows(t) ==
  /\ IsIdle(t)
  /\ \E q \in Questions, action \in {"soft_delete", "restore", "archive"} :
       /\ \E v \in Registered(q) :
            CASE action = "soft_delete" -> ~records[q][v].deleted
              [] action = "restore"     -> records[q][v].deleted
              [] action = "archive"     -> ~records[q][v].archived
       /\ Goto(t, [at |-> "qb_flags", q |-> q, action |-> action,
                   rows |-> Registered(q)])
  /\ UnchangedTables

\* The UPDATE reaches every row of the question, the audit lists the rows read.
WriteFlags(t) ==
  /\ At(t, "qb_flags")
  /\ LET call == calls[t]
         flag == call.action = "soft_delete"
         trail == lifecycleAudit[call.q]
         Flagged(v) ==
           IF call.action = "archive"
             THEN [records[call.q][v] EXCEPT !.archived = TRUE]
             ELSE [records[call.q][v] EXCEPT !.deleted = flag]
     IN  /\ records' = [records EXCEPT ![call.q] =
              [v \in Versions |->
                 IF v \in Registered(call.q) THEN Flagged(v) ELSE NoRow]]
         /\ lifecycleAudit' = [lifecycleAudit EXCEPT ![call.q] =
              IF call.action = "archive"
                THEN [trail EXCEPT !.archived = @ \cup call.rows]
                ELSE [trail EXCEPT !.deleted = flag, !.listed = call.rows]]
  /\ Finish(t)
  /\ UNCHANGED <<content, history>>

----------------------------------------------------------------------------
(* Reading: status, lifecycle and content are three reads.                 *)

StatusMap == [k \in QuestionKeys |-> records[k[1]][k[2]].status]

\* Keys a default listing leaves out.
Hidden ==
  {k \in QuestionKeys : \/ records[k[1]][k[2]].deleted
                        \/ records[k[1]][k[2]].archived}

Citation(k) == [key |-> k, text |-> content[k[1]][k[2]]]

\* list_questions, publishable only: statuses, then lifecycles, then content.
ListStatuses(t) ==
  /\ IsIdle(t)
  /\ Goto(t, [at |-> "list_lifecycles",
              validated |-> {k \in QuestionKeys : StatusMap[k] = "validated"}])
  /\ UnchangedTables

ListLifecycles(t) ==
  /\ At(t, "list_lifecycles")
  /\ Goto(t, [at |-> "list_contents", shown |-> calls[t].validated \ Hidden])
  /\ UnchangedTables

ListContents(t) ==
  /\ At(t, "list_contents")
  /\ Goto(t, [at |-> "list_answered",
              cites |-> {Citation(k) :
                           k \in {k \in calls[t].shown : k[2] \in Stored(k[1])}}])
  /\ UnchangedTables

\* get_question, of a version or of the newest: content, status, lifecycle.
\* An explanation by the model takes its evidence the same way.
GetContent(t) ==
  /\ IsIdle(t)
  /\ \E k \in QuestionKeys, purpose \in {"read", "explain"} :
       /\ k[2] \in Stored(k[1])
       /\ purpose = "explain" => k[2] = LatestVersion(k[1])
       /\ Goto(t, [at |-> "get_status", cite |-> Citation(k), purpose |-> purpose])
  /\ UnchangedTables

GetStatus(t) ==
  /\ At(t, "get_status")
  /\ Goto(t, [at |-> "get_lifecycle", cite |-> calls[t].cite,
              purpose |-> calls[t].purpose,
              validated |-> StatusMap[calls[t].cite.key] = "validated"])
  /\ UnchangedTables

GetLifecycle(t) ==
  /\ At(t, "get_lifecycle")
  /\ LET call == calls[t]
         found == call.validated /\ call.cite.key \notin Hidden
     IN  CASE ~found -> Finish(t)
           [] found /\ call.purpose = "read" ->
                Goto(t, [at |-> "get_answered", cite |-> call.cite])
           [] found /\ call.purpose = "explain" ->
                Goto(t, [at |-> "ai_asked", cites |-> {call.cite}, single |-> TRUE])
  /\ UnchangedTables

QuestionReview(t) ==
  \/ CreateQuestion(t) \/ ReadForUpdate(t) \/ SaveUpdate(t) \/ RegisterRecord(t)
  \/ FailRegistration(t) \/ Compensate(t) \/ ReadStatus(t) \/ WriteStatus(t)

QuestionLifecycle(t) == ReadRows(t) \/ WriteFlags(t)

QuestionWrite(t) == QuestionReview(t) \/ QuestionLifecycle(t)

QuestionRead(t) ==
  \/ ListStatuses(t) \/ ListLifecycles(t) \/ ListContents(t)
  \/ GetContent(t) \/ GetStatus(t) \/ GetLifecycle(t)

QuestionStep(t) == QuestionWrite(t) \/ QuestionRead(t)

QuestionsNext ==
  \E t \in Threads :
    \/ QuestionStep(t)
    \/ Leave(t) /\ UnchangedTables

QuestionsSpec == InitCalls /\ QuestionsInit /\ [][QuestionsNext]_questionVars

----------------------------------------------------------------------------
(* What is promised. *)

QuestionRows == [status : Statuses \cup {"absent"}, deleted : BOOLEAN, archived : BOOLEAN]

HistoryEntries == [from : Statuses \cup {None}, to : Statuses]

Citations == [key : QuestionKeys, text : Texts]

QuestionCalls ==
  {Idle}
  \cup [at : {"qb_register", "qb_compensate"}, q : Questions, v : Versions,
        updating : BOOLEAN]
  \cup [at : {"qb_save"}, q : Questions, v : Versions, text : Texts]
  \cup [at : {"qb_transition"}, q : Questions, v : Versions, edge : Transitions]
  \cup [at : {"qb_flags"}, q : Questions,
        action : {"soft_delete", "restore", "archive"}, rows : SUBSET Versions]
  \cup [at : {"list_lifecycles"}, validated : SUBSET QuestionKeys]
  \cup [at : {"list_contents"}, shown : SUBSET QuestionKeys]
  \cup [at : {"list_answered"}, cites : SUBSET Citations]
  \cup [at : {"get_answered"}, cite : Citations]
  \cup [at : {"ai_asked"}, cites : SUBSET Citations, single : BOOLEAN]
  \cup [at : {"get_status"}, cite : Citations, purpose : {"read", "explain"}]
  \cup [at : {"get_lifecycle"}, cite : Citations, purpose : {"read", "explain"},
        validated : BOOLEAN]

TablesTypeOK ==
  /\ content \in [Questions -> [Versions -> Texts \cup {None}]]
  /\ records \in [Questions -> [Versions -> QuestionRows]]
  /\ history \in [Questions -> [Versions -> Seq(HistoryEntries)]]
  /\ lifecycleAudit \in
       [Questions -> [deleted : BOOLEAN, listed : SUBSET Versions,
                      archived : SUBSET Versions]]

QuestionsTypeOK == TablesTypeOK /\ calls \in [Threads -> QuestionCalls]

\* The two trails tell what the rows show, however reviews, deletions,
\* restorations, archivals and registrations overlap: a version's status is
\* the one its newest history entry reports, the versions the newest deletion
\* or restoration lists have the flag it reports, and what an archival lists
\* is archived (_transition, delete_question, restore_question,
\* archive_question, service.py).
TrailsMatchRows ==
  \A q \in Questions :
    /\ \A v \in Versions :
         records[q][v].status =
           IF history[q][v] = <<>> THEN "absent"
                                   ELSE history[q][v][Len(history[q][v])].to
    /\ \A v \in lifecycleAudit[q].listed :
         records[q][v].deleted = lifecycleAudit[q].deleted
    /\ \A v \in lifecycleAudit[q].archived : records[q][v].archived

\* The registered versions and their content.
Archived ==
  [k \in QuestionKeys |->
     IF records[k[1]][k[2]].status = "absent" THEN None ELSE content[k[1]][k[2]]]

Archive == INSTANCE QuestionArchive WITH
  Keys <- QuestionKeys, Nothing <- None, archive <- Archived

\* Two stores without a common transaction keep one promise: a version enters
\* the archive once, with its content, and neither a rival creation nor the
\* roll-back of a failed update takes it out or changes it (update_question's
\* and _delete_question_content_version's docstrings).
ArchiveKept == Archive!Spec

WasValidated(k) ==
  \E i \in DOMAIN history[k[1]][k[2]] : history[k[1]][k[2]][i].to = "validated"

\* The version was validated, and this is its content word for word.
Grounded(cite) ==
  /\ WasValidated(cite.key)
  /\ content[cite.key[1]][cite.key[2]] = cite.text
=============================================================================
