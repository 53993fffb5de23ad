------------------------- MODULE CalculationRecords -------------------------
(***************************************************************************)
(* Saved calculations, their data-version traces, their revisions and the  *)
(* release packages of a project (src/backend/app.py, /api/calculations,   *)
(* /api/revisions, /api/projects).  Every user keeps one project, and each *)
(* calculation belongs to the project of its owner.                        *)
(*                                                                         *)
(* A calculation may be deleted; its revisions and traces stay.  Its id is *)
(* an INTEGER PRIMARY KEY without AUTOINCREMENT: SQLite gives the next row *)
(* the largest id in the table plus one, so the id of a deleted row may    *)
(* come back, to another owner.                                            *)
(***************************************************************************)
EXTENDS DataReleases

CONSTANTS
  MaxCalculations,  \* bounds of the model: never more rows than these
  MaxRevisionRows,
  MaxReleases

ASSUME CalculationsAssumption ==
  {MaxCalculations, MaxRevisionRows, MaxReleases} \subseteq Nat

VARIABLES
  owner,            \* calculations: the user each id belongs to, None for no row
  traces,           \* calculation_data_trace: pairs of calculation id and version
  calcRevisions,    \* calculation_revisions, in order of id
  releases          \* project_release_packages

calculationTables == <<owner, traces, calcRevisions, releases>>

calculationVars == <<owner, traces, calcRevisions, releases, releaseVars>>

CalcIds == 1..MaxCalculations

CalculationsInit ==
  /\ owner = [c \in CalcIds |-> None]
  /\ traces = {}
  /\ calcRevisions = <<>>
  /\ releases = <<>>

Saved == {c \in CalcIds : owner[c] # None}

NextCalcId == 1 + Max({0} \cup Saved)

CalcRevisionsOf(c) == {i \in DOMAIN calcRevisions : calcRevisions[i].calc = c}

CalcNumbers(c) == {calcRevisions[i].no : i \in CalcRevisionsOf(c)}

----------------------------------------------------------------------------
(* add, dele and clear *)

\* The calculation is committed before its trace is read and written.
AddCalculation(t) ==
  /\ IsIdle(t)
  /\ NextCalcId \in CalcIds
  /\ \E u \in Users :
       /\ owner' = [owner EXCEPT ![NextCalcId] = u]
       /\ Goto(t, [at |-> "trace_read", calc |-> NextCalcId])
  /\ UNCHANGED <<traces, calcRevisions, releases>>

ReadTrace(t) ==
  /\ At(t, "trace_read")
  /\ Goto(t, [at |-> "trace_insert", calc |-> calls[t].calc, active |-> ActiveVersions])
  /\ UNCHANGED calculationTables

InsertTrace(t) ==
  /\ At(t, "trace_insert")
  /\ traces' = traces \cup ({calls[t].calc} \X calls[t].active)
  /\ Finish(t)
  /\ UNCHANGED <<owner, calcRevisions, releases>>

\* One calculation, or all of a user's: nothing asks for their revisions.
DeleteCalculations(t) ==
  /\ IsIdle(t)
  /\ \E u \in Users :
       LET own == {c \in Saved : owner[c] = u} IN
         \E gone \in {{c} : c \in own} \cup {own} :
           /\ gone # {}
           /\ owner' = [c \in CalcIds |-> IF c \in gone THEN None ELSE owner[c]]
  /\ UNCHANGED <<traces, calcRevisions, releases, calls>>

----------------------------------------------------------------------------
(* create_revision and submit_revision *)

ReadCalculation(t) ==
  /\ IsIdle(t)
  /\ \E c \in Saved : Goto(t, [at |-> "crev_locked", calc |-> c, user |-> owner[c], no |-> 0])
  /\ UNCHANGED calculationTables

CheckLocked(t) ==
  /\ At(t, "crev_locked")
  /\ IF \E i \in CalcRevisionsOf(calls[t].calc) : calcRevisions[i].locked
       THEN Finish(t)
       ELSE Continue(t, "crev_number")
  /\ UNCHANGED calculationTables

NumberCalcRevision(t) ==
  /\ At(t, "crev_number")
  /\ Goto(t, [calls[t] EXCEPT !.at = "crev_insert",
                              !.no = 1 + Max({0} \cup CalcNumbers(calls[t].calc))])
  /\ UNCHANGED calculationTables

\* UNIQUE(calculation_id,revision_no) refuses the second of two rivals.
InsertCalcRevision(t) ==
  /\ At(t, "crev_insert")
  /\ Len(calcRevisions) < MaxRevisionRows
  /\ LET call == calls[t] IN
       calcRevisions' =
         IF call.no \in CalcNumbers(call.calc) THEN calcRevisions
         ELSE Append(calcRevisions,
                [calc |-> call.calc, no |-> call.no, status |-> "draft",
                 locked |-> FALSE, creator |-> call.user, reviewer |-> None])
  /\ Finish(t)
  /\ UNCHANGED <<owner, traces, releases>>

\* The owner of the calculation of today submits; the status is not looked at
\* again when it is written.
ReadCalcDraft(t) ==
  /\ IsIdle(t)
  /\ \E i \in DOMAIN calcRevisions :
       /\ owner[calcRevisions[i].calc] # None
       /\ calcRevisions[i].status = "draft"
       /\ Goto(t, [at |-> "crev_submit", row |-> i])
  /\ UNCHANGED calculationTables

SubmitCalcRevision(t) ==
  /\ At(t, "crev_submit")
  /\ calcRevisions' = [calcRevisions EXCEPT ![calls[t].row].status = "review"]
  /\ Finish(t)
  /\ UNCHANGED <<owner, traces, releases>>

(* approve_revision and reject_revision look at the author, who never      *)
(* changes, and at nothing else: a revision in any status may be approved  *)
(* or rejected.                                                            *)

ApproveCalcRevision(t) ==
  /\ IsIdle(t)
  /\ \E i \in DOMAIN calcRevisions, u \in Users :
       /\ calcRevisions[i].creator # u
       /\ calcRevisions' = [calcRevisions EXCEPT
            ![i].status = "approved", ![i].locked = TRUE, ![i].reviewer = u]
  /\ UNCHANGED <<owner, traces, releases, calls>>

RejectCalcRevision(t) ==
  /\ IsIdle(t)
  /\ \E i \in DOMAIN calcRevisions, u \in Users :
       /\ calcRevisions[i].creator # u
       /\ calcRevisions' = [calcRevisions EXCEPT ![i].status = "rejected", ![i].reviewer = u]
  /\ UNCHANGED <<owner, traces, releases, calls>>

----------------------------------------------------------------------------
(* project_release_package: the calculations of the project, then for each *)
(* of them its last revision and its traces, then the package.             *)

ReadProject(t) ==
  /\ IsIdle(t)
  /\ \E u \in Users :
       Goto(t, [at |-> "release_read", left |-> {c \in Saved : owner[c] = u}, items |-> {}])
  /\ UNCHANGED calculationTables

\* The row with the largest revision number, 0 when the calculation has none.
LastCalcRevision(c) ==
  IF CalcRevisionsOf(c) = {} THEN 0
  ELSE CHOOSE i \in CalcRevisionsOf(c) : calcRevisions[i].no = Max(CalcNumbers(c))

ReadItem(t) ==
  /\ At(t, "release_read")
  /\ calls[t].left # {}
  /\ LET c == Min(calls[t].left)
         i == LastCalcRevision(c)
     IN  Goto(t, [calls[t] EXCEPT !.left = @ \ {c},
                    !.items = @ \cup {[calc |-> c, revision |-> i,
                      approved |-> i # 0 /\ calcRevisions[i].status = "approved",
                      versions |-> {v \in DOMAIN versions : <<c, v>> \in traces}]}])
  /\ UNCHANGED calculationTables

IssueRelease(t) ==
  /\ At(t, "release_read")
  /\ calls[t].left = {}
  /\ Len(releases) < MaxReleases
  /\ LET items == calls[t].items IN
       releases' = Append(releases,
         [items |-> items, ready |-> items # {} /\ \A x \in items : x.approved])
  /\ Finish(t)
  /\ UNCHANGED <<owner, traces, calcRevisions>>

CalculationStep(t) ==
  /\ \/ AddCalculation(t) \/ ReadTrace(t) \/ InsertTrace(t)
     \/ DeleteCalculations(t) \/ ReadCalculation(t) \/ CheckLocked(t)
     \/ NumberCalcRevision(t) \/ InsertCalcRevision(t) \/ ReadCalcDraft(t)
     \/ SubmitCalcRevision(t) \/ ApproveCalcRevision(t) \/ RejectCalcRevision(t)
     \/ ReadProject(t) \/ ReadItem(t) \/ IssueRelease(t)
  /\ UNCHANGED releaseTables

CalculationsNext ==
  \E t \in Threads :
    \/ CalculationStep(t)
    \/ ReleaseStep(t) /\ UNCHANGED calculationTables
    \/ Leave(t) /\ UNCHANGED <<releaseTables, calculationTables>>

CalculationsSpec ==
  InitCalls /\ ReleasesInit /\ CalculationsInit /\ [][CalculationsNext]_calculationVars

----------------------------------------------------------------------------
(* What is promised. *)

CalcRevisionRows ==
  [calc : CalcIds, no : Nat, status : {"draft", "review", "approved", "rejected"},
   locked : BOOLEAN, creator : Users, reviewer : Users \cup {None}]

Items ==
  [calc : CalcIds, revision : 0..Len(calcRevisions), approved : BOOLEAN,
   versions : SUBSET DOMAIN versions]

CalculationCalls ==
  {Idle}
  \cup [at : {"trace_read"}, calc : CalcIds]
  \cup [at : {"trace_insert"}, calc : CalcIds, active : SUBSET DOMAIN versions]
  \cup [at : {"crev_locked", "crev_number", "crev_insert"},
        calc : CalcIds, user : Users, no : Nat]
  \cup [at : {"crev_submit"}, row : DOMAIN calcRevisions]
  \cup [at : {"release_read"}, left : SUBSET CalcIds, items : SUBSET Items]

\* The rows of the four tables and what each request has read of them.
CalculationsTypeOK ==
  /\ owner \in [CalcIds -> Users \cup {None}]
  /\ traces \subseteq CalcIds \X DOMAIN versions
  /\ calcRevisions \in Seq(CalcRevisionRows)
  /\ \A r \in DOMAIN releases :
       releases[r].items \subseteq Items /\ releases[r].ready \in BOOLEAN
  /\ calls \in [Threads -> CalculationCalls \cup ReleaseCalls]

\* A locked revision was reviewed, and by somebody other than its author,
\* whatever submissions and rejections came before, after or in between.
LockedWasReviewed ==
  \A i \in DOMAIN calcRevisions :
    /\ calcRevisions[i].locked => calcRevisions[i].reviewer # None
    /\ calcRevisions[i].reviewer # calcRevisions[i].creator

\* Every item of a package that is ready for release rests on a revision that
\* is locked by a second person - still now, for no later step unlocks it -
\* and lists versions whose packages have the highest confidence.
ReleasedWasReviewed ==
  \A r \in DOMAIN releases : releases[r].ready =>
    \A x \in releases[r].items :
      /\ x.revision \in CalcRevisionsOf(x.calc)
      /\ calcRevisions[x.revision].locked
      /\ calcRevisions[x.revision].reviewer \notin {None, calcRevisions[x.revision].creator}
      /\ \A v \in x.versions : packages[versions[v].package].confidence = 4

\* Every certificate and every release package issued says what was so
\* (app.py, create_release_certificate and project_release_package).
RecordsReleasedSoundly == ReleasesSound /\ LockedWasReviewed /\ ReleasedWasReviewed
=============================================================================
