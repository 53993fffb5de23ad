---------------------------- MODULE ToolRegister ----------------------------
(***************************************************************************)
(* The register of tightening tools and of their capability studies        *)
(* (src/backend/tools/{service,repository,schemas}.py).  A write commits   *)
(* and its answer is read afterwards; a listing reads the tools first and  *)
(* then the latest study of each, one by one.  Tools and studies are       *)
(* identified by position: neither is ever deleted.                        *)
(***************************************************************************)
EXTENDS Requests, SequencesExt

CONSTANTS
  Registrations,   \* registration numbers
  Days,            \* points in time: due dates, study dates, the clock
  MaxTools,        \* bound of the model: this many tools, and no more
  MaxToolStudies   \* bound of the model: this many studies, and no more

ASSUME ToolsAssumption ==
  /\ Days \subseteq Nat
  /\ {MaxTools, MaxToolStudies} \subseteq Nat

VARIABLES
  tools,        \* tools, in order of id
  toolStudies   \* tool_capability_studies, in order of id

toolTables == <<tools, toolStudies>>

toolVars == <<tools, toolStudies, calls>>

OpStatuses == {"OK", "KONTROL", "YETERSIZ"}

\* None stands for NULL and for a stored text that does not parse.
DueDates == Days \cup {None}

ToolsInit ==
  /\ tools = <<>>
  /\ toolStudies = <<>>

Tool(reg, status, due) ==
  [registration |-> reg, status |-> status, due |-> due, active |-> TRUE]

\* _parse_iso_utc(due) is in the past
IsExpired(due, now) == due \in Days /\ due < now

EffectiveStatus(tool, now) ==
  IF IsExpired(tool.due, now) THEN "SURESI DOLMUS" ELSE tool.status

StudiesOf(id) == {k \in DOMAIN toolStudies : toolStudies[k].tool = id}

\* ORDER BY study_date DESC, id DESC
IsLater(j, k) ==
  \/ toolStudies[j].date > toolStudies[k].date
  \/ toolStudies[j].date = toolStudies[k].date /\ j > k

\* Mutant of LatestStudy: the last one entered, whatever its date.
LatestEntered(id) == Max({0} \cup StudiesOf(id))

\* _latest_study, 0 when there is none
LatestStudy(id) ==
  IF StudiesOf(id) = {} THEN 0
  ELSE CHOOSE k \in StudiesOf(id) : \A j \in StudiesOf(id) \ {k} : IsLater(k, j)

----------------------------------------------------------------------------
(* Reading: the rows first, the latest study of each afterwards *)

\* A request that has read the rows of these tools, and their studies next.
Answering(ids) ==
  [at |-> "tool_latest", ids |-> ids, latest |-> <<>>, seen |-> Len(toolStudies)]

\* get_tool, list_tools; registration numbers are names here, so ids give the order.
ReadTools(t) ==
  /\ IsIdle(t)
  /\ LET active == {id \in DOMAIN tools : tools[id].active} IN
       \/ \E ids \in {active, DOMAIN tools} : Goto(t, Answering(Ascending(ids)))
       \/ \E id \in active : Goto(t, Answering(<<id>>))
  /\ UNCHANGED toolTables

AttachLatest(t) ==
  /\ At(t, "tool_latest")
  /\ LET call == calls[t] IN
       IF Len(call.latest) = Len(call.ids)
         THEN Continue(t, "tools_answered")
         ELSE Goto(t, [call EXCEPT !.latest =
                         Append(@, LatestStudy(call.ids[Len(@) + 1]))])
  /\ UNCHANGED toolTables

\* tools_summary: one read of all tools, then one clock for all of them.
SummaryOf(rows, now) ==
  LET active == {i \in DOMAIN rows : rows[i].active} IN
    [total |-> Len(rows),
     active |-> Cardinality(active),
     inactive |-> Len(rows) - Cardinality(active),
     by |-> [s \in OpStatuses |-> Cardinality({i \in active : rows[i].status = s})],
     expired |-> Cardinality({i \in active : IsExpired(rows[i].due, now)})]

SummariseTools(t) ==
  /\ IsIdle(t)
  /\ \E now \in Days :
       Goto(t, [at |-> "tools_summary", rows |-> tools, now |-> now,
                counts |-> SummaryOf(tools, now)])
  /\ UNCHANGED toolTables

\* ORDER BY study_date DESC, id DESC, of these studies
LatestFirst(ids) ==
  [i \in 1..Cardinality(ids) |->
     CHOOSE k \in ids : Cardinality({j \in ids : IsLater(j, k)}) = i - 1]

\* list_capability_studies
ListToolStudies(t) ==
  /\ IsIdle(t)
  /\ \E id \in DOMAIN tools :
       Goto(t, [at |-> "studies_listed", id |-> id, first |-> LatestStudy(id),
                listed |-> LatestFirst(StudiesOf(id))])
  /\ UNCHANGED toolTables

----------------------------------------------------------------------------
(* Writing *)

\* registration_id is UNIQUE: a number in use is refused.
CreateTool(t) ==
  /\ IsIdle(t)
  /\ Len(tools) < MaxTools
  /\ \E reg \in Registrations, status \in OpStatuses, due \in DueDates :
       /\ \A id \in DOMAIN tools : tools[id].registration # reg
       /\ tools' = Append(tools, Tool(reg, status, due))
       /\ Goto(t, Answering(<<Len(tools')>>))
  /\ UNCHANGED toolStudies

\* A patch sets the fields it names and no other; a NULL due date clears the
\* date.  Inactive tools are patched as well.
UpdateTool(t) ==
  /\ IsIdle(t)
  /\ \E id \in DOMAIN tools, given \in SUBSET {"status", "due"},
        status \in OpStatuses, due \in DueDates :
       /\ tools' = [tools EXCEPT
            ![id].status = IF "status" \in given THEN status ELSE @,
            ![id].due = IF "due" \in given THEN due ELSE @]
       /\ Goto(t, Answering(<<id>>))
  /\ UNCHANGED toolStudies

\* Also of a tool that is inactive already.
DeactivateTool(t) ==
  /\ IsIdle(t)
  /\ \E id \in DOMAIN tools :
       /\ tools' = [tools EXCEPT ![id].active = FALSE]
       /\ Goto(t, Answering(<<id>>))
  /\ UNCHANGED toolStudies

\* create_capability_study reads is_active before its first write.
CheckToolActive(t) ==
  /\ IsIdle(t)
  /\ \E id \in DOMAIN tools, date \in Days :
       /\ tools[id].active
       /\ Goto(t, [at |-> "tool_study", id |-> id, date |-> date])
  /\ UNCHANGED toolTables

\* Mutant of InsertToolStudy: a study puts the tool back in order.
InsertToolStudyAndRelease(t) ==
  /\ At(t, "tool_study")
  /\ Len(toolStudies) < MaxToolStudies
  /\ LET call == calls[t] IN
       /\ toolStudies' = Append(toolStudies, [tool |-> call.id, date |-> call.date])
       /\ tools' = [tools EXCEPT ![call.id].status = "OK"]
  /\ Finish(t)

InsertToolStudy(t) ==
  /\ At(t, "tool_study")
  /\ Len(toolStudies) < MaxToolStudies
  /\ LET call == calls[t] IN
       toolStudies' = Append(toolStudies, [tool |-> call.id, date |-> call.date])
  /\ Finish(t)
  /\ UNCHANGED tools

\* The register, and the studies of the tools in it.
RegisterStep(t) ==
  \/ ReadTools(t) \/ AttachLatest(t) \/ SummariseTools(t)
  \/ CreateTool(t) \/ UpdateTool(t) \/ DeactivateTool(t)

CapabilityStep(t) ==
  \/ ListToolStudies(t) \/ CheckToolActive(t) \/ InsertToolStudy(t)

ToolStep(t) == RegisterStep(t) \/ CapabilityStep(t)

ToolsNext ==
  \E t \in Threads :
    \/ ToolStep(t)
    \/ Leave(t) /\ UNCHANGED toolTables

ToolsSpec == InitCalls /\ ToolsInit /\ [][ToolsNext]_toolVars

----------------------------------------------------------------------------
(* What is promised. *)

ToolIds == DOMAIN tools

ToolRows ==
  [registration : Registrations, status : OpStatuses, due : DueDates, active : BOOLEAN]

ToolCalls ==
  {Idle}
  \cup [at : {"tool_latest", "tools_answered"}, ids : Seq(ToolIds),
        latest : Seq(Nat), seen : Nat]
  \cup [at : {"tools_summary"}, rows : Seq(ToolRows), now : Days,
        counts : [total : Nat, active : Nat, inactive : Nat, by : [OpStatuses -> Nat],
                  expired : Nat]]
  \cup [at : {"studies_listed"}, id : ToolIds, first : Nat, listed : Seq(Nat)]
  \cup [at : {"tool_study"}, id : ToolIds, date : Days]

\* The rows of the two tables and what each request has read of them.
ToolsTypeOK ==
  /\ tools \in Seq(ToolRows)
  /\ Len(tools) <= MaxTools
  /\ toolStudies \in Seq([tool : ToolIds, date : Days])
  /\ Len(toolStudies) <= MaxToolStudies
  /\ calls \in [Threads -> ToolCalls]

\* No two tools share a registration number, though nobody looks before the
\* insertion, and no study is of a tool that is not registered.
RegistrationsUnique ==
  \A i, j \in ToolIds : tools[i].registration = tools[j].registration => i = j

\* The study shown beside a tool was its latest at a moment of the request:
\* it is the tool's own, and no study entered before the tools were read is
\* later than it, whatever was entered while the answer was put together.
ShownStudyWasLatest ==
  \A t \in Threads : At(t, "tools_answered") =>
    \A i \in DOMAIN calls[t].ids :
      LET shown == calls[t].latest[i]
          own == StudiesOf(calls[t].ids[i])
      IN  \E n \in calls[t].seen..Len(toolStudies) :
            IF own \cap 1..n = {} THEN shown = 0
            ELSE /\ shown \in own \cap 1..n
                 /\ \A k \in own \cap 1..n : toolStudies[k].date <= toolStudies[shown].date
                 /\ \A k \in own \cap (shown + 1)..n :
                      toolStudies[k].date < toolStudies[shown].date

\* The counts of the summary are those a reader of the full list would make:
\* every tool is active or inactive, every active one has one of the three
\* statuses, and those shown as expired at that moment are the expired ones.
SummaryAddsUp ==
  \A t \in Threads : At(t, "tools_summary") =>
    LET call == calls[t]
        shownAs(s) ==
          {i \in DOMAIN call.rows : call.rows[i].active /\ EffectiveStatus(call.rows[i], call.now) = s}
    IN  /\ call.counts.total = call.counts.active + call.counts.inactive
        /\ call.counts.active =
             call.counts.by["OK"] + call.counts.by["KONTROL"] + call.counts.by["YETERSIZ"]
        /\ call.counts.expired = Cardinality(shownAs("SURESI DOLMUS"))
        /\ \A s \in OpStatuses : Cardinality(shownAs(s)) <= call.counts.by[s]

\* The list of studies and the latest study agree.
ListStartsWithLatest ==
  \A t \in Threads : At(t, "studies_listed") =>
    LET call == calls[t] IN
      IF call.listed = <<>> THEN call.first = 0 ELSE call.listed[1] = call.first

\* Registration numbers stay unique and what lists and summaries say of the
\* tools and their latest studies adds up, read row by row while others write
\* (tools/repository.py, list_tools; tools/service.py, tools_summary).
ToolsSound ==
  RegistrationsUnique /\ ShownStudyWasLatest /\ SummaryAddsUp /\ ListStartsWithLatest

\* Nothing leaves the register: a tool keeps its number and a deactivated one
\* stays so, studies are only appended, and entering a study never changes
\* what an operator recorded about a tool.
ToolsKept ==
  [][ /\ Len(tools') >= Len(tools)
      /\ \A id \in ToolIds :
           /\ tools'[id].registration = tools[id].registration
           /\ ~tools[id].active => ~tools'[id].active
      /\ IsPrefix(toolStudies, toolStudies')
      /\ toolStudies' # toolStudies => tools' = tools ]_toolTables
=============================================================================
