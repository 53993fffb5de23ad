------------------------ MODULE QuestionBank_proofs ------------------------
(***************************************************************************)
(* Safety of the question bank, and that it implements QuestionArchive, for*)
(* any questions, texts, threads and bounds.  The inductive invariant adds *)
(* to the two trails what keeps the two stores in step: a registered       *)
(* version has its content, and a request that is still to register or to  *)
(* roll back a version is the only one that owns it.                       *)
(*                                                                         *)
(* Then safety of what the gateway answers from it, and of the torque      *)
(* recommendations it reasons about, for any models and inputs: a request  *)
(* keeps what it read from the bank because what was validated stays, and  *)
(* what it says of a trace or of its audit row because rows are only       *)
(* appended, but for the damage.                                           *)
(***************************************************************************)
EXTENDS Reasoning, LogLemmas

(* ---- The inductive invariant. ---- *)

IsRegistered(q, v) == records[q][v].status # "absent"

RegisteredStored ==
  \A q \in Questions, v \in Versions : IsRegistered(q, v) => content[q][v] # None

\* What the lifecycle trail lists is registered.
ListedRegistered ==
  \A q \in Questions : \A v \in lifecycleAudit[q].listed \cup lifecycleAudit[q].archived :
    IsRegistered(q, v)

OwningSteps == {"qb_register", "qb_compensate"}

\* What a request knows between its reads and its write.
Knows(c) ==
  /\ c.at \in OwningSteps => content[c.q][c.v] # None /\ ~IsRegistered(c.q, c.v)
  /\ c.at = "qb_transition" => IsRegistered(c.q, c.v)
  /\ c.at = "qb_flags" => \A v \in c.rows : IsRegistered(c.q, v)

CallsKnow == \A t \in Threads : Knows(calls[t])

\* Two requests never have one version to register or to roll back.
Rivals(c, d) == c.at \in OwningSteps /\ d.at \in OwningSteps /\ c.q = d.q /\ c.v = d.v

OneOwner == \A t, u \in Threads : Rivals(calls[t], calls[u]) => t = u

TablesInv == TablesTypeOK /\ TrailsMatchRows /\ RegisteredStored /\ ListedRegistered

QuestionSteps ==
  {"idle", "qb_save", "qb_register", "qb_compensate", "qb_transition", "qb_flags",
   "list_lifecycles", "list_contents", "list_answered", "get_status", "get_lifecycle",
   "get_answered", "ai_asked"}

\* Of a call that is not one of the question bank nothing need be known.
Typed(c) == c.at \in QuestionSteps => c \in QuestionCalls

CallsInv ==
  /\ calls = [t \in Threads |-> calls[t]]
  /\ \A t \in Threads : Typed(calls[t])
  /\ CallsKnow
  /\ OneOwner

QInv == TablesInv /\ CallsInv

\* What the place of a call says about its fields.
LEMMA CallFields ==
  ASSUME NEW c, Typed(c)
  PROVE  /\ c.at \in OwningSteps => c.q \in Questions /\ c.v \in Versions /\ c.updating \in BOOLEAN
         /\ c.at = "qb_save" => c.q \in Questions /\ c.v \in Versions /\ c.text \in Texts
         /\ c.at = "qb_transition" =>
              c.q \in Questions /\ c.v \in Versions /\ c.edge \in Transitions
         /\ c.at = "qb_flags" =>
              /\ c.q \in Questions /\ c.rows \subseteq Versions
              /\ c.action \in {"soft_delete", "restore", "archive"}
         /\ c.at = "list_lifecycles" => c.validated \subseteq QuestionKeys
         /\ c.at = "list_contents" => c.shown \subseteq QuestionKeys
         /\ c.at \in {"get_status", "get_lifecycle"} =>
              c.cite \in Citations /\ c.purpose \in {"read", "explain"}
         /\ c.at = "get_lifecycle" => c.validated \in BOOLEAN
BY DEF Typed, QuestionSteps, QuestionCalls, OwningSteps, Idle

(* ---- What a step must keep for the requests that do not take it. ---- *)

\* Nothing leaves the tables, and what somebody other than t owns is left alone.
RegisteredStay ==
  \A q \in Questions, v \in Versions : IsRegistered(q, v) => IsRegistered(q, v)'

OwnedStay(t) ==
  \A u \in Threads \ {t} : calls[u].at \in OwningSteps =>
    /\ content'[calls[u].q][calls[u].v] # None
    /\ records'[calls[u].q][calls[u].v].status = "absent"

LEMMA OneCallMoves ==
  ASSUME CallsInv, RegisteredStay,
         NEW t \in Threads, OwnedStay(t),
         NEW c, Typed(c), Goto(t, c), Knows(c)',
         \A u \in Threads \ {t} : ~Rivals(c, calls[u])
  PROVE  CallsInv'
<1>1. calls' = [calls EXCEPT ![t] = c] /\ calls = [u \in Threads |-> calls[u]]
  BY DEF Goto, CallsInv
<1>2. /\ calls' = [u \in Threads |-> calls'[u]]
      /\ calls'[t] = c
      /\ \A u \in Threads \ {t} : calls'[u] = calls[u]
  BY <1>1
<1>3. ASSUME NEW u \in Threads
      PROVE  Knows(calls[u])'
  <2>1. CASE u = t
    BY <1>2, <2>1 DEF Knows, IsRegistered
  <2>2. CASE u # t
    <3>. DEFINE d == calls[u]
    <3>1. Typed(d) /\ Knows(d)
      BY DEF CallsInv, CallsKnow
    <3>2. d.at \in OwningSteps =>
            content'[d.q][d.v] # None /\ records'[d.q][d.v].status = "absent"
      BY <2>2, <1>2 DEF OwnedStay, IsRegistered
    <3>3. d.at = "qb_transition" => records'[d.q][d.v].status # "absent"
      BY <3>1, CallFields DEF Knows, RegisteredStay, IsRegistered
    <3>4. d.at = "qb_flags" => \A v \in d.rows : records'[d.q][v].status # "absent"
      BY <3>1, CallFields DEF Knows, RegisteredStay, IsRegistered
    <3>5. calls'[u] = calls[u]
      BY <1>2, <2>2
    <3>. QED
      BY <3>2, <3>3, <3>4, <3>5 DEF Knows, IsRegistered
  <2>. QED
    BY <2>1, <2>2
<1>4. OneOwner'
  <2>. SUFFICES ASSUME NEW u \in Threads, NEW w \in Threads,
                       Rivals(calls'[u], calls'[w]), u # w
                PROVE  FALSE
    BY DEF OneOwner, Rivals
  <2>. QED
    BY <1>2 DEF CallsInv, OneOwner, Rivals
<1>5. \A u \in Threads : Typed(calls'[u])
  BY <1>2 DEF CallsInv
<1>. QED
  BY <1>2, <1>3, <1>4, <1>5 DEF CallsInv, CallsKnow, Typed

LEMMA IdleCall == Typed(Idle) /\ Knows(Idle) /\ \A d : ~Rivals(Idle, d)
BY DEF Typed, QuestionCalls, Knows, Rivals, OwningSteps, Idle

LEMMA IdleCallAfter == Knows(Idle)'
BY DEF Knows, OwningSteps, Idle

LEMMA TablesStay ==
  ASSUME QInv, UnchangedTables, NEW t \in Threads
  PROVE  TablesInv' /\ RegisteredStay /\ OwnedStay(t)
<1>1. /\ content' = content /\ records' = records /\ history' = history
      /\ lifecycleAudit' = lifecycleAudit
  BY DEF UnchangedTables, questionTables
<1>2. TablesInv'
  BY <1>1 DEF QInv, TablesInv, TablesTypeOK, TrailsMatchRows, RegisteredStored,
              ListedRegistered, IsRegistered
<1>3. RegisteredStay
  BY <1>1 DEF RegisteredStay, IsRegistered
<1>4. OwnedStay(t)
  BY <1>1 DEF QInv, CallsInv, CallsKnow, Knows, OwnedStay, IsRegistered
<1>. QED
  BY <1>2, <1>3, <1>4

\* A step that only reads leaves a call that knows what it needs.
LEMMA ReadOnly ==
  ASSUME QInv, UnchangedTables,
         NEW t \in Threads, NEW c, Typed(c), Goto(t, c), Knows(c),
         \A u \in Threads \ {t} : ~Rivals(c, calls[u])
  PROVE  QInv'
<1>1. TablesInv' /\ RegisteredStay /\ OwnedStay(t)
  BY TablesStay
<1>2. Knows(c)'
  BY DEF Knows, UnchangedTables, questionTables, IsRegistered
<1>. QED
  BY <1>1, <1>2, OneCallMoves DEF QInv

\* The last write of a request.
LEMMA LastWrite ==
  ASSUME QInv, TablesInv', RegisteredStay, NEW t \in Threads, OwnedStay(t), Finish(t)
  PROVE  QInv'
BY IdleCall, IdleCallAfter, OneCallMoves DEF QInv, Finish

LEMMA LeavingKeepsQInv ==
  ASSUME QInv, UnchangedTables, NEW t \in Threads, Finish(t)
  PROVE  QInv'
BY IdleCall, ReadOnly DEF Finish

(* ---- Steps that read. ---- *)

\* The newest version of a question is one that is stored.
LEMMA LatestMember ==
  ASSUME NEW q, Stored(q) # {}
  PROVE  LatestVersion(q) \in Stored(q)
<1>1. Stored(q) \in SUBSET (0 .. MaxVersion) /\ MaxVersion \in Nat
  BY QuestionsAssumption DEF Stored, Versions
<1>2. \E v \in Stored(q) : \A w \in Stored(q) : w <= v
  BY <1>1, MaxMember
<1>. QED
  BY <1>2 DEF LatestVersion

LEMMA KeyFields ==
  ASSUME NEW k \in QuestionKeys
  PROVE  k[1] \in Questions /\ k[2] \in Versions
BY DEF QuestionKeys

\* The text of a stored version is a text.
LEMMA StoredText ==
  ASSUME TablesTypeOK, NEW k \in QuestionKeys, k[2] \in Stored(k[1])
  PROVE  Citation(k) \in Citations
<1>1. content[k[1]][k[2]] \in Texts
  BY KeyFields DEF TablesTypeOK, Stored
<1>. QED
  BY <1>1 DEF Citation, Citations

\* Steps between a read that matters and the write it matters for.
PlannedSteps == OwningSteps \cup {"qb_transition", "qb_flags"}

\* A call at another step may say anything.
LEMMA Harmless ==
  ASSUME QInv, UnchangedTables, NEW t \in Threads,
         NEW c, Typed(c), c.at \notin PlannedSteps, Goto(t, c)
  PROVE  QInv'
<1>1. Knows(c) /\ \A d : ~Rivals(c, d)
  BY DEF Knows, Rivals, OwningSteps, PlannedSteps
<1>. QED
  BY <1>1, ReadOnly

LEMMA ListSteps ==
  ASSUME QInv, NEW t \in Threads, ListStatuses(t) \/ ListLifecycles(t) \/ ListContents(t)
  PROVE  QInv'
<1>1. UnchangedTables
  BY DEF ListStatuses, ListLifecycles, ListContents
<1>2. Typed(calls[t]) /\ TablesTypeOK
  BY DEF QInv, CallsInv, TablesInv
<1>3. CASE ListStatuses(t)
  <2>1. PICK c : /\ Goto(t, c)
                 /\ c = [at |-> "list_lifecycles",
                         validated |-> {k \in QuestionKeys : StatusMap[k] = "validated"}]
    BY <1>3 DEF ListStatuses
  <2>2. c \in QuestionCalls /\ c.at = "list_lifecycles"
    BY <2>1 DEF QuestionCalls
  <2>. QED
    BY <1>1, <2>1, <2>2, Harmless DEF Typed, PlannedSteps, OwningSteps
<1>4. CASE ListLifecycles(t)
  <2>1. PICK c : Goto(t, c) /\ c = [at |-> "list_contents", shown |-> calls[t].validated \ Hidden]
    BY <1>4 DEF ListLifecycles
  <2>2. calls[t].validated \subseteq QuestionKeys
    BY <1>2, <1>4, CallFields DEF ListLifecycles, At
  <2>3. c \in QuestionCalls /\ c.at = "list_contents"
    BY <2>1, <2>2 DEF QuestionCalls
  <2>. QED
    BY <1>1, <2>1, <2>3, Harmless DEF Typed, PlannedSteps, OwningSteps
<1>5. CASE ListContents(t)
  <2>. DEFINE found == {k \in calls[t].shown : k[2] \in Stored(k[1])}
  <2>1. PICK c : Goto(t, c) /\ c = [at |-> "list_answered", cites |-> {Citation(k) : k \in found}]
    BY <1>5 DEF ListContents
  <2>2. calls[t].shown \subseteq QuestionKeys
    BY <1>2, <1>5, CallFields DEF ListContents, At
  <2>3. {Citation(k) : k \in found} \subseteq Citations
    BY <1>2, <2>2, StoredText
  <2>4. c \in QuestionCalls /\ c.at = "list_answered"
    BY <2>1, <2>3 DEF QuestionCalls
  <2>. QED
    BY <1>1, <2>1, <2>4, Harmless DEF Typed, PlannedSteps, OwningSteps
<1>. QED
  BY <1>3, <1>4, <1>5

LEMMA GetSteps ==
  ASSUME QInv, NEW t \in Threads, GetContent(t) \/ GetStatus(t) \/ GetLifecycle(t)
  PROVE  QInv'
<1>1. UnchangedTables
  BY DEF GetContent, GetStatus, GetLifecycle
<1>2. Typed(calls[t]) /\ TablesTypeOK
  BY DEF QInv, CallsInv, TablesInv
<1>3. CASE GetContent(t)
  <2>1. PICK k \in QuestionKeys, purpose \in {"read", "explain"} :
          /\ k[2] \in Stored(k[1])
          /\ Goto(t, [at |-> "get_status", cite |-> Citation(k), purpose |-> purpose])
    BY <1>3 DEF GetContent
  <2>2. PICK c : /\ c = [at |-> "get_status", cite |-> Citation(k), purpose |-> purpose]
                 /\ Goto(t, c)
    BY <2>1
  <2>3. Citation(k) \in Citations
    BY <1>2, <2>1, StoredText
  <2>4. c \in QuestionCalls /\ c.at = "get_status"
    BY <2>2, <2>3 DEF QuestionCalls
  <2>. QED
    BY <1>1, <2>2, <2>4, Harmless DEF Typed, PlannedSteps, OwningSteps
<1>4. CASE GetStatus(t)
  <2>1. PICK c : /\ Goto(t, c)
                 /\ c = [at |-> "get_lifecycle", cite |-> calls[t].cite,
                         purpose |-> calls[t].purpose,
                         validated |-> StatusMap[calls[t].cite.key] = "validated"]
    BY <1>4 DEF GetStatus
  <2>2. calls[t].cite \in Citations /\ calls[t].purpose \in {"read", "explain"}
    BY <1>2, <1>4, CallFields DEF GetStatus, At
  <2>3. c \in QuestionCalls /\ c.at = "get_lifecycle"
    BY <2>1, <2>2 DEF QuestionCalls
  <2>. QED
    BY <1>1, <2>1, <2>3, Harmless DEF Typed, PlannedSteps, OwningSteps
<1>5. CASE GetLifecycle(t)
  <2>1. calls[t].cite \in Citations /\ calls[t].purpose \in {"read", "explain"}
    BY <1>2, <1>5, CallFields DEF GetLifecycle, At
  <2>2. \/ Finish(t)
        \/ Goto(t, [at |-> "get_answered", cite |-> calls[t].cite])
        \/ Goto(t, [at |-> "ai_asked", cites |-> {calls[t].cite}, single |-> TRUE])
    BY <1>5, <2>1 DEF GetLifecycle
  <2>3. CASE Finish(t)
    BY <1>1, <2>3, LeavingKeepsQInv
  <2>4. ASSUME Goto(t, [at |-> "get_answered", cite |-> calls[t].cite])
        PROVE  QInv'
    <3>1. PICK c : Goto(t, c) /\ c = [at |-> "get_answered", cite |-> calls[t].cite]
      BY <2>4
    <3>2. c \in QuestionCalls /\ c.at = "get_answered"
      BY <2>1, <3>1 DEF QuestionCalls
    <3>. QED
      BY <1>1, <3>1, <3>2, Harmless DEF Typed, PlannedSteps, OwningSteps
  <2>5. ASSUME Goto(t, [at |-> "ai_asked", cites |-> {calls[t].cite}, single |-> TRUE])
        PROVE  QInv'
    <3>1. PICK c : /\ Goto(t, c)
                   /\ c = [at |-> "ai_asked", cites |-> {calls[t].cite}, single |-> TRUE]
      BY <2>5
    <3>2. c \in QuestionCalls /\ c.at = "ai_asked"
      BY <2>1, <3>1 DEF QuestionCalls
    <3>. QED
      BY <1>1, <3>1, <3>2, Harmless DEF Typed, PlannedSteps, OwningSteps
  <2>. QED
    BY <2>2, <2>3, <2>4, <2>5
<1>. QED
  BY <1>3, <1>4, <1>5

(* ---- Steps that write. ---- *)

\* A version nobody has is written, and belongs to the request that wrote it.
LEMMA SaveStep ==
  ASSUME QInv, NEW t \in Threads,
         NEW q \in Questions, NEW v \in Versions, NEW x \in Texts, NEW b \in BOOLEAN,
         SaveContent(q, v, x),
         Goto(t, [at |-> "qb_register", q |-> q, v |-> v, updating |-> b])
  PROVE  QInv'
<1>. DEFINE c == [at |-> "qb_register", q |-> q, v |-> v, updating |-> b]
<1>1. /\ content[q][v] = None /\ content' = [content EXCEPT ![q][v] = x]
      /\ records' = records /\ history' = history /\ lifecycleAudit' = lifecycleAudit
  BY DEF SaveContent
<1>2. content \in [Questions -> [Versions -> Texts \cup {None}]] /\ x # None
  BY QuestionsAssumption DEF QInv, TablesInv, TablesTypeOK
<1>3. /\ content' \in [Questions -> [Versions -> Texts \cup {None}]]
      /\ content'[q][v] # None
      /\ \A p \in Questions, w \in Versions :
           content[p][w] # None => content'[p][w] # None
  BY <1>1, <1>2
<1>4. TablesInv'
  BY <1>1, <1>3 DEF QInv, TablesInv, TablesTypeOK, TrailsMatchRows, RegisteredStored,
                    ListedRegistered, IsRegistered
<1>5. RegisteredStay
  BY <1>1 DEF RegisteredStay, IsRegistered
<1>6. \A u \in Threads : calls[u].at \in OwningSteps =>
        /\ calls[u].q \in Questions /\ calls[u].v \in Versions
        /\ content[calls[u].q][calls[u].v] # None
        /\ records[calls[u].q][calls[u].v].status = "absent"
  BY CallFields DEF QInv, CallsInv, CallsKnow, Knows, IsRegistered
<1>7. OwnedStay(t)
  BY <1>1, <1>3, <1>6 DEF OwnedStay
<1>8. c \in QuestionCalls /\ c.at = "qb_register" /\ c.q = q /\ c.v = v
  BY DEF QuestionCalls
<1>9. \A u \in Threads \ {t} : ~Rivals(c, calls[u])
  BY <1>1, <1>6, <1>8 DEF Rivals
<1>10. ~IsRegistered(q, v)
  BY <1>1 DEF QInv, TablesInv, RegisteredStored
<1>11. Knows(c)'
  BY <1>1, <1>3, <1>8, <1>10 DEF Knows, IsRegistered
<1>. QED
  BY <1>4, <1>5, <1>7, <1>8, <1>9, <1>11, OneCallMoves DEF QInv, Typed

LEMMA CreateStep ==
  ASSUME QInv, NEW t \in Threads, CreateQuestion(t)
  PROVE  QInv'
BY SaveStep DEF CreateQuestion

LEMMA UpdateReads ==
  ASSUME QInv, NEW t \in Threads, ReadForUpdate(t)
  PROVE  QInv'
<1>1. PICK q \in Questions, x \in Texts :
        /\ Stored(q) # {} /\ LatestVersion(q) < MaxVersion
        /\ Goto(t, [at |-> "qb_save", q |-> q, v |-> LatestVersion(q) + 1, text |-> x])
  BY DEF ReadForUpdate
<1>2. LatestVersion(q) \in Versions
  BY <1>1, LatestMember DEF Stored
<1>3. LatestVersion(q) + 1 \in Versions
  BY <1>1, <1>2, QuestionsAssumption DEF Versions
<1>4. PICK c : /\ c = [at |-> "qb_save", q |-> q, v |-> LatestVersion(q) + 1, text |-> x]
               /\ Goto(t, c)
  BY <1>1
<1>5. c \in QuestionCalls /\ c.at = "qb_save"
  BY <1>3, <1>4 DEF QuestionCalls
<1>. QED
  BY <1>4, <1>5, Harmless DEF ReadForUpdate, Typed, PlannedSteps, OwningSteps

LEMMA SaveUpdateStep ==
  ASSUME QInv, NEW t \in Threads, SaveUpdate(t)
  PROVE  QInv'
<1>1. PICK q \in Questions, v \in Versions, x \in Texts :
        q = calls[t].q /\ v = calls[t].v /\ x = calls[t].text
  BY CallFields DEF QInv, CallsInv, SaveUpdate, At
<1>2. CASE /\ SaveContent(q, v, x)
           /\ Goto(t, [at |-> "qb_register", q |-> q, v |-> v, updating |-> TRUE])
  BY <1>2, SaveStep
<1>3. CASE Finish(t) /\ UnchangedTables
  BY <1>3, LeavingKeepsQInv
<1>. QED
  BY <1>1, <1>2, <1>3 DEF SaveUpdate

LEMMA RowWithStatus ==
  ASSUME NEW row \in QuestionRows, NEW s \in Statuses
  PROVE  LET new == [row EXCEPT !.status = s]
         IN  /\ new \in QuestionRows /\ new.status = s
             /\ new.deleted = row.deleted /\ new.archived = row.archived
BY DEF QuestionRows

LEMMA NewestEntry ==
  ASSUME NEW T, NEW s \in Seq(T), NEW e \in T
  PROVE  LET log == Append(s, e)
         IN  log \in Seq(T) /\ log # <<>> /\ log[Len(log)] = e
<1>1. /\ Append(s, e) \in Seq(T) /\ Len(Append(s, e)) = Len(s) + 1
      /\ Append(s, e)[Len(s) + 1] = e
  BY AppendProperties
<1>2. Append(s, e) # <<>>
  BY <1>1, AppendProperties
<1>. QED
  BY <1>1, <1>2

\* A status and its history entry are written together.
LEMMA StatusWritten ==
  ASSUME TablesInv,
         NEW q \in Questions, NEW v \in Versions,
         NEW s \in Statuses, NEW from \in Statuses \cup {None},
         content[q][v] # None,
         records' = [records EXCEPT ![q][v].status = s],
         history' = [history EXCEPT ![q][v] = Append(@, [from |-> from, to |-> s])],
         content' = content, lifecycleAudit' = lifecycleAudit
  PROVE  /\ TablesInv' /\ RegisteredStay
         /\ \A p \in Questions, w \in Versions :
              <<p, w>> # <<q, v>> => records'[p][w] = records[p][w]
<1>. DEFINE e == [from |-> from, to |-> s]
<1>1. /\ records \in [Questions -> [Versions -> QuestionRows]]
      /\ history \in [Questions -> [Versions -> Seq(HistoryEntries)]]
      /\ s # "absent"
  BY DEF TablesInv, TablesTypeOK, Statuses
<1>2. \A p \in Questions, w \in Versions :
        <<p, w>> # <<q, v>> =>
          records'[p][w] = records[p][w] /\ history'[p][w] = history[p][w]
  BY <1>1
<1>3. records'[q][v] = [records[q][v] EXCEPT !.status = s]
  BY <1>1
<1>4. /\ records'[q][v].status = s
      /\ records'[q][v].deleted = records[q][v].deleted
      /\ records'[q][v].archived = records[q][v].archived
      /\ records'[q][v] \in QuestionRows
  BY <1>1, <1>3, RowWithStatus
<1>5. e \in HistoryEntries /\ e.to = s
  BY DEF HistoryEntries
<1>6. history'[q][v] = Append(history[q][v], e) /\ history[q][v] \in Seq(HistoryEntries)
  BY <1>1
<1>7. /\ history'[q][v] \in Seq(HistoryEntries)
      /\ history'[q][v] # <<>>
      /\ history'[q][v][Len(history'[q][v])] = e
  BY <1>5, <1>6, NewestEntry
<1>8. TablesTypeOK'
  <2>1. records' \in [Questions -> [Versions -> QuestionRows]]
    <3>1. /\ records' = [p \in Questions |-> [w \in Versions |-> records'[p][w]]]
      BY <1>1
    <3>2. ASSUME NEW p \in Questions, NEW w \in Versions
          PROVE  records'[p][w] \in QuestionRows
      <4>1. CASE <<p, w>> = <<q, v>>
        BY <4>1, <1>4
      <4>2. CASE <<p, w>> # <<q, v>>
        BY <4>2, <1>1, <1>2
      <4>. QED
        BY <4>1, <4>2
    <3>. QED
      BY <3>1, <3>2
  <2>2. history' \in [Questions -> [Versions -> Seq(HistoryEntries)]]
    <3>1. history' = [p \in Questions |-> [w \in Versions |-> history'[p][w]]]
      BY <1>1
    <3>2. \A p \in Questions, w \in Versions : history'[p][w] \in Seq(HistoryEntries)
      BY <1>1, <1>2, <1>7
    <3>. QED
      BY <3>1, <3>2
  <2>. QED
    BY <2>1, <2>2 DEF TablesInv, TablesTypeOK
<1>9. \A p \in Questions, w \in Versions :
        /\ records'[p][w].deleted = records[p][w].deleted
        /\ records'[p][w].archived = records[p][w].archived
        /\ records[p][w].status # "absent" => records'[p][w].status # "absent"
  BY <1>1, <1>2, <1>4
<1>10. \A p \in Questions :
         /\ lifecycleAudit[p].listed \subseteq Versions
         /\ lifecycleAudit[p].archived \subseteq Versions
  BY DEF TablesInv, TablesTypeOK
<1>11. TrailsMatchRows'
  <2>1. ASSUME NEW p \in Questions, NEW w \in Versions
        PROVE  records'[p][w].status =
                 IF history'[p][w] = <<>> THEN "absent"
                                          ELSE history'[p][w][Len(history'[p][w])].to
    <3>1. CASE <<p, w>> = <<q, v>>
      BY <3>1, <1>4, <1>5, <1>7
    <3>2. CASE <<p, w>> # <<q, v>>
      BY <3>2, <1>2 DEF TablesInv, TrailsMatchRows
    <3>. QED
      BY <3>1, <3>2
  <2>2. ASSUME NEW p \in Questions
        PROVE  /\ \A w \in lifecycleAudit'[p].listed :
                    records'[p][w].deleted = lifecycleAudit'[p].deleted
               /\ \A w \in lifecycleAudit'[p].archived : records'[p][w].archived
    BY <1>9, <1>10 DEF TablesInv, TrailsMatchRows
  <2>. QED
    BY <2>1, <2>2 DEF TrailsMatchRows
<1>12. RegisteredStay
  BY <1>9 DEF RegisteredStay, IsRegistered
<1>13. RegisteredStored'
  BY <1>2 DEF TablesInv, RegisteredStored, IsRegistered
<1>14. ListedRegistered'
  BY <1>9, <1>10 DEF TablesInv, ListedRegistered, IsRegistered
<1>. QED
  BY <1>2, <1>8, <1>11, <1>12, <1>13, <1>14 DEF TablesInv

\* What a request that is to write a version has of it.
LEMMA OwnedCalls ==
  ASSUME QInv, NEW u \in Threads, calls[u].at \in OwningSteps
  PROVE  /\ calls[u].q \in Questions /\ calls[u].v \in Versions
         /\ calls[u].updating \in BOOLEAN
         /\ content[calls[u].q][calls[u].v] # None
         /\ records[calls[u].q][calls[u].v].status = "absent"
BY CallFields DEF QInv, CallsInv, CallsKnow, Knows, IsRegistered

LEMMA RegisterStep ==
  ASSUME QInv, NEW t \in Threads, RegisterRecord(t)
  PROVE  QInv'
<1>1. PICK q \in Questions, v \in Versions : q = calls[t].q /\ v = calls[t].v
  BY OwnedCalls DEF RegisterRecord, At, OwningSteps
<1>2. /\ content' = content /\ lifecycleAudit' = lifecycleAudit /\ Finish(t)
      /\ records' = [records EXCEPT ![q][v].status = "draft"]
      /\ history' = [history EXCEPT ![q][v] = Append(@, [from |-> None, to |-> "draft"])]
  BY <1>1 DEF RegisterRecord
<1>3. calls[t].at \in OwningSteps /\ content[q][v] # None
  BY <1>1, OwnedCalls DEF RegisterRecord, At, OwningSteps
<1>4. /\ TablesInv' /\ RegisteredStay
      /\ \A p \in Questions, w \in Versions :
           <<p, w>> # <<q, v>> => records'[p][w] = records[p][w]
  BY <1>2, <1>3, StatusWritten DEF QInv, Statuses
<1>5. ASSUME NEW u \in Threads \ {t}, calls[u].at \in OwningSteps
      PROVE  <<calls[u].q, calls[u].v>> # <<q, v>>
  BY <1>1, <1>3, <1>5 DEF QInv, CallsInv, OneOwner, Rivals
<1>6. OwnedStay(t)
  BY <1>2, <1>4, <1>5, OwnedCalls DEF OwnedStay
<1>. QED
  BY <1>2, <1>4, <1>6, LastWrite

LEMMA FailStep ==
  ASSUME QInv, NEW t \in Threads, FailRegistration(t)
  PROVE  QInv'
<1>1. UnchangedTables /\ calls[t].at = "qb_register" /\ calls[t] \in QuestionCalls
  BY DEF FailRegistration, At, QInv, CallsInv, Typed, QuestionSteps
<1>2. CASE calls[t].updating
  <2>1. PICK c : c = [calls[t] EXCEPT !.at = "qb_compensate"] /\ Goto(t, c)
    BY <1>2 DEF FailRegistration, Continue
  <2>2. calls[t] \in [at : {"qb_register", "qb_compensate"}, q : Questions, v : Versions,
                      updating : BOOLEAN]
    BY <1>1 DEF QuestionCalls, Idle
  <2>3. /\ c \in QuestionCalls /\ c.at = "qb_compensate"
        /\ c.q = calls[t].q /\ c.v = calls[t].v
    BY <2>1, <2>2 DEF QuestionCalls
  <2>4. Knows(c)
    BY <1>1, <2>3, OwnedCalls DEF Knows, OwningSteps, IsRegistered
  <2>5. \A u \in Threads \ {t} : ~Rivals(c, calls[u])
    BY <1>1, <2>3 DEF QInv, CallsInv, OneOwner, Rivals, OwningSteps
  <2>. QED
    BY <1>1, <2>1, <2>3, <2>4, <2>5, ReadOnly DEF Typed
<1>3. CASE ~calls[t].updating
  BY <1>1, <1>3, LeavingKeepsQInv DEF FailRegistration
<1>. QED
  BY <1>2, <1>3

\* A roll-back takes out what only the request that rolls back has.
LEMMA CompensateStep ==
  ASSUME QInv, NEW t \in Threads, Compensate(t)
  PROVE  QInv'
<1>1. calls[t].at \in OwningSteps
  BY DEF Compensate, At, OwningSteps
<1>2. PICK q \in Questions, v \in Versions : q = calls[t].q /\ v = calls[t].v
  BY <1>1, OwnedCalls
<1>3. /\ content' = [content EXCEPT ![q][v] = None] /\ Finish(t)
      /\ records' = records /\ history' = history /\ lifecycleAudit' = lifecycleAudit
  BY <1>2 DEF Compensate
<1>4. content \in [Questions -> [Versions -> Texts \cup {None}]]
  BY DEF QInv, TablesInv, TablesTypeOK
<1>5. /\ content' \in [Questions -> [Versions -> Texts \cup {None}]]
      /\ \A p \in Questions, w \in Versions :
           <<p, w>> # <<q, v>> => content'[p][w] = content[p][w]
  BY <1>3, <1>4
<1>6. TablesTypeOK' /\ TrailsMatchRows' /\ ListedRegistered'
  BY <1>3, <1>5 DEF QInv, TablesInv, TablesTypeOK, TrailsMatchRows, ListedRegistered,
                    IsRegistered
<1>7. RegisteredStored'
  BY <1>1, <1>2, <1>3, <1>5, OwnedCalls
     DEF QInv, TablesInv, RegisteredStored, IsRegistered
<1>8. RegisteredStay
  BY <1>3 DEF RegisteredStay, IsRegistered
<1>9. ASSUME NEW u \in Threads \ {t}, calls[u].at \in OwningSteps
      PROVE  <<calls[u].q, calls[u].v>> # <<q, v>>
  BY <1>1, <1>2, <1>9 DEF QInv, CallsInv, OneOwner, Rivals
<1>10. OwnedStay(t)
  BY <1>3, <1>5, <1>9, OwnedCalls DEF OwnedStay
<1>. QED
  BY <1>3, <1>6, <1>7, <1>8, <1>10, LastWrite DEF TablesInv

LEMMA StatusReads ==
  ASSUME QInv, NEW t \in Threads, ReadStatus(t)
  PROVE  QInv'
<1>1. PICK q \in Questions : \E v \in Registered(q), edge \in Transitions :
        Goto(t, [at |-> "qb_transition", q |-> q, v |-> v, edge |-> edge])
  BY DEF ReadStatus
<1>. PICK v \in Registered(q), edge \in Transitions :
       Goto(t, [at |-> "qb_transition", q |-> q, v |-> v, edge |-> edge])
  BY <1>1
<1>2. v \in Versions /\ IsRegistered(q, v)
  BY DEF Registered, IsRegistered
<1>3. PICK c : /\ c = [at |-> "qb_transition", q |-> q, v |-> v, edge |-> edge]
               /\ Goto(t, c)
  OBVIOUS
<1>4. c \in QuestionCalls /\ c.at = "qb_transition" /\ c.q = q /\ c.v = v
  BY <1>2, <1>3 DEF QuestionCalls
<1>5. Knows(c) /\ \A d : ~Rivals(c, d)
  BY <1>2, <1>4 DEF Knows, Rivals, OwningSteps
<1>. QED
  BY <1>3, <1>4, <1>5, ReadOnly DEF ReadStatus, Typed

LEMMA WriteStatusStep ==
  ASSUME QInv, NEW t \in Threads, WriteStatus(t)
  PROVE  QInv'
<1>1. PICK q \in Questions, v \in Versions, edge \in Transitions :
        q = calls[t].q /\ v = calls[t].v /\ edge = calls[t].edge
  BY CallFields DEF QInv, CallsInv, WriteStatus, At
<1>2. /\ content' = content /\ lifecycleAudit' = lifecycleAudit /\ Finish(t)
      /\ records' = [records EXCEPT ![q][v].status = edge[2]]
      /\ history' = [history EXCEPT ![q][v] =
                       Append(@, [from |-> edge[1], to |-> edge[2]])]
  BY <1>1 DEF WriteStatus
<1>3. edge[1] \in Statuses /\ edge[2] \in Statuses
  BY DEF Transitions, Statuses
<1>4. IsRegistered(q, v)
  BY <1>1 DEF QInv, CallsInv, CallsKnow, Knows, WriteStatus, At
<1>5. content[q][v] # None
  BY <1>4 DEF QInv, TablesInv, RegisteredStored
<1>6. /\ TablesInv' /\ RegisteredStay
      /\ \A p \in Questions, w \in Versions :
           <<p, w>> # <<q, v>> => records'[p][w] = records[p][w]
  BY <1>2, <1>3, <1>5, StatusWritten DEF QInv
<1>7. OwnedStay(t)
  BY <1>2, <1>4, <1>6, OwnedCalls DEF OwnedStay, IsRegistered
<1>. QED
  BY <1>2, <1>6, <1>7, LastWrite

LEMMA RowsRead ==
  ASSUME QInv, NEW t \in Threads, ReadRows(t)
  PROVE  QInv'
<1>1. PICK q \in Questions, action \in {"soft_delete", "restore", "archive"} :
        Goto(t, [at |-> "qb_flags", q |-> q, action |-> action, rows |-> Registered(q)])
  BY DEF ReadRows
<1>2. PICK c : /\ c = [at |-> "qb_flags", q |-> q, action |-> action,
                       rows |-> Registered(q)]
               /\ Goto(t, c)
  BY <1>1
<1>3. Registered(q) \subseteq Versions /\ \A v \in Registered(q) : IsRegistered(q, v)
  BY DEF Registered, IsRegistered
<1>4. c \in QuestionCalls /\ c.at = "qb_flags" /\ c.q = q /\ c.rows = Registered(q)
  BY <1>2, <1>3 DEF QuestionCalls
<1>5. Knows(c) /\ \A d : ~Rivals(c, d)
  BY <1>3, <1>4 DEF Knows, Rivals, OwningSteps
<1>. QED
  BY <1>2, <1>4, <1>5, ReadOnly DEF ReadRows, Typed

\* A deletion, restoration or archival keeps every status, changes nothing of
\* another question, and marks the registered versions of its own.
LEMMA FlagsWritten ==
  ASSUME QInv, NEW t \in Threads, WriteFlags(t)
  PROVE  /\ \A p \in Questions, w \in Versions : records'[p][w].status = records[p][w].status
         /\ \A p \in Questions \ {calls[t].q} :
              records'[p] = records[p] /\ lifecycleAudit'[p] = lifecycleAudit[p]
         /\ calls[t].q \in Questions /\ calls[t].rows \subseteq Registered(calls[t].q)
         /\ \A w \in Registered(calls[t].q) :
              IF calls[t].action = "archive"
                THEN /\ records'[calls[t].q][w].archived
                     /\ records'[calls[t].q][w].deleted = records[calls[t].q][w].deleted
                ELSE /\ records'[calls[t].q][w].deleted = (calls[t].action = "soft_delete")
                     /\ records'[calls[t].q][w].archived = records[calls[t].q][w].archived
         /\ records' \in [Questions -> [Versions -> QuestionRows]]
<1>. DEFINE q == calls[t].q
            action == calls[t].action
            rows == calls[t].rows
<1>1. q \in Questions /\ rows \subseteq Versions
  BY CallFields DEF QInv, CallsInv, WriteFlags, At
<1>2. rows \subseteq Registered(q)
  BY <1>1 DEF QInv, CallsInv, CallsKnow, Knows, WriteFlags, At, Registered, IsRegistered
<1>. DEFINE flag == action = "soft_delete"
            Flagged(v) ==
              IF action = "archive" THEN [records[q][v] EXCEPT !.archived = TRUE]
                                    ELSE [records[q][v] EXCEPT !.deleted = flag]
            NewRow(v) == IF v \in Registered(q) THEN Flagged(v) ELSE NoRow
            newAudit == IF action = "archive"
                          THEN [lifecycleAudit[q] EXCEPT !.archived = @ \cup rows]
                          ELSE [lifecycleAudit[q] EXCEPT !.deleted = flag, !.listed = rows]
<1>3. /\ records' = [records EXCEPT ![q] = [v \in Versions |-> NewRow(v)]]
      /\ lifecycleAudit' = [lifecycleAudit EXCEPT ![q] = newAudit]
  <2>1. records' = [records EXCEPT ![q] = [v \in Versions |-> NewRow(v)]]
    BY Zenon DEF WriteFlags
  <2>2. lifecycleAudit' = [lifecycleAudit EXCEPT ![q] = newAudit]
    BY Zenon DEF WriteFlags
  <2>. QED
    BY <2>1, <2>2
<1>. HIDE DEF q, action, rows
<1>4. records \in [Questions -> [Versions -> QuestionRows]] /\ DOMAIN lifecycleAudit = Questions
  BY DEF QInv, TablesInv, TablesTypeOK
<1>5. /\ \A w \in Versions : records'[q][w] = NewRow(w)
      /\ \A p \in Questions \ {q} :
           records'[p] = records[p] /\ lifecycleAudit'[p] = lifecycleAudit[p]
  BY <1>1, <1>3, <1>4
<1>6. ASSUME NEW w \in Versions
      PROVE  /\ NewRow(w) \in QuestionRows /\ NewRow(w).status = records[q][w].status
             /\ w \in Registered(q) =>
                  IF action = "archive"
                    THEN NewRow(w).archived /\ NewRow(w).deleted = records[q][w].deleted
                    ELSE NewRow(w).deleted = flag /\ NewRow(w).archived = records[q][w].archived
  <2>1. records[q][w] \in QuestionRows
    BY <1>1, <1>4
  <2>2. CASE w \notin Registered(q)
    BY <2>2 DEF NoRow, QuestionRows, Registered, Statuses
  <2>3. CASE w \in Registered(q)
    <3>1. CASE action = "archive"
      BY <2>1, <2>3, <3>1 DEF QuestionRows
    <3>2. CASE action # "archive"
      BY <2>1, <2>3, <3>2 DEF QuestionRows
    <3>. QED
      BY <3>1, <3>2
  <2>. QED
    BY <2>2, <2>3
<1>. HIDE DEF NewRow, newAudit
<1>7. \A p \in Questions, w \in Versions : records'[p][w].status = records[p][w].status
  BY <1>1, <1>5, <1>6
<1>8. records' \in [Questions -> [Versions -> QuestionRows]]
  BY <1>1, <1>3, <1>4, <1>6
<1>9. \A w \in Registered(q) : w \in Versions
  BY DEF Registered
<1>. QED
  BY <1>1, <1>2, <1>5, <1>6, <1>7, <1>8, <1>9 DEF q, action, rows

LEMMA WriteFlagsStep ==
  ASSUME QInv, NEW t \in Threads, WriteFlags(t)
  PROVE  QInv'
<1>1. /\ \A p \in Questions, w \in Versions : records'[p][w].status = records[p][w].status
      /\ records' \in [Questions -> [Versions -> QuestionRows]]
      /\ content' = content /\ history' = history /\ Finish(t)
  BY FlagsWritten DEF WriteFlags
<1>. DEFINE q == calls[t].q
            action == calls[t].action
            rows == calls[t].rows
<1>2. q \in Questions /\ rows \subseteq Versions
  BY CallFields DEF QInv, CallsInv, WriteFlags, At
<1>. DEFINE flag == action = "soft_delete"
<1>3. /\ \A p \in Questions \ {q} :
           records'[p] = records[p] /\ lifecycleAudit'[p] = lifecycleAudit[p]
      /\ rows \subseteq Registered(q)
      /\ \A w \in Registered(q) :
           IF action = "archive"
             THEN records'[q][w].archived /\ records'[q][w].deleted = records[q][w].deleted
             ELSE records'[q][w].deleted = flag /\ records'[q][w].archived = records[q][w].archived
  BY FlagsWritten
<1>4. lifecycleAudit' = [lifecycleAudit EXCEPT ![q] =
        IF action = "archive"
          THEN [lifecycleAudit[q] EXCEPT !.archived = @ \cup rows]
          ELSE [lifecycleAudit[q] EXCEPT !.deleted = flag, !.listed = rows]]
  BY DEF WriteFlags
<1>. HIDE DEF q, action, rows
<1>5. /\ lifecycleAudit \in [Questions -> [deleted : BOOLEAN, listed : SUBSET Versions,
                                           archived : SUBSET Versions]]
      /\ \A p \in Questions :
           /\ lifecycleAudit[p].listed \subseteq Registered(p)
           /\ lifecycleAudit[p].archived \subseteq Registered(p)
           /\ \A w \in lifecycleAudit[p].listed : records[p][w].deleted = lifecycleAudit[p].deleted
           /\ \A w \in lifecycleAudit[p].archived : records[p][w].archived
  BY DEF QInv, TablesInv, TablesTypeOK, TrailsMatchRows, ListedRegistered, Registered,
         IsRegistered
<1>6. /\ lifecycleAudit' \in [Questions -> [deleted : BOOLEAN, listed : SUBSET Versions,
                                            archived : SUBSET Versions]]
      /\ IF action = "archive"
           THEN /\ lifecycleAudit'[q].deleted = lifecycleAudit[q].deleted
                /\ lifecycleAudit'[q].listed = lifecycleAudit[q].listed
                /\ lifecycleAudit'[q].archived = lifecycleAudit[q].archived \cup rows
           ELSE /\ lifecycleAudit'[q].deleted = flag
                /\ lifecycleAudit'[q].listed = rows
                /\ lifecycleAudit'[q].archived = lifecycleAudit[q].archived
  <2>1. flag \in BOOLEAN
    OBVIOUS
  <2>. HIDE DEF flag
  <2>2. CASE action = "archive"
    BY <2>1, <2>2, <1>2, <1>4, <1>5
  <2>3. CASE action # "archive"
    BY <2>1, <2>3, <1>2, <1>4, <1>5
  <2>. QED
    BY <2>2, <2>3
<1>7. TablesTypeOK'
  BY <1>1, <1>6 DEF QInv, TablesInv, TablesTypeOK
<1>8. RegisteredStored' /\ RegisteredStay
  BY <1>1 DEF QInv, TablesInv, RegisteredStored, RegisteredStay, IsRegistered
<1>9. ASSUME NEW p \in Questions
      PROVE  /\ lifecycleAudit'[p].listed \subseteq Registered(p)
             /\ lifecycleAudit'[p].archived \subseteq Registered(p)
             /\ \A w \in lifecycleAudit'[p].listed :
                  records'[p][w].deleted = lifecycleAudit'[p].deleted
             /\ \A w \in lifecycleAudit'[p].archived : records'[p][w].archived
  <2>1. CASE p # q
    BY <2>1, <1>3, <1>5
  <2>2. CASE p = q /\ action = "archive"
    BY <2>2, <1>3, <1>5, <1>6
  <2>3. CASE p = q /\ action # "archive"
    BY <2>3, <1>3, <1>5, <1>6
  <2>. QED
    BY <2>1, <2>2, <2>3
<1>10. ListedRegistered'
  BY <1>1, <1>9 DEF ListedRegistered, Registered, IsRegistered
<1>11. TrailsMatchRows'
  BY <1>1, <1>9 DEF QInv, TablesInv, TrailsMatchRows
<1>12. OwnedStay(t)
  BY <1>1, OwnedCalls DEF OwnedStay
<1>. QED
  BY <1>1, <1>7, <1>8, <1>10, <1>11, <1>12, LastWrite DEF TablesInv

(* ---- The invariant. ---- *)

LEMMA QInvInit ==
  ASSUME InitCalls, QuestionsInit
  PROVE  QInv
<1>1. \A t \in Threads : calls[t] = Idle
  BY DEF InitCalls
<1>2. CallsInv
  BY <1>1 DEF CallsInv, CallsKnow, Knows, OneOwner, Rivals, OwningSteps, QuestionCalls,
              Idle, InitCalls, Typed
<1>3. NoRow \in QuestionRows
  BY DEF NoRow, QuestionRows
<1>4. TablesTypeOK
  BY <1>3 DEF QuestionsInit, TablesTypeOK
<1>5. TrailsMatchRows /\ RegisteredStored /\ ListedRegistered
  BY DEF QuestionsInit, TrailsMatchRows, RegisteredStored, ListedRegistered, IsRegistered,
         NoRow
<1>. QED
  BY <1>2, <1>4, <1>5 DEF QInv, TablesInv

LEMMA NextKeepsQInv ==
  ASSUME QInv, [QuestionsNext]_questionVars
  PROVE  QInv'
<1>1. CASE UNCHANGED questionVars
  BY <1>1 DEF questionVars, questionTables, QInv, TablesInv, CallsInv, TablesTypeOK,
              TrailsMatchRows, RegisteredStored, ListedRegistered, CallsKnow, Knows,
              OneOwner, IsRegistered, Typed
<1>2. ASSUME NEW t \in Threads, QuestionReview(t)
      PROVE  QInv'
  BY <1>2, CreateStep, UpdateReads, SaveUpdateStep, RegisterStep, FailStep, CompensateStep,
     StatusReads, WriteStatusStep DEF QuestionReview
<1>3. ASSUME NEW t \in Threads, QuestionLifecycle(t)
      PROVE  QInv'
  BY <1>3, RowsRead, WriteFlagsStep DEF QuestionLifecycle
<1>4. ASSUME NEW t \in Threads, QuestionRead(t)
      PROVE  QInv'
  BY <1>4, ListSteps, GetSteps DEF QuestionRead
<1>5. ASSUME NEW t \in Threads, Leave(t), UnchangedTables
      PROVE  QInv'
  BY <1>5, LeavingKeepsQInv DEF Leave
<1>. QED
  BY <1>1, <1>2, <1>3, <1>4, <1>5 DEF QuestionsNext, QuestionStep, QuestionWrite

OnlyQuestions == \A t \in Threads : calls[t].at \in QuestionSteps

\* The question bank takes its requests to its own steps.
LEMMA QuestionStepsGoOn ==
  ASSUME QInv, OnlyQuestions, [QuestionsNext]_questionVars
  PROVE  OnlyQuestions'
<1>. USE DEF QuestionSteps
<1>1. ASSUME NEW t \in Threads, NEW c, Goto(t, c), c.at \in QuestionSteps
      PROVE  OnlyQuestions'
  <2>1. \A u \in Threads : calls'[u] = IF u = t THEN c ELSE calls[u]
    BY <1>1 DEF Goto, QInv, CallsInv
  <2>. QED
    BY <1>1, <2>1 DEF OnlyQuestions
<1>2. ASSUME NEW t \in Threads, Finish(t)
      PROVE  OnlyQuestions'
  BY <1>1, <1>2 DEF Finish, Idle
<1>3. CASE UNCHANGED questionVars
  BY <1>3 DEF OnlyQuestions, questionVars
<1>4. ASSUME NEW t \in Threads, QuestionReview(t)
      PROVE  OnlyQuestions'
  <2>1. CASE RegisterRecord(t) \/ Compensate(t) \/ WriteStatus(t)
    BY <1>2, <2>1 DEF RegisterRecord, Compensate, WriteStatus
  <2>2. CASE CreateQuestion(t)
    BY <1>1, <2>2 DEF CreateQuestion
  <2>3. CASE ReadForUpdate(t)
    BY <1>1, <2>3 DEF ReadForUpdate
  <2>4. CASE SaveUpdate(t)
    BY <1>1, <1>2, <2>4 DEF SaveUpdate
  <2>5. CASE FailRegistration(t)
    <3>1. calls[t] \in [at : {"qb_register", "qb_compensate"}, q : Questions, v : Versions,
                        updating : BOOLEAN]
      BY <2>5 DEF FailRegistration, At, QInv, CallsInv, Typed, QuestionCalls, Idle
    <3>2. [calls[t] EXCEPT !.at = "qb_compensate"].at = "qb_compensate"
      BY <3>1
    <3>. QED
      BY <1>1, <1>2, <2>5, <3>2 DEF FailRegistration, Continue
  <2>6. CASE ReadStatus(t)
    BY <1>1, <2>6 DEF ReadStatus
  <2>. QED
    BY <1>4, <2>1, <2>2, <2>3, <2>4, <2>5, <2>6 DEF QuestionReview
<1>5. ASSUME NEW t \in Threads, QuestionLifecycle(t)
      PROVE  OnlyQuestions'
  BY <1>1, <1>2, <1>5 DEF QuestionLifecycle, ReadRows, WriteFlags
<1>6. ASSUME NEW t \in Threads, QuestionRead(t)
      PROVE  OnlyQuestions'
  <2>1. CASE ListStatuses(t) \/ ListLifecycles(t) \/ ListContents(t)
    BY <1>1, <2>1 DEF ListStatuses, ListLifecycles, ListContents
  <2>2. CASE GetContent(t) \/ GetStatus(t)
    BY <1>1, <2>2 DEF GetContent, GetStatus
  <2>3. CASE GetLifecycle(t)
    <3>1. calls[t].purpose \in {"read", "explain"}
      BY <2>3, CallFields DEF GetLifecycle, At, QInv, CallsInv
    <3>2. \/ Finish(t)
          \/ Goto(t, [at |-> "get_answered", cite |-> calls[t].cite])
          \/ Goto(t, [at |-> "ai_asked", cites |-> {calls[t].cite}, single |-> TRUE])
      BY <2>3, <3>1 DEF GetLifecycle
    <3>. QED
      BY <1>1, <1>2, <3>2
  <2>. QED
    BY <1>6, <2>1, <2>2, <2>3 DEF QuestionRead
<1>7. ASSUME NEW t \in Threads, Leave(t)
      PROVE  OnlyQuestions'
  BY <1>2, <1>7 DEF Leave
<1>. QED
  BY <1>3, <1>4, <1>5, <1>6, <1>7 DEF QuestionsNext, QuestionStep, QuestionWrite

\* The question bank keeps to its types, for any questions and bounds: what a
\* request carries from one store to the other is a version the model has.
THEOREM QuestionsTypeCorrect == QuestionsSpec => []QuestionsTypeOK
<1>1. InitCalls /\ QuestionsInit => QInv /\ OnlyQuestions
  <2>1. InitCalls => OnlyQuestions
    BY DEF InitCalls, OnlyQuestions, Idle, QuestionSteps
  <2>. QED
    BY <2>1, QInvInit
<1>2. QInv /\ OnlyQuestions /\ [QuestionsNext]_questionVars => (QInv /\ OnlyQuestions)'
  BY NextKeepsQInv, QuestionStepsGoOn
<1>3. QInv /\ OnlyQuestions => QuestionsTypeOK
  BY DEF QInv, TablesInv, CallsInv, OnlyQuestions, Typed, QuestionsTypeOK
<1>. QED
  BY <1>1, <1>2, <1>3, PTL DEF QuestionsSpec

\* The status history and the lifecycle audit tell what the rows show, however
\* reviews, deletions, restorations, archivals and registrations of any
\* number of requests overlap (_transition, delete_question, restore_question
\* and archive_question, service.py).
THEOREM TrailsAlwaysMatch == QuestionsSpec => []TrailsMatchRows
<1>1. InitCalls /\ QuestionsInit => QInv
  BY QInvInit
<1>2. QInv /\ [QuestionsNext]_questionVars => QInv'
  BY NextKeepsQInv
<1>3. QInv => TrailsMatchRows
  BY DEF QInv, TablesInv
<1>. QED
  BY <1>1, <1>2, <1>3, PTL DEF QuestionsSpec

(* ---- The refinement of QuestionArchive. ---- *)

\* A step that registers nothing, and writes content only of versions that are
\* not registered, is no step of the archive.
LEMMA ArchiveStays ==
  ASSUME \A q \in Questions, v \in Versions :
           /\ IsRegistered(q, v)' <=> IsRegistered(q, v)
           /\ IsRegistered(q, v) => content'[q][v] = content[q][v]
  PROVE  Archived' = Archived
<1>. DEFINE Old(k) == IF records[k[1]][k[2]].status = "absent" THEN None
                                                               ELSE content[k[1]][k[2]]
            New(k) == IF records'[k[1]][k[2]].status = "absent" THEN None
                                                                ELSE content'[k[1]][k[2]]
<1>1. \A k \in QuestionKeys : New(k) = Old(k)
  BY KeyFields DEF IsRegistered
<1>2. [k \in QuestionKeys |-> New(k)] = [k \in QuestionKeys |-> Old(k)]
  BY <1>1
<1>. QED
  BY <1>2 DEF Archived

LEMMA SavingIsNoArchiveStep ==
  ASSUME QInv, NEW q \in Questions, NEW v \in Versions, NEW x, SaveContent(q, v, x)
  PROVE  Archived' = Archived
<1>1. /\ content[q][v] = None /\ content' = [content EXCEPT ![q][v] = x]
      /\ records' = records
  BY DEF SaveContent
<1>2. content \in [Questions -> [Versions -> Texts \cup {None}]]
  BY DEF QInv, TablesInv, TablesTypeOK
<1>3. ~IsRegistered(q, v)
  BY <1>1 DEF QInv, TablesInv, RegisteredStored
<1>4. \A p \in Questions, w \in Versions :
        IsRegistered(p, w) => content'[p][w] = content[p][w]
  BY <1>1, <1>2, <1>3
<1>. QED
  BY <1>1, <1>4, ArchiveStays DEF IsRegistered

LEMMA RollingBackIsNoArchiveStep ==
  ASSUME QInv, NEW t \in Threads, Compensate(t)
  PROVE  Archived' = Archived
<1>1. PICK q \in Questions, v \in Versions : q = calls[t].q /\ v = calls[t].v
  BY OwnedCalls DEF Compensate, At, OwningSteps
<1>2. /\ content' = [content EXCEPT ![q][v] = None] /\ records' = records
  BY <1>1 DEF Compensate
<1>3. content \in [Questions -> [Versions -> Texts \cup {None}]]
  BY DEF QInv, TablesInv, TablesTypeOK
<1>4. ~IsRegistered(q, v)
  BY <1>1, OwnedCalls DEF Compensate, At, OwningSteps, IsRegistered
<1>5. \A p \in Questions, w \in Versions :
        IsRegistered(p, w) => content'[p][w] = content[p][w]
  BY <1>2, <1>3, <1>4
<1>. QED
  BY <1>2, <1>5, ArchiveStays DEF IsRegistered

LEMMA ReviewingIsNoArchiveStep ==
  ASSUME QInv, NEW t \in Threads, WriteStatus(t)
  PROVE  Archived' = Archived
<1>1. PICK q \in Questions, v \in Versions, edge \in Transitions :
        q = calls[t].q /\ v = calls[t].v /\ edge = calls[t].edge
  BY CallFields DEF QInv, CallsInv, WriteStatus, At
<1>2. content' = content /\ records' = [records EXCEPT ![q][v].status = edge[2]]
  BY <1>1 DEF WriteStatus
<1>3. edge[2] # "absent"
  BY DEF Transitions
<1>4. IsRegistered(q, v)
  BY <1>1 DEF QInv, CallsInv, CallsKnow, Knows, WriteStatus, At
<1>5. records \in [Questions -> [Versions -> QuestionRows]]
  BY DEF QInv, TablesInv, TablesTypeOK
<1>6. \A p \in Questions, w \in Versions :
        <<p, w>> # <<q, v>> => records'[p][w] = records[p][w]
  BY <1>2, <1>5
<1>7. records'[q][v] = [records[q][v] EXCEPT !.status = edge[2]]
  BY <1>2, <1>5
<1>8. records'[q][v].status # "absent"
  BY <1>3, <1>5, <1>7 DEF QuestionRows
<1>9. \A p \in Questions, w \in Versions : IsRegistered(p, w)' <=> IsRegistered(p, w)
  BY <1>4, <1>6, <1>8 DEF IsRegistered
<1>. QED
  BY <1>2, <1>9, ArchiveStays

\* A registration brings its version into the archive, with its content.
LEMMA RegisteringCommits ==
  ASSUME QInv, NEW t \in Threads, RegisterRecord(t)
  PROVE  Archive!Next
<1>1. PICK q \in Questions, v \in Versions : q = calls[t].q /\ v = calls[t].v
  BY OwnedCalls DEF RegisterRecord, At, OwningSteps
<1>2. /\ content' = content
      /\ records' = [records EXCEPT ![q][v].status = "draft"]
      /\ records[q][v].status = "absent"
  BY <1>1 DEF RegisterRecord
<1>3. content[q][v] # None
  BY <1>1, OwnedCalls DEF RegisterRecord, At, OwningSteps
<1>4. content[q][v] \in Texts
  BY <1>3 DEF QInv, TablesInv, TablesTypeOK
<1>5. records \in [Questions -> [Versions -> QuestionRows]]
  BY DEF QInv, TablesInv, TablesTypeOK
<1>6. \A p \in Questions, w \in Versions :
        <<p, w>> # <<q, v>> => records'[p][w] = records[p][w]
  BY <1>2, <1>5
<1>7. records'[q][v] = [records[q][v] EXCEPT !.status = "draft"]
  BY <1>2, <1>5
<1>8. records'[q][v].status # "absent"
  BY <1>5, <1>7 DEF QuestionRows
<1>. DEFINE key == <<q, v>>
            Old(k) == IF records[k[1]][k[2]].status = "absent" THEN None
                                                               ELSE content[k[1]][k[2]]
            New(k) == IF records'[k[1]][k[2]].status = "absent" THEN None
                                                                ELSE content'[k[1]][k[2]]
<1>9. key \in QuestionKeys /\ key[1] = q /\ key[2] = v
  BY DEF QuestionKeys
<1>10. Old(key) = None /\ New(key) = content[q][v]
  BY <1>2, <1>8, <1>9
<1>11. \A k \in QuestionKeys : k # key => <<k[1], k[2]>> # <<q, v>>
  BY DEF QuestionKeys
<1>12. \A k \in QuestionKeys : k # key => New(k) = Old(k)
  BY <1>2, <1>6, <1>11, KeyFields
<1>13. /\ Archived = [k \in QuestionKeys |-> Old(k)]
       /\ Archived' = [k \in QuestionKeys |-> New(k)]
  BY DEF Archived
<1>. HIDE DEF Old, New, key
<1>14. /\ Archived[key] = None
       /\ Archived' = [Archived EXCEPT ![key] = content[q][v]]
       /\ Archived' # Archived
  BY <1>3, <1>9, <1>10, <1>12, <1>13
<1>. QED
  BY <1>4, <1>9, <1>14 DEF Archive!Next, Archive!Commit

LEMMA ArchiveStep ==
  ASSUME QInv, [QuestionsNext]_questionVars
  PROVE  Archive!Next \/ UNCHANGED Archived
<1>1. ASSUME records' = records, content' = content
      PROVE  Archived' = Archived
  BY <1>1, ArchiveStays DEF IsRegistered
<1>2. ASSUME UnchangedTables
      PROVE  Archived' = Archived
  BY <1>1, <1>2 DEF UnchangedTables, questionTables
<1>3. CASE UNCHANGED questionVars
  BY <1>1, <1>3 DEF questionVars, questionTables
<1>4. ASSUME NEW t \in Threads, QuestionReview(t)
      PROVE  Archive!Next \/ UNCHANGED Archived
  <2>1. CASE CreateQuestion(t)
    BY <2>1, SavingIsNoArchiveStep DEF CreateQuestion
  <2>2. CASE SaveUpdate(t)
    <3>1. PICK q \in Questions, v \in Versions, x \in Texts :
            q = calls[t].q /\ v = calls[t].v /\ x = calls[t].text
      BY <2>2, CallFields DEF QInv, CallsInv, SaveUpdate, At
    <3>2. SaveContent(q, v, x) \/ UnchangedTables
      BY <2>2, <3>1 DEF SaveUpdate
    <3>. QED
      BY <1>2, <3>2, SavingIsNoArchiveStep
  <2>3. CASE RegisterRecord(t)
    BY <2>3, RegisteringCommits
  <2>4. CASE Compensate(t)
    BY <2>4, RollingBackIsNoArchiveStep
  <2>5. CASE WriteStatus(t)
    BY <2>5, ReviewingIsNoArchiveStep
  <2>6. CASE ReadForUpdate(t) \/ FailRegistration(t) \/ ReadStatus(t)
    BY <1>2, <2>6 DEF ReadForUpdate, FailRegistration, ReadStatus
  <2>. QED
    BY <1>4, <2>1, <2>2, <2>3, <2>4, <2>5, <2>6 DEF QuestionReview
<1>5. ASSUME NEW t \in Threads, QuestionLifecycle(t)
      PROVE  Archived' = Archived
  <2>1. CASE ReadRows(t)
    BY <1>2, <2>1 DEF ReadRows
  <2>2. CASE WriteFlags(t)
    <3>1. \A p \in Questions, w \in Versions : records'[p][w].status = records[p][w].status
      BY <2>2, FlagsWritten
    <3>2. content' = content
      BY <2>2 DEF WriteFlags
    <3>. QED
      BY <3>1, <3>2, ArchiveStays DEF IsRegistered
  <2>. QED
    BY <1>5, <2>1, <2>2 DEF QuestionLifecycle
<1>6. ASSUME NEW t \in Threads, QuestionRead(t)
      PROVE  Archived' = Archived
  BY <1>2, <1>6 DEF QuestionRead, ListStatuses, ListLifecycles, ListContents, GetContent,
                    GetStatus, GetLifecycle
<1>. QED
  BY <1>2, <1>3, <1>4, <1>5, <1>6 DEF QuestionsNext, QuestionStep, QuestionWrite

LEMMA ArchiveStart ==
  ASSUME InitCalls, QuestionsInit
  PROVE  Archived = Archive!Empty
<1>1. \A q \in Questions, v \in Versions : records[q][v].status = "absent"
  BY DEF QuestionsInit, NoRow
<1>2. \A k \in QuestionKeys : records[k[1]][k[2]].status = "absent"
  BY <1>1, KeyFields
<1>. QED
  BY <1>2 DEF Archived, Archive!Empty

\* The question bank implements QuestionArchive: although the content is in a
\* file and its registration in the database, with no transaction over the two,
\* a version enters the archive once, with its content, and no rival creation,
\* failed update or roll-back changes it or takes it out again.
THEOREM ArchiveIsKept == QuestionsSpec => ArchiveKept
<1>1. InitCalls /\ QuestionsInit => QInv
  BY QInvInit
<1>2. QInv /\ [QuestionsNext]_questionVars => QInv'
  BY NextKeepsQInv
<1>3. InitCalls /\ QuestionsInit => Archived = Archive!Empty
  BY ArchiveStart
<1>4. QInv /\ [QuestionsNext]_questionVars => [Archive!Next]_Archived
  BY ArchiveStep
<1>. QED
  BY <1>1, <1>2, <1>3, <1>4, PTL DEF QuestionsSpec, ArchiveKept, Archive!Spec

(* ---- The joint and the torque recommended for it. ---- *)

Load(i) == IF i.load = None THEN 0 ELSE i.load
Stiff(i) == i.bolt # None /\ i.joint # None
Share(i) == (i.bolt * Load(i)) \div (i.bolt + i.joint)
Known(i) == i.thread # None /\ i.rp02 # None /\ i.ratio # None
Preload(i) == (i.rp02 * i.ratio) \div Whole

\* Scaling keeps an order.
LEMMA Scaled ==
  ASSUME NEW s \in Int, s > 0, NEW x \in Int, NEW y \in Int, x <= y
  PROVE  x * s <= y * s
OBVIOUS

\* A share that comes out even is worth its part of the whole.
LEMMA WholeShare ==
  ASSUME NEW b \in Int, b > 0, NEW j \in Int, j > 0, NEW l \in Int, (b * l) % (b + j) = 0
  PROVE  /\ (b * l) \div (b + j) \in Int
         /\ ((b * l) \div (b + j)) * (b + j) = b * l
         /\ l >= 0 => (b * l) \div (b + j) >= 0
<1>. DEFINE n == b * l
            s == b + j
<1>1. n \in Int /\ s \in Int /\ s > 0 /\ (l >= 0 => n >= 0)
  OBVIOUS
<1>. HIDE DEF n, s
<1>2. n % s = 0 => (n \div s) * s = n /\ n \div s \in Int
  BY <1>1
<1>3. n >= 0 => n \div s >= 0
  BY <1>1
<1>. QED
  BY <1>1, <1>2, <1>3 DEF n, s

\* A preload is a number of its own, rounded down.
LEMMA PreloadNat ==
  ASSUME NEW r \in Magnitudes, NEW k \in Magnitudes
  PROVE  (r * k) \div Whole \in Nat
<1>. DEFINE n == r * k
<1>1. n \in Nat
  BY DEF Magnitudes
<1>. HIDE DEF n
<1>2. n \div Whole \in Nat
  BY <1>1, InputsAssumption DEF Magnitudes
<1>. QED
  BY <1>2 DEF n

\* An input a request may have, whether or not one has it.
Asked(i) ==
  /\ i \in Requested
  /\ i.bolt # None /\ i.joint # None /\ i.load # None
       => (i.bolt * i.load) % (i.bolt + i.joint) = 0

\* What the quantities are worked out from.
LEMMA InputTypes ==
  ASSUME NEW i, Asked(i)
  PROVE  /\ i \in Requested
         /\ Load(i) \in Int
         /\ Stiff(i) => /\ i.bolt \in Magnitudes /\ i.joint \in Magnitudes
                        /\ Share(i) \in Int
                        /\ Share(i) * (i.bolt + i.joint) = i.bolt * Load(i)
                        /\ Load(i) >= 0 => Share(i) >= 0
         /\ Known(i) => i.rp02 \in Magnitudes /\ i.ratio \in Magnitudes /\ Preload(i) \in Nat
<1>1. i \in Requested
  BY DEF Asked
<1>2. Load(i) \in Int
  BY <1>1, InputsAssumption DEF Load, Requested
<1>3. ASSUME Stiff(i)
      PROVE  /\ i.bolt \in Magnitudes /\ i.joint \in Magnitudes
             /\ (i.bolt * Load(i)) % (i.bolt + i.joint) = 0
  <2>1. i.bolt \in Magnitudes /\ i.joint \in Magnitudes
    BY <1>1, <1>3 DEF Requested, Stiff
  <2>2. CASE i.load = None
    <3>1. Load(i) = 0
      BY <2>2 DEF Load
    <3>2. i.bolt * 0 = 0 /\ 0 % (i.bolt + i.joint) = 0
      BY <2>1 DEF Magnitudes
    <3>. QED
      BY <2>1, <3>1, <3>2
  <2>3. CASE i.load # None
    BY <1>3, <2>1, <2>3 DEF Asked, Load, Stiff
  <2>. QED
    BY <2>1, <2>2, <2>3
<1>4. Stiff(i) => /\ Share(i) \in Int
                  /\ Share(i) * (i.bolt + i.joint) = i.bolt * Load(i)
                  /\ Load(i) >= 0 => Share(i) >= 0
  BY <1>2, <1>3, WholeShare DEF Share, Magnitudes
<1>5. Known(i) => i.rp02 \in Magnitudes /\ i.ratio \in Magnitudes /\ Preload(i) \in Nat
  BY <1>1, PreloadNat DEF Known, Requested, Preload
<1>. QED
  BY <1>1, <1>2, <1>3, <1>4, <1>5

\* The quantities of an input, one by one.
LEMMA QuantityFields ==
  ASSUME NEW i, Asked(i)
  PROVE  LET q == Quantities(i)
             geometry == i.thread # None /\ i.friction
         IN  /\ q.area = (i.thread # None)
             /\ q.bolt = (i.bolt # None) /\ q.joint = (i.joint # None)
             /\ q.phi = Stiff(i)
             /\ q.preload = (IF Known(i) THEN Preload(i) ELSE None)
             /\ q.residual = (IF Stiff(i) /\ Known(i) THEN Preload(i) - (Load(i) - Share(i))
                                                      ELSE None)
             /\ q.torque = (IF Known(i) /\ i.friction THEN Preload(i) ELSE None)
             /\ q.from_torque = (IF geometry THEN i.applied ELSE None)
             /\ q.lower = (IF ~geometry \/ i.clamp = None THEN None
                           ELSE IF Stiff(i) THEN i.clamp + Load(i) - Share(i) ELSE i.clamp)
             /\ q.upper = (IF geometry /\ i.rp02 # None /\ i.max_ratio # None
                             THEN (i.rp02 * i.max_ratio) \div Whole ELSE None)
<1>. DEFINE q == Quantities(i)
<1>1. /\ q.area = (i.thread # None)
      /\ q.bolt = (i.bolt # None) /\ q.joint = (i.joint # None)
      /\ q.phi = Stiff(i)
      /\ q.from_torque = (IF i.thread # None /\ i.friction THEN i.applied ELSE None)
  BY DEF Quantities, Stiff
<1>2. /\ q.preload = (IF Known(i) THEN Preload(i) ELSE None)
      /\ q.torque = (IF Known(i) /\ i.friction THEN Preload(i) ELSE None)
  BY DEF Quantities, Known, Preload, TargetPreload
<1>3. Known(i) => Preload(i) # None
  BY InputTypes, InputsAssumption
<1>4. q.residual = (IF Stiff(i) /\ Known(i) THEN Preload(i) - (Load(i) - Share(i)) ELSE None)
  BY <1>3 DEF Quantities, Stiff, Known, Preload, Load, Share, TargetPreload
<1>5. q.lower = (IF ~(i.thread # None /\ i.friction) \/ i.clamp = None THEN None
                 ELSE IF Stiff(i) THEN i.clamp + Load(i) - Share(i) ELSE i.clamp)
  BY DEF Quantities, Stiff, Load, Share
<1>6. q.upper = (IF i.thread # None /\ i.friction /\ i.rp02 # None /\ i.max_ratio # None
                   THEN (i.rp02 * i.max_ratio) \div Whole ELSE None)
  BY DEF Quantities, TargetPreload
<1>. QED
  BY <1>1, <1>2, <1>4, <1>5, <1>6

Service(i) == IF ~Known(i) THEN None ELSE IF Stiff(i) THEN Preload(i) + Share(i) ELSE Preload(i)

\* The service load is judged where it is known.
LEMMA SafetyFields ==
  ASSUME NEW i, Asked(i)
  PROVE  LET q == Quantities(i)
         IN  /\ q.safety = EvaluateSafety(Service(i), i.rp02, i.fail, i.warn)
             /\ q.used = (IF q.safety \in {"pass", "warn", "fail"} THEN Service(i) ELSE None)
BY InputTypes, InputsAssumption
   DEF Quantities, Stiff, Known, Preload, Load, Share, TargetPreload, Service

\* A torque is recommended where it can be worked out and nothing is found.
LEMMA RecommendedIff ==
  ASSUME NEW i
  PROVE  LET q == Quantities(i)
             r == Recommendation(i)
         IN  /\ r.status \in {"recommended", "not_applicable"}
             /\ r.status = "recommended" <=>
                  CriticalFindings(q) = {} /\ q.torque # None /\ Readiness(q) # "insufficient_data"
             /\ r.torque = (IF r.status = "recommended" THEN q.torque ELSE None)
             /\ r.findings = CriticalFindings(q)
             /\ r.confidence # "HIGH"
             /\ r.status = "recommended" =>
                  r.confidence = (IF Readiness(q) = "full" THEN "MEDIUM" ELSE "LOW")
             /\ r.status # "recommended" => r.confidence = "NOT_APPLICABLE"
<1>. DEFINE q == Quantities(i)
<1>1. Provisional(q) # {}
  BY DEF Provisional
<1>2. Recommendation(i) = [status |-> IF Classify(q) = "NOT_APPLICABLE" THEN "not_applicable" ELSE "recommended",
        confidence |-> Classify(q), calculated |-> q.torque,
        torque |-> IF (IF Classify(q) = "NOT_APPLICABLE" THEN "not_applicable" ELSE "recommended") = "recommended"
                     THEN q.torque ELSE None,
        findings |-> CriticalFindings(q), readiness |-> Readiness(q)]
  BY DEF Recommendation
<1>3. Classify(q) = IF CriticalFindings(q) # {} \/ q.torque = None \/ Readiness(q) = "insufficient_data"
                      THEN "NOT_APPLICABLE"
                      ELSE IF Readiness(q) = "full" THEN "MEDIUM" ELSE "LOW"
  BY <1>1 DEF Classify
<1>. HIDE DEF q
<1>4. QED
  BY <1>2, <1>3 DEF q

\* What each finding says of the quantities.
LEMMA FindingsIff ==
  ASSUME NEW q
  PROVE  /\ "residual_clamp_load_negative" \in CriticalFindings(q) <=>
              q.residual # None /\ q.residual < 0
         /\ "torque_window_inverted" \in CriticalFindings(q) <=>
              None \notin {q.lower, q.upper} /\ q.lower > q.upper
         /\ "yield_utilization_fail" \in CriticalFindings(q) <=> q.safety = "fail"
         /\ \A f \in CriticalFindings(q) :
              f \in {"residual_clamp_load_negative", "torque_window_inverted",
                     "yield_utilization_fail"}
BY DEF CriticalFindings

\* A recommended torque holds on its inputs: no finding, multiplied by the stiffness.
LEMMA HoldsOnInputs ==
  ASSUME NEW i, Asked(i)
  PROVE  RecommendedHolds(i)
<1>. SUFFICES ASSUME Recommendation(i).status = "recommended"
              PROVE  LET stiff == None \notin {i.bolt, i.joint}
                         opening == IF stiff THEN i.joint * Load(i) ELSE 0
                         scale == IF stiff THEN i.bolt + i.joint ELSE 1
                         service == Preload(i) * scale + (IF stiff THEN i.bolt * Load(i) ELSE 0)
                     IN  /\ {i.thread, i.rp02, i.ratio} \cap {None} = {} /\ i.friction
                         /\ stiff => Preload(i) * scale >= opening
                         /\ None \notin {i.clamp, i.max_ratio} =>
                              i.clamp * scale + opening <= ((i.rp02 * i.max_ratio) \div Whole) * scale
                         /\ i.fail # None /\ (i.warn = None \/ i.warn < i.fail) /\ service >= 0 =>
                              service * Whole <= i.fail * i.rp02 * scale
  BY DEF RecommendedHolds, Load, Preload
<1>. DEFINE q == Quantities(i)
<1>1. CriticalFindings(q) = {} /\ q.torque # None
  BY RecommendedIff
<1>2. Known(i) /\ i.friction
  BY <1>1, QuantityFields
<1>3. /\ i \in Requested /\ Load(i) \in Int /\ Preload(i) \in Nat /\ i.rp02 \in Magnitudes
      /\ Stiff(i) => /\ i.bolt \in Magnitudes /\ i.joint \in Magnitudes /\ Share(i) \in Int
                     /\ Share(i) * (i.bolt + i.joint) = i.bolt * Load(i)
  BY <1>2, InputTypes
<1>4. PICK scale \in Int : scale = IF Stiff(i) THEN i.bolt + i.joint ELSE 1
  BY <1>3 DEF Magnitudes
<1>5. scale > 0
  BY <1>3, <1>4 DEF Magnitudes
<1>6. Stiff(i) => Preload(i) * scale >= i.joint * Load(i)
  <2>. SUFFICES ASSUME Stiff(i) PROVE Preload(i) * scale >= i.joint * Load(i)
    OBVIOUS
  <2>1. Preload(i) - (Load(i) - Share(i)) >= 0
    BY <1>1, <1>2, <1>3, QuantityFields, FindingsIff, InputsAssumption
  <2>2. (Load(i) - Share(i)) * scale <= Preload(i) * scale
    BY <2>1, <1>3, <1>5, Scaled
  <2>3. Load(i) * scale = i.bolt * Load(i) + i.joint * Load(i)
    BY <1>3, <1>4 DEF Magnitudes
  <2>4. (Load(i) - Share(i)) * scale = Load(i) * scale - Share(i) * scale
    BY <1>3
  <2>. QED
    BY <2>2, <2>3, <2>4, <1>3, <1>4 DEF Magnitudes
<1>7. ASSUME i.clamp # None, i.max_ratio # None
      PROVE  i.clamp * scale + (IF Stiff(i) THEN i.joint * Load(i) ELSE 0)
               <= ((i.rp02 * i.max_ratio) \div Whole) * scale
  <2>1. PICK upper \in Nat : upper = (i.rp02 * i.max_ratio) \div Whole
    BY <1>3, <1>7, PreloadNat DEF Requested
  <2>2. i.clamp \in Nat
    BY <1>3, <1>7 DEF Requested
  <2>3. PICK lower \in Int : lower = IF Stiff(i) THEN i.clamp + Load(i) - Share(i) ELSE i.clamp
    BY <2>2, <1>3
  <2>4. q.lower = lower /\ q.upper = upper
    BY <2>1, <2>3, <1>2, <1>7, QuantityFields, InputsAssumption DEF Known
  <2>5. lower <= upper
    BY <2>4, <1>1, FindingsIff, InputsAssumption
  <2>6. lower * scale <= upper * scale
    BY <2>5, <1>5, Scaled
  <2>7. Stiff(i) => lower * scale = i.clamp * scale + Load(i) * scale - Share(i) * scale
    BY <2>2, <2>3, <1>3
  <2>8. Stiff(i) => Load(i) * scale = i.bolt * Load(i) + i.joint * Load(i)
    BY <1>3, <1>4 DEF Magnitudes
  <2>9. i.clamp * scale \in Int /\ Load(i) * scale \in Int
    BY <2>2, <1>3
  <2>10. CASE Stiff(i)
    <3>1. i.bolt * Load(i) \in Int /\ i.joint * Load(i) \in Int
      BY <2>10, <1>3 DEF Magnitudes
    <3>2. Share(i) * scale = i.bolt * Load(i)
      BY <2>10, <1>3, <1>4
    <3>. QED
      BY <2>10, <3>1, <3>2, <2>6, <2>7, <2>8, <2>9, <2>1
  <2>11. CASE ~Stiff(i)
    BY <2>11, <2>3, <2>6, <2>1, <2>9
  <2>. QED
    BY <2>10, <2>11
<1>8. ASSUME i.fail # None, i.warn = None \/ i.warn < i.fail,
             Preload(i) * scale + (IF Stiff(i) THEN i.bolt * Load(i) ELSE 0) >= 0
      PROVE  (Preload(i) * scale + (IF Stiff(i) THEN i.bolt * Load(i) ELSE 0)) * Whole
               <= i.fail * i.rp02 * scale
  <2>1. PICK stress \in Int : stress = IF Stiff(i) THEN Preload(i) + Share(i) ELSE Preload(i)
    BY <1>3
  <2>2. stress * scale = Preload(i) * scale + (IF Stiff(i) THEN i.bolt * Load(i) ELSE 0)
    <3>1. CASE Stiff(i)
      BY <3>1, <2>1, <1>3, <1>4
    <3>2. CASE ~Stiff(i)
      BY <3>2, <2>1, <1>3, <1>4
    <3>. QED
      BY <3>1, <3>2
  <2>3. stress >= 0
    <3>1. stress * scale >= 0
      BY <2>2, <1>8
    <3>. QED
      BY <3>1, <1>5
  <2>4. Service(i) = stress
    BY <2>1, <1>2 DEF Service
  <2>5. i.fail \in Magnitudes /\ Whole \in Magnitudes
    BY <1>3, <1>8, InputsAssumption DEF Requested
  <2>6. q.safety # "fail"
    BY <1>1, FindingsIff
  <2>7. EvaluateSafety(stress, i.rp02, i.fail, i.warn) # "fail"
    BY <2>4, <2>6, SafetyFields
  <2>8. None \notin {stress, i.rp02, i.fail}
    BY <1>3, <2>5, InputsAssumption DEF Magnitudes
  <2>9. i.warn = None \/ i.warn \in Magnitudes
    BY <1>3 DEF Requested
  <2>10. ~(stress * Whole > i.fail * i.rp02)
    BY <2>3, <2>7, <2>8, <2>9, <1>8, <2>5 DEF EvaluateSafety, Magnitudes
  <2>11. stress * Whole <= i.fail * i.rp02
    BY <2>10, <2>5, <1>3 DEF Magnitudes
  <2>12. (stress * Whole) * scale <= (i.fail * i.rp02) * scale
    BY <2>11, <2>5, <1>3, <1>5, Scaled DEF Magnitudes
  <2>13. (stress * Whole) * scale = (stress * scale) * Whole
    BY <2>5 DEF Magnitudes
  <2>. QED
    BY <2>2, <2>12, <2>13
<1>. QED
  BY <1>2, <1>4, <1>6, <1>7, <1>8 DEF Known, Stiff

Bounds == {"clamp", "max_ratio", "fail", "applied"}

\* Without a bound an input is what it was but for that bound.
LEMMA WithoutBound ==
  ASSUME NEW i, Asked(i), NEW bound \in Bounds
  PROVE  LET w == [i EXCEPT ![bound] = None]
         IN  /\ Asked(w)
             /\ w.thread = i.thread /\ w.friction = i.friction /\ w.rp02 = i.rp02
             /\ w.ratio = i.ratio /\ w.bolt = i.bolt /\ w.joint = i.joint
             /\ w.load = i.load /\ w.warn = i.warn
             /\ w.clamp \in {i.clamp, None} /\ w.max_ratio \in {i.max_ratio, None}
             /\ w.fail \in {i.fail, None} /\ w.applied \in {i.applied, None}
<1>. DEFINE w == [i EXCEPT ![bound] = None]
<1>1. w \in Requested
  <2>1. CASE bound = "clamp"
    BY <2>1 DEF Asked, Requested
  <2>2. CASE bound = "max_ratio"
    BY <2>2 DEF Asked, Requested
  <2>3. CASE bound = "fail"
    BY <2>3 DEF Asked, Requested
  <2>4. CASE bound = "applied"
    BY <2>4 DEF Asked, Requested
  <2>. QED
    BY <2>1, <2>2, <2>3, <2>4 DEF Bounds
<1>2. /\ w.thread = i.thread /\ w.friction = i.friction /\ w.rp02 = i.rp02
      /\ w.ratio = i.ratio /\ w.bolt = i.bolt /\ w.joint = i.joint
      /\ w.load = i.load /\ w.warn = i.warn
      /\ w.clamp \in {i.clamp, None} /\ w.max_ratio \in {i.max_ratio, None}
      /\ w.fail \in {i.fail, None} /\ w.applied \in {i.applied, None}
  BY DEF Asked, Requested, Bounds
<1>. HIDE DEF w
<1>3. Asked(w)
  BY <1>1, <1>2 DEF Asked
<1>. QED
  BY <1>2, <1>3 DEF w

\* What is worked out without a bound is worked out with it, and alike.
LEMMA LessIsWorkedOut ==
  ASSUME NEW i, Asked(i), NEW bound \in Bounds
  PROVE  LET q == Quantities(i)
             p == Quantities([i EXCEPT ![bound] = None])
         IN  /\ p.area = q.area /\ p.bolt = q.bolt /\ p.joint = q.joint /\ p.phi = q.phi
             /\ p.preload = q.preload /\ p.residual = q.residual /\ p.torque = q.torque
             /\ p.from_torque \in {q.from_torque, None}
             /\ p.lower \in {q.lower, None} /\ p.upper \in {q.upper, None}
             /\ p.used \in {q.used, None}
             /\ p.safety = "fail" => q.safety = "fail"
<1>. PICK w : w = [i EXCEPT ![bound] = None]
  OBVIOUS
<1>. PICK q : q = Quantities(i)
  OBVIOUS
<1>. PICK p : p = Quantities(w)
  OBVIOUS
<1>1. /\ Asked(w)
      /\ w.thread = i.thread /\ w.friction = i.friction /\ w.rp02 = i.rp02
      /\ w.ratio = i.ratio /\ w.bolt = i.bolt /\ w.joint = i.joint
      /\ w.load = i.load /\ w.warn = i.warn
      /\ w.clamp \in {i.clamp, None} /\ w.max_ratio \in {i.max_ratio, None}
      /\ w.fail \in {i.fail, None} /\ w.applied \in {i.applied, None}
  BY WithoutBound
<1>2. /\ Known(w) = Known(i) /\ Stiff(w) = Stiff(i) /\ Load(w) = Load(i)
      /\ Share(w) = Share(i) /\ Preload(w) = Preload(i) /\ Service(w) = Service(i)
  BY <1>1 DEF Known, Stiff, Load, Share, Preload, Service
<1>3. /\ p.area = q.area /\ p.bolt = q.bolt /\ p.joint = q.joint /\ p.phi = q.phi
      /\ p.preload = q.preload /\ p.residual = q.residual /\ p.torque = q.torque
      /\ p.from_torque \in {q.from_torque, None}
      /\ p.lower \in {q.lower, None} /\ p.upper \in {q.upper, None}
  <2>1. /\ p.area = (w.thread # None)
        /\ p.bolt = (w.bolt # None) /\ p.joint = (w.joint # None)
        /\ p.phi = Stiff(w)
        /\ p.preload = (IF Known(w) THEN Preload(w) ELSE None)
        /\ p.residual = (IF Stiff(w) /\ Known(w) THEN Preload(w) - (Load(w) - Share(w)) ELSE None)
        /\ p.torque = (IF Known(w) /\ w.friction THEN Preload(w) ELSE None)
        /\ p.from_torque = (IF w.thread # None /\ w.friction THEN w.applied ELSE None)
        /\ p.lower = (IF ~(w.thread # None /\ w.friction) \/ w.clamp = None THEN None
                         ELSE IF Stiff(w) THEN w.clamp + Load(w) - Share(w) ELSE w.clamp)
        /\ p.upper = (IF w.thread # None /\ w.friction /\ w.rp02 # None /\ w.max_ratio # None
                        THEN (w.rp02 * w.max_ratio) \div Whole ELSE None)
    <3>1. Asked(w)
      BY <1>1
    <3>. QED
      BY <3>1, QuantityFields
  <2>2. /\ q.area = (i.thread # None)
        /\ q.bolt = (i.bolt # None) /\ q.joint = (i.joint # None)
        /\ q.phi = Stiff(i)
        /\ q.preload = (IF Known(i) THEN Preload(i) ELSE None)
        /\ q.residual = (IF Stiff(i) /\ Known(i) THEN Preload(i) - (Load(i) - Share(i)) ELSE None)
        /\ q.torque = (IF Known(i) /\ i.friction THEN Preload(i) ELSE None)
        /\ q.from_torque = (IF i.thread # None /\ i.friction THEN i.applied ELSE None)
        /\ q.lower = (IF ~(i.thread # None /\ i.friction) \/ i.clamp = None THEN None
                         ELSE IF Stiff(i) THEN i.clamp + Load(i) - Share(i) ELSE i.clamp)
        /\ q.upper = (IF i.thread # None /\ i.friction /\ i.rp02 # None /\ i.max_ratio # None
                        THEN (i.rp02 * i.max_ratio) \div Whole ELSE None)
    BY QuantityFields
  <2>. QED
    BY <1>1, <1>2, <2>1, <2>2
<1>4. CASE w.fail = i.fail
  <2>1. /\ p.safety = EvaluateSafety(Service(w), w.rp02, w.fail, w.warn)
        /\ p.used = (IF p.safety \in {"pass", "warn", "fail"} THEN Service(w) ELSE None)
    BY <1>1, SafetyFields
  <2>2. /\ q.safety = EvaluateSafety(Service(i), i.rp02, i.fail, i.warn)
        /\ q.used = (IF q.safety \in {"pass", "warn", "fail"} THEN Service(i) ELSE None)
    BY SafetyFields
  <2>3. p.safety = q.safety /\ p.used = q.used
    BY <1>1, <1>2, <1>4, <2>1, <2>2
  <2>. QED
    BY <1>3, <2>3
<1>5. CASE w.fail = None
  <2>1. p.safety = "missing_input"
    BY <1>1, <1>5, SafetyFields DEF EvaluateSafety
  <2>2. p.used = None
    BY <1>1, <2>1, SafetyFields
  <2>. QED
    BY <1>3, <2>1, <2>2
<1>. QED
  BY <1>1, <1>4, <1>5

\* A bound on top never wins a recommendation nor hides a finding.
LEMMA OnlyWithheld ==
  ASSUME NEW i, Asked(i)
  PROVE  BoundsOnlyWithhold(i)
<1>. SUFFICES ASSUME NEW bound \in Bounds
              PROVE  LET w == [i EXCEPT ![bound] = None]
                     IN  /\ Recommendation(i).status = "recommended"
                              => Recommendation(w).torque = Recommendation(i).torque
                         /\ Recommendation(w).findings \subseteq Recommendation(i).findings
                         /\ Evaluated(Quantities(w)) \subseteq Evaluated(Quantities(i))
  BY DEF BoundsOnlyWithhold, Bounds
<1>. PICK w : w = [i EXCEPT ![bound] = None]
  OBVIOUS
<1>. PICK q : q = Quantities(i)
  OBVIOUS
<1>. PICK p : p = Quantities(w)
  OBVIOUS
<1>1. /\ p.area = q.area /\ p.bolt = q.bolt /\ p.joint = q.joint /\ p.phi = q.phi
      /\ p.preload = q.preload /\ p.residual = q.residual /\ p.torque = q.torque
      /\ p.from_torque \in {q.from_torque, None}
      /\ p.lower \in {q.lower, None} /\ p.upper \in {q.upper, None}
      /\ p.used \in {q.used, None}
      /\ p.safety = "fail" => q.safety = "fail"
  BY LessIsWorkedOut
<1>2. CriticalFindings(p) \subseteq CriticalFindings(q)
  BY <1>1, FindingsIff
<1>3. Evaluated(p) \subseteq Evaluated(q)
  BY <1>1 DEF Evaluated
<1>4. ASSUME Recommendation(i).status = "recommended"
      PROVE  Recommendation(w).torque = Recommendation(i).torque
  <2>1. CriticalFindings(q) = {} /\ q.torque # None /\ Recommendation(i).torque = q.torque
    BY <1>4, RecommendedIff
  <2>2. CriticalFindings(p) = {} /\ p.torque # None
    BY <2>1, <1>1, <1>2
  <2>3. Evaluated(p) # {}
    BY <2>2 DEF Evaluated
  <2>4. Readiness(p) # "insufficient_data"
    BY <2>3 DEF Readiness
  <2>. QED
    BY <2>1, <2>2, <2>4, <1>1, RecommendedIff
<1>. QED
  BY <1>2, <1>3, <1>4, RecommendedIff

\* Confidence needs the bounds.
LEMMA Earned ==
  ASSUME NEW i, Asked(i)
  PROVE  ConfidenceEarned(i)
<1>. PICK q : q = Quantities(i)
  OBVIOUS
<1>. PICK r : r = Recommendation(i)
  OBVIOUS
<1>1. r.confidence # "HIGH"
  BY RecommendedIff
<1>2. ASSUME r.confidence = "MEDIUM"
      PROVE  None \notin {i.clamp, i.max_ratio, i.fail}
  <2>1. Readiness(q) = "full"
    BY <1>2, RecommendedIff
  <2>2. None \notin {q.lower, q.upper, q.used}
    BY <2>1 DEF Readiness
  <2>3. i.clamp # None /\ i.max_ratio # None
    BY <2>2, QuantityFields
  <2>4. i.fail # None
    <3>1. q.safety \in {"pass", "warn", "fail"}
      BY <2>2, SafetyFields
    <3>2. EvaluateSafety(Service(i), i.rp02, i.fail, i.warn) # "missing_input"
      BY <3>1, SafetyFields
    <3>. QED
      BY <3>2 DEF EvaluateSafety
  <2>. QED
    BY <2>3, <2>4
<1>3. ASSUME r.confidence = "LOW", None \notin {i.clamp, i.max_ratio, i.fail},
             i.load = None \/ i.load >= 0
      PROVE  i.warn # None /\ i.warn >= i.fail
  <2>1. q.torque # None /\ Readiness(q) # "full" /\ Readiness(q) # "insufficient_data"
    BY <1>3, RecommendedIff
  <2>2. Known(i) /\ i.friction
    BY <2>1, QuantityFields
  <2>3. Evaluated(q) # {}
    BY <2>1 DEF Evaluated
  <2>4. None \in {q.lower, q.upper, q.used}
    BY <2>1, <2>3 DEF Readiness
  <2>5. /\ i \in Requested /\ Preload(i) \in Nat /\ Load(i) \in Int /\ Load(i) >= 0
        /\ Stiff(i) => Share(i) \in Nat
    BY <1>3, <2>2, InputTypes, InputsAssumption DEF Load
  <2>6. q.lower # None /\ q.upper # None
    <3>1. i.clamp \in Nat /\ i.max_ratio \in Magnitudes /\ i.rp02 \in Magnitudes
      BY <1>3, <2>2, <2>5, InputTypes DEF Requested
    <3>2. (i.rp02 * i.max_ratio) \div Whole \in Nat
      BY <3>1, PreloadNat
    <3>3. i.clamp + Load(i) - Share(i) \in Int \/ ~Stiff(i)
      BY <3>1, <2>5
    <3>. QED
      BY <1>3, <2>2, <2>5, <3>1, <3>2, <3>3, QuantityFields, InputsAssumption DEF Known
  <2>7. PICK stress \in Nat : stress = Service(i)
    BY <2>2, <2>5 DEF Service
  <2>8. q.safety \notin {"pass", "warn", "fail"}
    BY <2>4, <2>6, <2>7, SafetyFields, InputsAssumption
  <2>9. EvaluateSafety(stress, i.rp02, i.fail, i.warn) \notin {"pass", "warn", "fail"}
    BY <2>7, <2>8, SafetyFields
  <2>10. None \notin {stress, i.rp02, i.fail}
    BY <1>3, <2>2, InputsAssumption DEF Known
  <2>. QED
    BY <2>9, <2>10 DEF EvaluateSafety
<1>4. i.load # None => i.load \in Int
  BY DEF Asked, Requested
<1>. QED
  BY <1>1, <1>2, <1>3, <1>4 DEF ConfidenceEarned

(* ---- What a request to the gateway knows. ---- *)

ReasonSteps == {"reason_wording", "reason_record", "reason_answered"}

Recommendations == {Recommendation(i) : i \in JointInputs}

Reasons ==
  [state : {"SUPPORTED", "UNSUPPORTED", "INSUFFICIENT_EVIDENCE"},
   evidence : {"PASS", "FAIL"}, label : {"CALCULATED", None},
   conclusion : Recommendations \cup {None}]

Wordings == Providers \cup {None, "unknown"}

LoadCalls == [at : {"ai_load"}, cites : SUBSET Citations, pending : SUBSET QuestionKeys]

AuditCalls ==
  [at : {"ai_audit"}, client : Providers, error : ModelErrors \cup {None},
   cites : SUBSET Citations, single : BOOLEAN]

AnswerCalls ==
  [at : {"ai_answered"}, error : ModelErrors \cup {None}, cites : SUBSET Citations,
   single : BOOLEAN, row : Nat]

ReasonCalls ==
  [at : {"reason_wording", "reason_record"}, trace : Nat, user : Users,
   isAdmin : BOOLEAN, provider : Wordings, formulas : BOOLEAN, reasoning : Reasons]
  \cup [at : {"reason_answered"}, trace : Nat, user : Users, isAdmin : BOOLEAN,
        provider : Wordings, formulas : BOOLEAN, reasoning : Reasons, row : Nat]

AnalyzedCalls == [at : {"joint_analyzed"}, inputs : JointInputs]

\* Calls of which nothing is promised.
PlainCalls ==
  [at : {"ai_failed", "joint_rejected", "reason_not_found", "reason_forbidden",
         "reason_failed"}]
  \cup [at : {"ai_providers"}, readiness : [Providers -> ReadinessStatuses]]
  \cup [at : {"recommended"}, trace : Nat]

AiCalls ==
  QuestionCalls \cup LoadCalls \cup AuditCalls \cup AnswerCalls \cup ReasonCalls
  \cup AnalyzedCalls \cup PlainCalls

GatewayRows ==
  [model : Providers \cup {None}, error : ModelErrors \cup {None},
   evidence : SUBSET Questions,
   status : {"PASS", "WARN", "FAIL"}, label : {"VALIDATED", "ESTIMATED", None}]

ReasonRows ==
  [trace : Nat, user : Users, model : Wordings, formulas : BOOLEAN,
   status : {"PASS", "FAIL"}, label : {"CALCULATED", None}]

Traces ==
  [user : Users, inputs : TracedInputs, damage : Damages \cup {None},
   result : Recommendations]

TracesOK ==
  /\ traceLog \in Seq(Traces)
  /\ \A n \in 1..Len(traceLog) : traceLog[n].result = Recommendation(traceLog[n].inputs)

AuditOK == aiAudit \in Seq(GatewayRows \cup ReasonRows)

\* The versions read were validated, and what was read after that is what they hold.
Cites(c) ==
  /\ c.at = "list_lifecycles" => \A k \in c.validated : WasValidated(k)
  /\ c.at = "list_contents" => \A k \in c.shown : WasValidated(k)
  /\ c.at = "ai_load" => \A k \in c.pending : WasValidated(k)
  /\ c.at \in {"list_answered", "ai_load"} => \A cite \in c.cites : Grounded(cite)
  /\ c.at = "get_lifecycle" /\ c.validated => WasValidated(c.cite.key)
  /\ c.at = "get_answered" => WasValidated(c.cite.key)
  /\ c.at \in {"ai_asked", "ai_audit", "ai_answered"} =>
       \A cite \in c.cites : IF c.single THEN WasValidated(cite.key) ELSE Grounded(cite)
  /\ c.at = "ai_asked" /\ c.single => c.cites # {}
  /\ c.at = "ai_audit" /\ c.single /\ c.error = None => c.cites # {}

Failed(c) ==
  c.at = "ai_audit" =>
    /\ c.client # "anthropic"
    /\ c.client = "deterministic" => c.error = None
    /\ c.error = "ModelTimeoutError" => c.single

\* The audit row of an answer says what the answer says.
Recorded(c) ==
  c.at = "ai_answered" =>
    /\ c.row \in 1..Len(aiAudit)
    /\ aiAudit[c.row].error = c.error
    /\ aiAudit[c.row].evidence = {cite.key[1] : cite \in c.cites}
    /\ aiAudit[c.row].label = "VALIDATED" =>
         ~c.single /\ \A cite \in c.cites : cite.text \in HighConfidence
    /\ aiAudit[c.row].model = None <=> c.error = None /\ c.cites = {}
    /\ aiAudit[c.row].model = None => aiAudit[c.row].label = None
    /\ aiAudit[c.row].model # "anthropic"
    /\ aiAudit[c.row].model = "deterministic" => c.error = None
    /\ c.error = "ModelTimeoutError" => c.single

\* A reasoning is about the row as it was read: damage may have come since.
Reasoned(c) ==
  c.at \in ReasonSteps =>
    /\ c.trace \in 1..Len(traceLog)
    /\ c.isAdmin \/ traceLog[c.trace].user = c.user
    /\ c.reasoning.conclusion \in {None, traceLog[c.trace].result}
    /\ c.reasoning.state = "SUPPORTED" => traceLog[c.trace].result.status = "recommended"
    /\ c.reasoning.state = "UNSUPPORTED" => traceLog[c.trace].result.status # "recommended"
    /\ traceLog[c.trace].damage = None => c.reasoning.conclusion # None
    /\ c.reasoning.conclusion = None =>
         c.reasoning.label = None \/ traceLog[c.trace].damage = "unknown_status"
    /\ c.at # "reason_wording" /\ c.reasoning.conclusion = None => c.provider = None

ReasonRecorded(c) ==
  c.at = "reason_answered" =>
    /\ c.row \in 1..Len(aiAudit)
    /\ aiAudit[c.row].trace = c.trace /\ aiAudit[c.row].user = c.user
    /\ aiAudit[c.row].model = c.provider /\ aiAudit[c.row].label = c.reasoning.label

AiKnows(c) == Cites(c) /\ Failed(c) /\ Recorded(c) /\ Reasoned(c) /\ ReasonRecorded(c)

\* Two answers never have one row.
SameRow(c, d) == c.at = "ai_answered" /\ d.at = "ai_answered" /\ c.row = d.row

OwnRows == \A t, u \in Threads : SameRow(calls[t], calls[u]) => t = u

AiInv ==
  /\ QInv
  /\ calls \in [Threads -> AiCalls]
  /\ TracesOK /\ AuditOK
  /\ \A t \in Threads : AiKnows(calls[t])
  /\ OwnRows

(* ---- What a step keeps. ---- *)

BankKept ==
  \A k \in QuestionKeys : WasValidated(k) =>
    WasValidated(k)' /\ content'[k[1]][k[2]] = content[k[1]][k[2]]

AuditGrows ==
  \A n \in 1..Len(aiAudit) : n \in 1..Len(aiAudit') /\ aiAudit'[n] = aiAudit[n]

TracesGrow ==
  \A n \in 1..Len(traceLog) :
    /\ n \in 1..Len(traceLog')
    /\ traceLog'[n].user = traceLog[n].user
    /\ traceLog'[n].inputs = traceLog[n].inputs
    /\ traceLog'[n].result = traceLog[n].result
    /\ \/ traceLog'[n].damage = traceLog[n].damage
       \/ traceLog[n].damage = None /\ traceLog'[n].damage \in Damages

CitingSteps ==
  {"list_lifecycles", "list_contents", "ai_load", "list_answered", "get_lifecycle",
   "get_answered", "ai_asked", "ai_audit", "ai_answered"}

\* The fields of a request that cites.
LEMMA CitingFields ==
  ASSUME NEW c \in AiCalls
  PROVE  /\ c.at = "list_lifecycles" => c.validated \subseteq QuestionKeys
         /\ c.at = "list_contents" => c.shown \subseteq QuestionKeys
         /\ c.at = "ai_load" => c \in LoadCalls
         /\ c.at \in {"list_answered", "ai_load", "ai_asked", "ai_audit", "ai_answered"} =>
              c.cites \subseteq Citations
         /\ c.at \in {"get_lifecycle", "get_answered"} => c.cite \in Citations
         /\ c.at \in {"ai_asked", "ai_audit", "ai_answered"} => c.single \in BOOLEAN
         /\ c.at = "ai_audit" => c \in AuditCalls
         /\ c.at = "ai_answered" => c \in AnswerCalls
BY DEF AiCalls, QuestionCalls, Idle, LoadCalls, AuditCalls, AnswerCalls, ReasonCalls,
       AnalyzedCalls, PlainCalls

\* The fields of a reasoning; no other request has one.
LEMMA ReasonFields ==
  ASSUME NEW c \in AiCalls
  PROVE  /\ c.at \in ReasonSteps <=> c \in ReasonCalls
         /\ "reasoning" \in DOMAIN c => c.at \in ReasonSteps
         /\ c.at = "joint_analyzed" => c.inputs \in JointInputs
BY DEF AiCalls, QuestionCalls, Idle, LoadCalls, AuditCalls, AnswerCalls, ReasonCalls,
       AnalyzedCalls, PlainCalls, ReasonSteps

\* What is cited stays validated and keeps its text while the archive is kept.
LEMMA CitesStay ==
  ASSUME BankKept, NEW c \in AiCalls, Cites(c)
  PROVE  Cites(c)'
<1>1. \A k \in QuestionKeys : WasValidated(k) => WasValidated(k)'
  BY DEF BankKept
<1>2. \A cite \in Citations : Grounded(cite) => Grounded(cite)'
  BY DEF BankKept, Grounded, Citations
<1>3. \A cite \in Citations : cite.key \in QuestionKeys
  BY DEF Citations
<1>4. c.at = "list_lifecycles" => \A k \in c.validated : WasValidated(k)'
  BY <1>1, CitingFields DEF Cites
<1>5. c.at = "list_contents" => \A k \in c.shown : WasValidated(k)'
  BY <1>1, CitingFields DEF Cites
<1>6. c.at = "ai_load" => \A k \in c.pending : WasValidated(k)'
  BY <1>1, CitingFields DEF Cites, LoadCalls
<1>7. c.at \in {"list_answered", "ai_load"} => \A cite \in c.cites : Grounded(cite)'
  BY <1>2, CitingFields DEF Cites
<1>8. c.at \in {"get_lifecycle", "get_answered"} => c.cite.key \in QuestionKeys
  BY <1>3, CitingFields
<1>9. /\ c.at = "get_lifecycle" /\ c.validated => WasValidated(c.cite.key)'
      /\ c.at = "get_answered" => WasValidated(c.cite.key)'
  BY <1>1, <1>8 DEF Cites
<1>10. ASSUME c.at \in {"ai_asked", "ai_audit", "ai_answered"}, NEW cite \in c.cites
       PROVE  IF c.single THEN WasValidated(cite.key)' ELSE Grounded(cite)'
  <2>1. cite \in Citations /\ cite.key \in QuestionKeys
    BY <1>3, <1>10, CitingFields
  <2>2. CASE c.single
    BY <2>1, <2>2, <1>1, <1>10 DEF Cites
  <2>3. CASE ~c.single
    BY <2>1, <2>3, <1>2, <1>10 DEF Cites
  <2>. QED
    BY <2>2, <2>3
<1>. QED
  BY <1>4, <1>5, <1>6, <1>7, <1>9, <1>10 DEF Cites

\* What a request knows stays known while logs and archive only grow.
LEMMA KnowledgeStays ==
  ASSUME BankKept, AuditGrows, TracesGrow, TracesOK, AuditOK, NEW c \in AiCalls, AiKnows(c)
  PROVE  AiKnows(c)'
<1>1. Cites(c)'
  BY CitesStay DEF AiKnows
<1>2. Failed(c)'
  BY DEF AiKnows, Failed
<1>3. Recorded(c)'
  <2>. SUFFICES ASSUME c.at = "ai_answered" PROVE Recorded(c)'
    BY DEF Recorded
  <2>1. /\ c.row \in 1..Len(aiAudit') /\ aiAudit'[c.row] = aiAudit[c.row]
    BY DEF AiKnows, Recorded, AuditGrows
  <2>. QED
    BY <2>1 DEF AiKnows, Recorded
<1>4. Reasoned(c)'
  <2>. SUFFICES ASSUME c.at \in ReasonSteps PROVE Reasoned(c)'
    BY DEF Reasoned
  <2>1. PICK n \in 1..Len(traceLog) : n = c.trace
    BY DEF AiKnows, Reasoned
  <2>2. /\ n \in 1..Len(traceLog')
        /\ traceLog'[n].user = traceLog[n].user
        /\ traceLog'[n].result = traceLog[n].result
        /\ \/ traceLog'[n].damage = traceLog[n].damage
           \/ traceLog[n].damage = None /\ traceLog'[n].damage \in Damages
    BY DEF TracesGrow
  <2>3. None \notin Damages
    BY ReasoningAssumption
  <2>. QED
    BY <2>1, <2>2, <2>3 DEF AiKnows, Reasoned
<1>5. ReasonRecorded(c)'
  <2>. SUFFICES ASSUME c.at = "reason_answered" PROVE ReasonRecorded(c)'
    BY DEF ReasonRecorded
  <2>1. /\ c.row \in 1..Len(aiAudit') /\ aiAudit'[c.row] = aiAudit[c.row]
    BY DEF AiKnows, ReasonRecorded, AuditGrows
  <2>. QED
    BY <2>1 DEF AiKnows, ReasonRecorded
<1>. QED
  BY <1>1, <1>2, <1>3, <1>4, <1>5 DEF AiKnows

\* A step that moves one request need only show what that request knows then.
LEMMA AiCallMoves ==
  ASSUME AiInv, QInv', TracesOK', AuditOK', BankKept, AuditGrows, TracesGrow,
         NEW t \in Threads, NEW c \in AiCalls, Goto(t, c), AiKnows(c)',
         \A u \in Threads \ {t} : ~SameRow(c, calls[u])
  PROVE  AiInv'
<1>1. /\ calls' \in [Threads -> AiCalls]
      /\ calls'[t] = c
      /\ \A u \in Threads \ {t} : calls'[u] = calls[u]
  BY DEF Goto, AiInv
<1>2. ASSUME NEW u \in Threads
      PROVE  AiKnows(calls[u])'
  <2>1. CASE u = t
    BY <1>1, <2>1 DEF AiKnows, Cites, Failed, Recorded, Reasoned, ReasonRecorded
  <2>2. CASE u # t
    <3>1. PICK d \in AiCalls : d = calls[u]
      BY DEF AiInv
    <3>2. AiKnows(d)
      BY <3>1 DEF AiInv
    <3>3. AiKnows(d)'
      BY <3>2, KnowledgeStays DEF AiInv
    <3>4. calls'[u] = d
      BY <1>1, <2>2, <3>1
    <3>. QED
      BY <3>3, <3>4 DEF AiKnows, Cites, Failed, Recorded, Reasoned, ReasonRecorded
  <2>. QED
    BY <2>1, <2>2
<1>3. OwnRows'
  <2>. SUFFICES ASSUME NEW u \in Threads, NEW w \in Threads,
                       SameRow(calls'[u], calls'[w]), u # w
                PROVE  FALSE
    BY DEF OwnRows, SameRow
  <2>. QED
    BY <1>1 DEF AiInv, OwnRows, SameRow
<1>. QED
  BY <1>1, <1>2, <1>3 DEF AiInv

(* ---- Steps of the question bank. ---- *)

\* Validated versions are registered, with their content.
LEMMA ValidatedIsStored ==
  ASSUME QInv, NEW k \in QuestionKeys, WasValidated(k)
  PROVE  IsRegistered(k[1], k[2]) /\ content[k[1]][k[2]] # None
<1>. PICK q \in Questions, v \in Versions : q = k[1] /\ v = k[2]
  BY KeyFields
<1>1. history[q][v] \in Seq(HistoryEntries) /\ history[q][v] # <<>>
  BY DEF WasValidated, QInv, TablesInv, TablesTypeOK
<1>2. history[q][v][Len(history[q][v])] \in HistoryEntries
  BY <1>1
<1>3. records[q][v].status = history[q][v][Len(history[q][v])].to
  BY <1>1 DEF QInv, TablesInv, TrailsMatchRows
<1>4. records[q][v].status # "absent"
  BY <1>2, <1>3 DEF HistoryEntries, Statuses
<1>. QED
  BY <1>4 DEF QInv, TablesInv, RegisteredStored, IsRegistered

\* A row that is validated was validated at some time.
LEMMA ValidatedStatus ==
  ASSUME QInv, NEW k \in QuestionKeys, records[k[1]][k[2]].status = "validated"
  PROVE  WasValidated(k)
<1>. PICK q \in Questions, v \in Versions : q = k[1] /\ v = k[2]
  BY KeyFields
<1>1. history[q][v] \in Seq(HistoryEntries) /\ history[q][v] # <<>>
  BY DEF QInv, TablesInv, TablesTypeOK, TrailsMatchRows
<1>2. Len(history[q][v]) \in DOMAIN history[q][v]
  BY <1>1
<1>3. history[q][v][Len(history[q][v])].to = "validated"
  BY <1>1 DEF QInv, TablesInv, TrailsMatchRows
<1>. QED
  BY <1>2, <1>3 DEF WasValidated

\* Nothing is lost when nothing is written,
LEMMA NothingChanged ==
  ASSUME history' = history, content' = content
  PROVE  BankKept
BY DEF BankKept, WasValidated

\* when the trail of a version grows,
LEMMA HistoryAppended ==
  ASSUME QInv, NEW q \in Questions, NEW v \in Versions, NEW e \in HistoryEntries,
         history' = [history EXCEPT ![q][v] = Append(@, e)], content' = content
  PROVE  BankKept
<1>1. history \in [Questions -> [Versions -> Seq(HistoryEntries)]]
  BY DEF QInv, TablesInv, TablesTypeOK
<1>2. ASSUME NEW k \in QuestionKeys, WasValidated(k)
      PROVE  WasValidated(k)'
  <2>. PICK p \in Questions, w \in Versions : p = k[1] /\ w = k[2]
    BY KeyFields
  <2>1. PICK i \in DOMAIN history[p][w] : history[p][w][i].to = "validated"
    BY <1>2 DEF WasValidated
  <2>2. i \in DOMAIN history'[p][w] /\ history'[p][w][i] = history[p][w][i]
    <3>1. CASE p = q /\ w = v
      <4>1. history'[p][w] = Append(history[p][w], e) /\ history[p][w] \in Seq(HistoryEntries)
        BY <1>1, <3>1
      <4>. QED
        BY <4>1, AppendProperties
    <3>2. CASE ~(p = q /\ w = v)
      BY <1>1, <3>2
    <3>. QED
      BY <3>1, <3>2
  <2>. QED
    BY <2>1, <2>2 DEF WasValidated
<1>. QED
  BY <1>2 DEF BankKept

\* or when content is written or dropped that is not registered.
LEMMA ContentChanged ==
  ASSUME QInv, NEW q \in Questions, NEW v \in Versions, NEW x,
         ~IsRegistered(q, v),
         content' = [content EXCEPT ![q][v] = x], history' = history
  PROVE  BankKept
<1>1. content \in [Questions -> [Versions -> Texts \cup {None}]]
  BY DEF QInv, TablesInv, TablesTypeOK
<1>2. ASSUME NEW k \in QuestionKeys, WasValidated(k)
      PROVE  WasValidated(k)' /\ content'[k[1]][k[2]] = content[k[1]][k[2]]
  <2>1. k[1] \in Questions /\ k[2] \in Versions /\ IsRegistered(k[1], k[2])
    BY <1>2, KeyFields, ValidatedIsStored
  <2>2. ~(k[1] = q /\ k[2] = v)
    BY <2>1
  <2>3. content'[k[1]][k[2]] = content[k[1]][k[2]]
    BY <1>1, <2>1, <2>2
  <2>. QED
    BY <1>2, <2>3 DEF WasValidated
<1>. QED
  BY <1>2 DEF BankKept

\* Saving content where there was none loses nothing.
LEMMA SavingKeeps ==
  ASSUME QInv, NEW q \in Questions, NEW v \in Versions, NEW x, SaveContent(q, v, x)
  PROVE  BankKept
<1>1. /\ content[q][v] = None /\ content' = [content EXCEPT ![q][v] = x]
      /\ history' = history
  BY DEF SaveContent
<1>2. ~IsRegistered(q, v)
  BY <1>1 DEF QInv, TablesInv, RegisteredStored
<1>. QED
  BY <1>1, <1>2, ContentChanged

\* No write of the question bank touches what was validated.
LEMMA WritesKeepBank ==
  ASSUME QInv, NEW t \in Threads, QuestionWrite(t)
  PROVE  BankKept
<1>1. ASSUME UnchangedTables
      PROVE  BankKept
  BY <1>1, NothingChanged DEF UnchangedTables, questionTables
<1>2. CASE CreateQuestion(t)
  BY <1>2, SavingKeeps DEF CreateQuestion
<1>3. CASE SaveUpdate(t)
  <2>1. PICK q \in Questions, v \in Versions, x \in Texts :
          q = calls[t].q /\ v = calls[t].v /\ x = calls[t].text
    BY <1>3, CallFields DEF QInv, CallsInv, SaveUpdate, At
  <2>2. SaveContent(q, v, x) \/ UnchangedTables
    BY <1>3, <2>1 DEF SaveUpdate
  <2>. QED
    BY <1>1, <2>2, SavingKeeps
<1>4. CASE RegisterRecord(t)
  <2>1. PICK q \in Questions, v \in Versions : q = calls[t].q /\ v = calls[t].v
    BY <1>4, OwnedCalls DEF RegisterRecord, At, OwningSteps
  <2>2. [from |-> None, to |-> "draft"] \in HistoryEntries
    BY DEF HistoryEntries, Statuses
  <2>3. /\ history' = [history EXCEPT ![q][v] = Append(@, [from |-> None, to |-> "draft"])]
        /\ content' = content
    BY <1>4, <2>1 DEF RegisterRecord
  <2>. QED
    BY <2>2, <2>3, HistoryAppended
<1>5. CASE Compensate(t)
  <2>1. PICK q \in Questions, v \in Versions : q = calls[t].q /\ v = calls[t].v
    BY <1>5, OwnedCalls DEF Compensate, At, OwningSteps
  <2>2. ~IsRegistered(q, v)
    BY <1>5, <2>1, OwnedCalls DEF Compensate, At, OwningSteps, IsRegistered
  <2>3. content' = [content EXCEPT ![q][v] = None] /\ history' = history
    BY <1>5, <2>1 DEF Compensate
  <2>. QED
    BY <2>2, <2>3, ContentChanged
<1>6. CASE WriteStatus(t)
  <2>1. PICK q \in Questions, v \in Versions, edge \in Transitions :
          q = calls[t].q /\ v = calls[t].v /\ edge = calls[t].edge
    BY <1>6, CallFields DEF QInv, CallsInv, WriteStatus, At
  <2>2. PICK e : e = [from |-> edge[1], to |-> edge[2]]
    OBVIOUS
  <2>3. e \in HistoryEntries
    BY <2>2 DEF HistoryEntries, Statuses, Transitions
  <2>4. history' = [history EXCEPT ![q][v] = Append(@, e)] /\ content' = content
    BY <1>6, <2>1, <2>2 DEF WriteStatus
  <2>. QED
    BY <2>3, <2>4, HistoryAppended
<1>7. CASE ReadForUpdate(t) \/ FailRegistration(t) \/ ReadStatus(t) \/ ReadRows(t)
  BY <1>1, <1>7 DEF ReadForUpdate, FailRegistration, ReadStatus, ReadRows
<1>8. CASE WriteFlags(t)
  BY <1>8, NothingChanged DEF WriteFlags
<1>. QED
  BY <1>2, <1>3, <1>4, <1>5, <1>6, <1>7, <1>8
     DEF QuestionWrite, QuestionReview, QuestionLifecycle

WritingSteps ==
  {"idle", "qb_save", "qb_register", "qb_compensate", "qb_transition", "qb_flags"}

\* A step of the question bank that may write leaves a call at such a step.
LEMMA WritesGoOn ==
  ASSUME QInv, QInv', NEW t \in Threads, QuestionWrite(t)
  PROVE  \E c \in QuestionCalls : Goto(t, c) /\ c.at \in WritingSteps
<1>. USE DEF WritingSteps
<1>. DEFINE Goal == \E c : Goto(t, c) /\ c.at \in WritingSteps
<1>1. Goal
  <2>1. ASSUME NEW c, Goto(t, c), c.at \in WritingSteps
        PROVE  Goal
    BY <2>1
  <2>2. Finish(t) => Goal
    BY <2>1 DEF Finish, Idle
  <2>. HIDE DEF Goal
  <2>3. CASE RegisterRecord(t) \/ Compensate(t) \/ WriteStatus(t) \/ WriteFlags(t)
    BY <2>2, <2>3 DEF RegisterRecord, Compensate, WriteStatus, WriteFlags
  <2>4. CASE CreateQuestion(t)
    BY <2>1, <2>4 DEF CreateQuestion
  <2>5. CASE ReadForUpdate(t)
    BY <2>1, <2>5 DEF ReadForUpdate
  <2>6. CASE SaveUpdate(t)
    BY <2>1, <2>2, <2>6 DEF SaveUpdate
  <2>7. CASE FailRegistration(t)
    <3>1. calls[t] \in [at : {"qb_register", "qb_compensate"}, q : Questions, v : Versions,
                        updating : BOOLEAN]
      BY <2>7 DEF FailRegistration, At, QInv, CallsInv, Typed, QuestionSteps, QuestionCalls, Idle
    <3>2. [calls[t] EXCEPT !.at = "qb_compensate"].at = "qb_compensate"
      BY <3>1
    <3>3. Goto(t, [calls[t] EXCEPT !.at = "qb_compensate"]) \/ Finish(t)
      BY <2>7 DEF FailRegistration, Continue
    <3>. QED
      BY <2>1, <2>2, <3>2, <3>3
  <2>8. CASE ReadStatus(t)
    BY <2>1, <2>8 DEF ReadStatus
  <2>9. CASE ReadRows(t)
    BY <2>1, <2>9 DEF ReadRows
  <2>. QED
    BY <2>3, <2>4, <2>5, <2>6, <2>7, <2>8, <2>9
       DEF QuestionWrite, QuestionReview, QuestionLifecycle
<1>2. PICK c : Goto(t, c) /\ c.at \in WritingSteps
  BY <1>1
<1>3. calls'[t] = c
  BY <1>2 DEF Goto, QInv, CallsInv
<1>4. Typed(c)
  BY <1>3 DEF QInv, CallsInv, Typed
<1>. QED
  BY <1>2, <1>4 DEF Typed, QuestionSteps

\* Of these steps nothing is promised.
LEMMA Unknowing ==
  ASSUME NEW c, c.at \notin CitingSteps \cup ReasonSteps
  PROVE  AiKnows(c)' /\ \A d : ~SameRow(c, d)
BY DEF AiKnows, Cites, Failed, Recorded, Reasoned, ReasonRecorded, CitingSteps, ReasonSteps,
       SameRow

\* The audit table stays.
LEMMA AuditStays ==
  ASSUME AuditOK, aiAudit' = aiAudit
  PROVE  AuditOK' /\ AuditGrows
BY DEF AuditOK, AuditGrows

\* The traces stay.
LEMMA TracesStay ==
  ASSUME TracesOK, traceLog' = traceLog
  PROVE  TracesOK' /\ TracesGrow
<1>1. TracesOK'
  BY DEF TracesOK
<1>2. TracesGrow
  BY DEF TracesGrow
<1>. QED
  BY <1>1, <1>2

\* The question bank keeps its own invariant.
LEMMA StepKeepsQInv ==
  ASSUME QInv, NEW t \in Threads, QuestionStep(t)
  PROVE  QInv'
BY NextKeepsQInv DEF QuestionsNext

\* A request to the question bank is a request.
LEMMA QuestionCallsAreAi == QuestionCalls \subseteq AiCalls
BY DEF AiCalls

\* Writes of the question bank, which cite nothing.
LEMMA BankWrites ==
  ASSUME AiInv, NEW t \in Threads, QuestionWrite(t), UNCHANGED <<aiAudit, traceLog>>
  PROVE  AiInv'
<1>1. QInv'
  BY StepKeepsQInv DEF AiInv, QuestionStep
<1>2. PICK c \in QuestionCalls : Goto(t, c) /\ c.at \in WritingSteps
  BY <1>1, WritesGoOn DEF AiInv
<1>3. AiKnows(c)' /\ \A d : ~SameRow(c, d)
  BY <1>2, Unknowing DEF WritingSteps, CitingSteps, ReasonSteps
<1>4. AuditOK' /\ AuditGrows /\ TracesOK' /\ TracesGrow
  BY AuditStays, TracesStay DEF AiInv
<1>. QED
  BY <1>1, <1>2, <1>3, <1>4, AiCallMoves, WritesKeepBank, QuestionCallsAreAi DEF AiInv

\* A step that writes neither table nor log, to a call that knows what it says.
LEMMA OnlyReads ==
  ASSUME AiInv, QInv', UnchangedTables, UNCHANGED <<aiAudit, traceLog>>,
         NEW t \in Threads, NEW c \in AiCalls, Goto(t, c), AiKnows(c), c.at # "ai_answered"
  PROVE  AiInv'
<1>1. BankKept
  BY NothingChanged DEF UnchangedTables, questionTables
<1>2. AuditOK' /\ AuditGrows /\ TracesOK' /\ TracesGrow
  BY AuditStays, TracesStay DEF AiInv
<1>3. AiKnows(c)'
  BY <1>1, <1>2, KnowledgeStays DEF AiInv
<1>4. \A u \in Threads \ {t} : ~SameRow(c, calls[u])
  BY DEF SameRow
<1>. QED
  BY <1>1, <1>2, <1>3, <1>4, AiCallMoves

\* Of these calls all that is to be known is what they cite.
LEMMA KnowsByCites ==
  ASSUME NEW c, c.at \notin {"ai_audit", "ai_answered"} \cup ReasonSteps, Cites(c)
  PROVE  AiKnows(c)
BY DEF AiKnows, Failed, Recorded, Reasoned, ReasonRecorded, ReasonSteps

\* A request that promises nothing knows all it must.
LEMMA PlainKnows ==
  ASSUME NEW c, c.at \notin CitingSteps \cup ReasonSteps
  PROVE  AiKnows(c)
BY DEF AiKnows, Cites, Failed, Recorded, Reasoned, ReasonRecorded, CitingSteps, ReasonSteps

\* Listings: the rows that are validated, then their content.
LEMMA BankLists ==
  ASSUME AiInv, NEW t \in Threads, UNCHANGED <<aiAudit, traceLog>>,
         ListStatuses(t) \/ ListLifecycles(t) \/ ListContents(t)
  PROVE  AiInv'
<1>1. QInv' /\ UnchangedTables
  BY ListSteps DEF AiInv, ListStatuses, ListLifecycles, ListContents
<1>2. calls[t] \in AiCalls /\ Cites(calls[t]) /\ QInv /\ TablesTypeOK
  BY DEF AiInv, AiKnows, QInv, TablesInv
<1>3. CASE ListStatuses(t)
  <2>1. PICK c : /\ Goto(t, c)
                 /\ c = [at |-> "list_lifecycles",
                         validated |-> {k \in QuestionKeys : StatusMap[k] = "validated"}]
    BY <1>3 DEF ListStatuses
  <2>2. c \in AiCalls /\ c.at = "list_lifecycles"
    BY <2>1 DEF AiCalls, QuestionCalls
  <2>3. ASSUME NEW k \in c.validated
        PROVE  WasValidated(k)
    <3>1. k \in QuestionKeys /\ records[k[1]][k[2]].status = "validated"
      BY <2>1, <2>3 DEF StatusMap
    <3>. QED
      BY <3>1, <1>2, ValidatedStatus
  <2>4. Cites(c)
    BY <2>2, <2>3 DEF Cites
  <2>. QED
    BY <1>1, <2>1, <2>2, <2>4, KnowsByCites, OnlyReads DEF ReasonSteps
<1>4. CASE ListLifecycles(t)
  <2>1. PICK c : Goto(t, c) /\ c = [at |-> "list_contents", shown |-> calls[t].validated \ Hidden]
    BY <1>4 DEF ListLifecycles
  <2>2. calls[t].validated \subseteq QuestionKeys /\ \A k \in calls[t].validated : WasValidated(k)
    BY <1>2, <1>4, CitingFields DEF ListLifecycles, At, Cites
  <2>3. c \in AiCalls /\ c.at = "list_contents"
    BY <2>1, <2>2 DEF AiCalls, QuestionCalls
  <2>4. Cites(c)
    BY <2>1, <2>2, <2>3 DEF Cites
  <2>. QED
    BY <1>1, <2>1, <2>3, <2>4, KnowsByCites, OnlyReads DEF ReasonSteps
<1>5. CASE ListContents(t)
  <2>. DEFINE found == {k \in calls[t].shown : k[2] \in Stored(k[1])}
  <2>1. PICK c : Goto(t, c) /\ c = [at |-> "list_answered", cites |-> {Citation(k) : k \in found}]
    BY <1>5 DEF ListContents
  <2>2. calls[t].shown \subseteq QuestionKeys /\ \A k \in calls[t].shown : WasValidated(k)
    BY <1>2, <1>5, CitingFields DEF ListContents, At, Cites
  <2>3. {Citation(k) : k \in found} \subseteq Citations
    BY <1>2, <2>2, StoredText
  <2>4. c \in AiCalls /\ c.at = "list_answered"
    BY <2>1, <2>3 DEF AiCalls, QuestionCalls
  <2>5. \A k : WasValidated(k) => Grounded(Citation(k))
    BY DEF Grounded, Citation
  <2>6. \A cite \in c.cites : Grounded(cite)
    BY <2>1, <2>2, <2>5
  <2>7. Cites(c)
    BY <2>4, <2>6 DEF Cites
  <2>. QED
    BY <1>1, <2>1, <2>4, <2>7, KnowsByCites, OnlyReads DEF ReasonSteps
<1>. QED
  BY <1>3, <1>4, <1>5

\* One question: its content first, then its row.
LEMMA BankGets ==
  ASSUME AiInv, NEW t \in Threads, UNCHANGED <<aiAudit, traceLog>>,
         GetContent(t) \/ GetStatus(t) \/ GetLifecycle(t)
  PROVE  AiInv'
<1>1. QInv' /\ UnchangedTables
  BY GetSteps DEF AiInv, GetContent, GetStatus, GetLifecycle
<1>2. /\ calls[t] \in AiCalls /\ Cites(calls[t]) /\ QInv /\ TablesTypeOK /\ Typed(calls[t])
      /\ Idle \in AiCalls
  BY DEF AiInv, AiKnows, QInv, TablesInv, CallsInv, AiCalls, QuestionCalls
<1>3. CASE GetContent(t)
  <2>1. PICK k \in QuestionKeys, purpose \in {"read", "explain"} :
          /\ k[2] \in Stored(k[1])
          /\ Goto(t, [at |-> "get_status", cite |-> Citation(k), purpose |-> purpose])
    BY <1>3 DEF GetContent
  <2>2. PICK c : /\ c = [at |-> "get_status", cite |-> Citation(k), purpose |-> purpose]
                 /\ Goto(t, c)
    BY <2>1
  <2>3. Citation(k) \in Citations
    BY <1>2, <2>1, StoredText
  <2>4. c \in AiCalls /\ c.at = "get_status"
    BY <2>2, <2>3 DEF AiCalls, QuestionCalls
  <2>. QED
    BY <1>1, <2>2, <2>4, PlainKnows, OnlyReads DEF CitingSteps, ReasonSteps
<1>4. CASE GetStatus(t)
  <2>1. PICK c : /\ Goto(t, c)
                 /\ c = [at |-> "get_lifecycle", cite |-> calls[t].cite,
                         purpose |-> calls[t].purpose,
                         validated |-> StatusMap[calls[t].cite.key] = "validated"]
    BY <1>4 DEF GetStatus
  <2>2. calls[t].cite \in Citations /\ calls[t].purpose \in {"read", "explain"}
    BY <1>2, <1>4, CallFields DEF GetStatus, At
  <2>3. c \in AiCalls /\ c.at = "get_lifecycle"
    BY <2>1, <2>2 DEF AiCalls, QuestionCalls
  <2>4. c.validated => WasValidated(c.cite.key)
    <3>1. PICK k \in QuestionKeys : k = calls[t].cite.key
      BY <2>2 DEF Citations
    <3>2. c.cite.key = k /\ (c.validated => records[k[1]][k[2]].status = "validated")
      BY <2>1, <3>1 DEF StatusMap
    <3>. QED
      BY <3>2, <1>2, ValidatedStatus
  <2>5. Cites(c)
    BY <2>3, <2>4 DEF Cites
  <2>. QED
    BY <1>1, <2>1, <2>3, <2>5, KnowsByCites, OnlyReads DEF ReasonSteps
<1>5. CASE GetLifecycle(t)
  <2>1. PICK cite \in Citations : cite = calls[t].cite
    BY <1>2, <1>5, CallFields DEF GetLifecycle, At
  <2>2. calls[t].purpose \in {"read", "explain"}
    BY <1>2, <1>5, CallFields DEF GetLifecycle, At
  <2>3. \/ Finish(t)
        \/ /\ calls[t].validated
           /\ \/ Goto(t, [at |-> "get_answered", cite |-> cite])
              \/ Goto(t, [at |-> "ai_asked", cites |-> {cite}, single |-> TRUE])
    BY <1>5, <2>1, <2>2 DEF GetLifecycle
  <2>4. calls[t].validated => WasValidated(cite.key)
    BY <1>2, <1>5, <2>1 DEF GetLifecycle, At, Cites
  <2>5. CASE Finish(t)
    BY <1>1, <1>2, <2>5, PlainKnows, OnlyReads DEF Finish, Idle, CitingSteps, ReasonSteps
  <2>6. ASSUME WasValidated(cite.key), Goto(t, [at |-> "get_answered", cite |-> cite])
        PROVE  AiInv'
    <3>1. PICK c : Goto(t, c) /\ c = [at |-> "get_answered", cite |-> cite]
      BY <2>6
    <3>2. c \in AiCalls /\ c.at = "get_answered"
      BY <3>1 DEF AiCalls, QuestionCalls
    <3>3. Cites(c)
      BY <3>1, <2>6 DEF Cites
    <3>. QED
      BY <1>1, <3>1, <3>2, <3>3, KnowsByCites, OnlyReads DEF ReasonSteps
  <2>7. ASSUME WasValidated(cite.key),
               Goto(t, [at |-> "ai_asked", cites |-> {cite}, single |-> TRUE])
        PROVE  AiInv'
    <3>1. PICK c : Goto(t, c) /\ c = [at |-> "ai_asked", cites |-> {cite}, single |-> TRUE]
      BY <2>7
    <3>2. c \in AiCalls /\ c.at = "ai_asked"
      BY <3>1 DEF AiCalls, QuestionCalls
    <3>3. Cites(c)
      BY <3>1, <2>7 DEF Cites
    <3>. QED
      BY <1>1, <3>1, <3>2, <3>3, KnowsByCites, OnlyReads DEF ReasonSteps
  <2>. QED
    BY <2>3, <2>4, <2>5, <2>6, <2>7
<1>. QED
  BY <1>3, <1>4, <1>5

(* ---- Steps of the gateway. ---- *)

\* A request is typed, for the question bank, by its step.
LEMMA AiTyped ==
  ASSUME NEW c \in AiCalls
  PROVE  Typed(c)
BY DEF AiCalls, LoadCalls, AuditCalls, AnswerCalls, ReasonCalls, AnalyzedCalls, PlainCalls,
       Typed, QuestionSteps

\* A step of the gateway that writes nothing.
LEMMA GatewayMove ==
  ASSUME AiInv, UNCHANGED <<questionTables, aiAudit, traceLog>>,
         NEW t \in Threads, NEW c \in AiCalls, Goto(t, c),
         c.at \notin PlannedSteps \cup {"ai_answered"}, AiKnows(c)
  PROVE  AiInv'
<1>1. UnchangedTables
  BY DEF UnchangedTables, questionTables
<1>2. QInv'
  BY <1>1, AiTyped, Harmless DEF AiInv
<1>. QED
  BY <1>1, <1>2, OnlyReads

\* Evidence is selected by its status.
LEMMA SelectStep ==
  ASSUME AiInv, NEW t \in Threads, SelectValidated(t), UNCHANGED traceLog
  PROVE  AiInv'
<1>1. PICK c : /\ Goto(t, c)
               /\ c = [at |-> "ai_load", cites |-> {},
                       pending |-> {k \in QuestionKeys : StatusMap[k] = "validated"}]
  BY DEF SelectValidated
<1>2. c \in AiCalls /\ c.at = "ai_load" /\ c.cites = {}
  BY <1>1 DEF AiCalls, LoadCalls
<1>3. ASSUME NEW k \in c.pending
      PROVE  WasValidated(k)
  <2>1. k \in QuestionKeys /\ records[k[1]][k[2]].status = "validated"
    BY <1>1, <1>3 DEF StatusMap
  <2>. QED
    BY <2>1, ValidatedStatus DEF AiInv
<1>4. Cites(c)
  BY <1>2, <1>3 DEF Cites
<1>. QED
  BY <1>1, <1>2, <1>4, KnowsByCites, GatewayMove
     DEF SelectValidated, PlannedSteps, OwningSteps, ReasonSteps

\* Evidence is loaded, one version at a time.
LEMMA LoadStep ==
  ASSUME AiInv, NEW t \in Threads, LoadEvidence(t), UNCHANGED traceLog
  PROVE  AiInv'
<1>1. PICK call \in AiCalls : call = calls[t] /\ Cites(call)
  BY DEF AiInv, AiKnows
<1>2. call.at = "ai_load" /\ UNCHANGED <<questionTables, aiAudit, traceLog>>
  BY <1>1 DEF LoadEvidence, At
<1>3. PICK cites \in SUBSET Citations, pending \in SUBSET QuestionKeys :
        call = [at |-> "ai_load", cites |-> cites, pending |-> pending]
  BY <1>2, CitingFields DEF LoadCalls
<1>4. /\ \A k \in pending : WasValidated(k)
      /\ \A cite \in cites : Grounded(cite)
  BY <1>1, <1>3 DEF Cites
<1>5. \/ Goto(t, [at |-> "ai_asked", cites |-> cites, single |-> FALSE])
      \/ \E k \in pending, matches \in BOOLEAN :
           Goto(t, [call EXCEPT
             !.pending = @ \ {k},
             !.cites = IF matches /\ k[2] \in Stored(k[1])
                         THEN @ \cup {Citation(k)}
                         ELSE @])
  <2>1. \/ Goto(t, [at |-> "ai_asked", cites |-> calls[t].cites, single |-> FALSE])
        \/ \E k \in calls[t].pending, matches \in BOOLEAN :
             Goto(t, [calls[t] EXCEPT
               !.pending = @ \ {k},
               !.cites = IF matches /\ k[2] \in Stored(k[1])
                           THEN @ \cup {Citation(k)}
                           ELSE @])
    BY Zenon DEF LoadEvidence
  <2>2. call.cites = cites /\ call.pending = pending
    BY <1>3
  <2>. QED
    BY <1>1, <2>1, <2>2, Zenon
<1>6. ASSUME Goto(t, [at |-> "ai_asked", cites |-> cites, single |-> FALSE])
      PROVE  AiInv'
  <2>1. PICK c : Goto(t, c) /\ c = [at |-> "ai_asked", cites |-> cites, single |-> FALSE]
    BY <1>6
  <2>2. c \in AiCalls /\ c.at = "ai_asked"
    BY <2>1 DEF AiCalls, QuestionCalls
  <2>3. Cites(c)
    BY <2>1, <1>4 DEF Cites
  <2>. QED
    BY <1>2, <2>1, <2>2, <2>3, KnowsByCites, GatewayMove
       DEF PlannedSteps, OwningSteps, ReasonSteps
<1>7. ASSUME NEW k \in pending, NEW matches \in BOOLEAN,
             Goto(t, [call EXCEPT
               !.pending = @ \ {k},
               !.cites = IF matches /\ k[2] \in Stored(k[1])
                           THEN @ \cup {Citation(k)}
                           ELSE @])
      PROVE  AiInv'
  <2>1. PICK new : new = IF matches /\ k[2] \in Stored(k[1]) THEN cites \cup {Citation(k)}
                                                              ELSE cites
    OBVIOUS
  <2>2. Grounded(Citation(k))
    BY <1>4 DEF Grounded, Citation
  <2>3. new \subseteq Citations
    BY <2>1, StoredText DEF AiInv, QInv, TablesInv
  <2>4. \A cite \in new : Grounded(cite)
    BY <2>1, <2>2, <1>4
  <2>5. PICK c : c = [at |-> "ai_load", cites |-> new, pending |-> pending \ {k}] /\ Goto(t, c)
    <3>1. PICK half : half = [call EXCEPT !.pending = @ \ {k}]
      OBVIOUS
    <3>2. half = [at |-> "ai_load", cites |-> cites, pending |-> pending \ {k}]
      BY <1>3, <3>1
    <3>3. [half EXCEPT !.cites = new]
            = [at |-> "ai_load", cites |-> new, pending |-> pending \ {k}]
      BY <3>2
    <3>4. [call EXCEPT
             !.pending = @ \ {k},
             !.cites = IF matches /\ k[2] \in Stored(k[1])
                         THEN @ \cup {Citation(k)}
                         ELSE @]
            = [half EXCEPT !.cites = IF matches /\ k[2] \in Stored(k[1])
                                       THEN @ \cup {Citation(k)}
                                       ELSE @]
      BY <3>1
    <3>5. half.cites = cites
      BY <3>2
    <3>. QED
      BY <1>7, <2>1, <3>3, <3>4, <3>5
  <2>6. c \in AiCalls /\ c.at = "ai_load"
    BY <2>3, <2>5 DEF AiCalls, LoadCalls
  <2>7. Cites(c)
    BY <2>4, <2>5, <1>4 DEF Cites
  <2>. QED
    BY <1>2, <2>5, <2>6, <2>7, KnowsByCites, GatewayMove
       DEF PlannedSteps, OwningSteps, ReasonSteps
<1>. QED
  BY <1>5, <1>6, <1>7

\* A client that is asked hands on text, raises one of two errors, or hands on
\* text that breaks later; the deterministic one does only the first.
LEMMA Outcomes ==
  ASSUME NEW name \in Providers, NEW outcome \in ModelOutcomes(name)
  PROVE  /\ outcome \in {"half_surrogate", "text"} \cup ModelErrors
         /\ name = "deterministic" => outcome = "text"
BY DEF ModelOutcomes, Validated, Completion, Providers, Replies, StringReplies, ModelErrors

\* The model answers, or does not.
LEMMA CompletionStep ==
  ASSUME AiInv, NEW t \in Threads, ModelCompletes(t), UNCHANGED traceLog
  PROVE  AiInv'
<1>1. PICK call \in AiCalls : call = calls[t] /\ Cites(call)
  BY DEF AiInv, AiKnows
<1>2. call.at = "ai_asked" /\ UNCHANGED <<questionTables, aiAudit, traceLog>>
  BY <1>1 DEF ModelCompletes, At
<1>3. /\ call.cites \subseteq Citations /\ call.single \in BOOLEAN
      /\ \A cite \in call.cites : IF call.single THEN WasValidated(cite.key) ELSE Grounded(cite)
      /\ call.single => call.cites # {}
  BY <1>1, <1>2, CitingFields DEF Cites
<1>4. PICK client \in {DefaultQueryClient(probe) : probe \in Probes} :
        \E outcome \in ModelOutcomes(client) :
          Goto(t,
             CASE outcome = "half_surrogate" /\ ~IsNotice(call) -> [at |-> "ai_failed"]
               [] outcome = "text" \/ (outcome = "half_surrogate" /\ IsNotice(call)) ->
                    [at |-> "ai_audit", client |-> client, error |-> None,
                     single |-> call.single, cites |-> call.cites]
               [] outcome \in ModelErrors ->
                    [at |-> "ai_audit", client |-> client, single |-> call.single,
                     error |-> IF call.single THEN outcome ELSE "ModelUnavailableError",
                     cites |-> {}])
  BY <1>1, Zenon DEF ModelCompletes
<1>5. client \in Providers /\ client # "anthropic"
  BY DEF DefaultQueryClient, Providers
<1>6. PICK outcome \in ModelOutcomes(client) :
          Goto(t,
             CASE outcome = "half_surrogate" /\ ~IsNotice(call) -> [at |-> "ai_failed"]
               [] outcome = "text" \/ (outcome = "half_surrogate" /\ IsNotice(call)) ->
                    [at |-> "ai_audit", client |-> client, error |-> None,
                     single |-> call.single, cites |-> call.cites]
               [] outcome \in ModelErrors ->
                    [at |-> "ai_audit", client |-> client, single |-> call.single,
                     error |-> IF call.single THEN outcome ELSE "ModelUnavailableError",
                     cites |-> {}])
  BY <1>4
<1>7. /\ outcome \in {"half_surrogate", "text"} \cup ModelErrors
      /\ client = "deterministic" => outcome = "text"
  BY <1>5, Outcomes
<1>8. None \notin ModelErrors
  BY GatewayAssumption
<1>9. CASE outcome = "half_surrogate" /\ ~IsNotice(call)
  <2>1. PICK c : Goto(t, c) /\ c = [at |-> "ai_failed"]
    <3>1. outcome # "text" /\ outcome \notin ModelErrors
      BY <1>9 DEF ModelErrors
    <3>. QED
      BY <1>6, <1>9, <3>1
  <2>2. c \in AiCalls /\ c.at = "ai_failed"
    BY <2>1 DEF AiCalls, PlainCalls
  <2>. QED
    BY <1>2, <2>1, <2>2, PlainKnows, GatewayMove
       DEF PlannedSteps, OwningSteps, CitingSteps, ReasonSteps
<1>10. CASE outcome = "text" \/ (outcome = "half_surrogate" /\ IsNotice(call))
  <2>1. PICK c : /\ Goto(t, c)
                 /\ c = [at |-> "ai_audit", client |-> client, error |-> None,
                         single |-> call.single, cites |-> call.cites]
    <3>1. ~(outcome = "half_surrogate" /\ ~IsNotice(call)) /\ outcome \notin ModelErrors
      BY <1>10 DEF ModelErrors
    <3>. QED
      BY <1>6, <1>10, <3>1
  <2>2. c \in AiCalls /\ c.at = "ai_audit"
    BY <2>1, <1>3, <1>5 DEF AiCalls, AuditCalls
  <2>3. Cites(c)
    BY <2>1, <1>3 DEF Cites
  <2>4. Failed(c)
    BY <2>1, <1>5, <1>8 DEF Failed, ModelErrors
  <2>5. AiKnows(c)
    BY <2>2, <2>3, <2>4 DEF AiKnows, Recorded, Reasoned, ReasonRecorded, ReasonSteps
  <2>. QED
    BY <1>2, <2>1, <2>2, <2>5, GatewayMove DEF PlannedSteps, OwningSteps
<1>11. CASE outcome \in ModelErrors
  <2>1. outcome # "half_surrogate" /\ outcome # "text" /\ "ModelUnavailableError" \in ModelErrors
    BY <1>11 DEF ModelErrors
  <2>2. PICK error \in ModelErrors :
          error = IF call.single THEN outcome ELSE "ModelUnavailableError"
    BY <1>11, <2>1
  <2>3. PICK c : /\ Goto(t, c)
                 /\ c = [at |-> "ai_audit", client |-> client, single |-> call.single,
                         error |-> error, cites |-> {}]
    BY <1>6, <1>11, <2>1, <2>2
  <2>4. c \in AiCalls /\ c.at = "ai_audit"
    BY <2>3, <1>3, <1>5 DEF AiCalls, AuditCalls
  <2>5. Cites(c)
    BY <2>2, <2>3, <1>8 DEF Cites
  <2>6. Failed(c)
    BY <2>1, <2>2, <2>3, <1>5, <1>7 DEF Failed
  <2>7. AiKnows(c)
    BY <2>4, <2>5, <2>6 DEF AiKnows, Recorded, Reasoned, ReasonRecorded, ReasonSteps
  <2>. QED
    BY <1>2, <2>3, <2>4, <2>7, GatewayMove DEF PlannedSteps, OwningSteps
<1>. QED
  BY <1>7, <1>9, <1>10, <1>11

\* The models are listed.
LEMMA ProvidersStep ==
  ASSUME AiInv, NEW t \in Threads, ListProviders(t), UNCHANGED traceLog
  PROVE  AiInv'
<1>1. PICK probe \in Probes :
        Goto(t, [at |-> "ai_providers",
                 readiness |-> [name \in Providers |-> ReadinessStatus(name, probe)]])
  BY DEF ListProviders
<1>2. \A name \in Providers : ReadinessStatus(name, probe) \in ReadinessStatuses
  BY DEF ReadinessStatus, ReadinessStatuses, CheckReadiness, Providers, Probes
<1>3. PICK c : /\ Goto(t, c)
               /\ c = [at |-> "ai_providers",
                       readiness |-> [name \in Providers |-> ReadinessStatus(name, probe)]]
  BY <1>1
<1>4. c \in AiCalls /\ c.at = "ai_providers"
  BY <1>2, <1>3 DEF AiCalls, PlainCalls
<1>. QED
  BY <1>3, <1>4, PlainKnows, GatewayMove
     DEF ListProviders, PlannedSteps, OwningSteps, CitingSteps, ReasonSteps

\* A row is appended to the audit table.
LEMMA AuditAppended ==
  ASSUME AuditOK, NEW row \in GatewayRows \cup ReasonRows, aiAudit' = Append(aiAudit, row)
  PROVE  /\ AuditOK' /\ AuditGrows
         /\ Len(aiAudit) + 1 \in 1..Len(aiAudit')
         /\ aiAudit'[Len(aiAudit) + 1] = row
<1>1. aiAudit \in Seq(GatewayRows \cup ReasonRows)
  BY DEF AuditOK
<1>2. /\ aiAudit' \in Seq(GatewayRows \cup ReasonRows)
      /\ Len(aiAudit') = Len(aiAudit) + 1
      /\ \A n \in 1..Len(aiAudit) : aiAudit'[n] = aiAudit[n]
      /\ aiAudit'[Len(aiAudit) + 1] = row
  BY <1>1, AppendProperties
<1>. QED
  BY <1>1, <1>2 DEF AuditOK, AuditGrows

\* A new row is nobody's yet.
LEMMA NewRow ==
  ASSUME AiInv, NEW u \in Threads, calls[u].at = "ai_answered"
  PROVE  calls[u].row # Len(aiAudit) + 1
<1>1. Len(aiAudit) \in Nat
  BY DEF AiInv, AuditOK
<1>2. calls[u].row \in 1..Len(aiAudit)
  BY DEF AiInv, AiKnows, Recorded
<1>. QED
  BY <1>1, <1>2

\* What is written of a call.
LEMMA RowWritten ==
  ASSUME NEW call \in AuditCalls
  PROVE  /\ AuditRow(call) \in GatewayRows
         /\ AuditRow(call).error = call.error
         /\ AuditRow(call).model = None <=>
              call.error = None /\ ~call.single /\ call.cites = {}
         /\ AuditRow(call).model # None => AuditRow(call).model = call.client
         /\ AuditRow(call).model = None => AuditRow(call).label = None
         /\ AuditRow(call).evidence = {cite.key[1] : cite \in call.cites}
         /\ AuditRow(call).label = "VALIDATED" =>
              ~call.single /\ \A cite \in call.cites : cite.text \in HighConfidence
<1>. DEFINE status == IF call.error = None /\ call.single THEN "PASS"
                                                          ELSE EvidenceStatus(call.cites)
            label == IF call.single THEN None ELSE ResultLabel(status)
            evidence == {cite.key[1] : cite \in call.cites}
            model == IF call.error = None /\ IsNotice(call) THEN None ELSE call.client
<1>1. AuditRow(call) = [model |-> model, error |-> call.error, evidence |-> evidence,
                        status |-> status, label |-> label]
  BY DEF AuditRow
<1>2. EvidenceStatus(call.cites) \in {"PASS", "WARN", "FAIL"}
  BY DEF EvidenceStatus
<1>3. /\ status \in {"PASS", "WARN", "FAIL"}
      /\ label \in {"VALIDATED", "ESTIMATED", None}
  BY <1>2 DEF ResultLabel
<1>4. evidence \subseteq Questions
  BY DEF AuditCalls, Citations, QuestionKeys
<1>5. ASSUME label = "VALIDATED"
      PROVE  ~call.single /\ \A cite \in call.cites : cite.text \in HighConfidence
  <2>1. ~call.single
    BY <1>5, GatewayAssumption
  <2>2. status = EvidenceStatus(call.cites) /\ ResultLabel(status) = "VALIDATED"
    BY <1>5, <2>1
  <2>3. EvidenceStatus(call.cites) = "PASS"
    BY <1>2, <2>2, GatewayAssumption DEF ResultLabel
  <2>. QED
    BY <2>1, <2>3 DEF EvidenceStatus
<1>6. call.client # None /\ model \in Providers \cup {None}
  BY GatewayAssumption DEF AuditCalls, Providers
<1>7. /\ model = None <=> call.error = None /\ ~call.single /\ call.cites = {}
      /\ model # None => model = call.client
  BY <1>6 DEF IsNotice
<1>8. model = None => label = None
  <2>. SUFFICES ASSUME model = None PROVE label = None
    OBVIOUS
  <2>1. ~call.single /\ call.cites = {}
    BY <1>7
  <2>2. status = "FAIL"
    BY <2>1 DEF EvidenceStatus
  <2>. QED
    BY <2>1, <2>2 DEF ResultLabel
<1>. HIDE DEF status, label, evidence, model
<1>9. AuditRow(call) \in GatewayRows
  BY <1>1, <1>3, <1>4, <1>6 DEF GatewayRows, AuditCalls
<1>. QED
  BY <1>1, <1>5, <1>7, <1>8, <1>9 DEF evidence

\* The answer is recorded, in a row of its own.
LEMMA RecordStep ==
  ASSUME AiInv, NEW t \in Threads, RecordInteraction(t), UNCHANGED traceLog
  PROVE  AiInv'
<1>1. PICK call \in AiCalls : call = calls[t] /\ Cites(call) /\ Failed(call)
  BY DEF AiInv, AiKnows
<1>2. call.at = "ai_audit" /\ call \in AuditCalls /\ UnchangedTables
  BY <1>1, CitingFields DEF RecordInteraction, At, UnchangedTables
<1>3. PICK row \in GatewayRows : row = AuditRow(call)
  BY <1>2, RowWritten
<1>4. PICK no : no = Len(aiAudit) + 1
  OBVIOUS
<1>5. PICK c : /\ Goto(t, c)
               /\ c = [at |-> "ai_answered", error |-> call.error, cites |-> call.cites,
                       single |-> call.single, row |-> no]
  BY <1>1, <1>4 DEF RecordInteraction
<1>6. /\ AuditOK' /\ AuditGrows /\ no \in 1..Len(aiAudit') /\ aiAudit'[no] = row
  BY <1>1, <1>3, <1>4, AuditAppended DEF AiInv, RecordInteraction
<1>7. no \in Nat
  BY <1>4 DEF AiInv, AuditOK
<1>8. c \in AiCalls /\ c \in AnswerCalls /\ c.at = "ai_answered"
  BY <1>2, <1>5, <1>7 DEF AiCalls, AuditCalls, AnswerCalls
<1>9. TracesOK' /\ TracesGrow /\ BankKept
  BY <1>2, TracesStay, NothingChanged DEF AiInv, UnchangedTables, questionTables
<1>10. Cites(call)'
  BY <1>1, <1>9, CitesStay
<1>11. Cites(c)'
  BY <1>2, <1>5, <1>8, <1>10 DEF Cites
<1>12. Recorded(c)'
  <2>1. /\ row.error = call.error
        /\ row.model = None <=> call.error = None /\ ~call.single /\ call.cites = {}
        /\ row.model # None => row.model = call.client
        /\ row.model = None => row.label = None
        /\ row.evidence = {cite.key[1] : cite \in call.cites}
        /\ row.label = "VALIDATED" =>
             ~call.single /\ \A cite \in call.cites : cite.text \in HighConfidence
    BY <1>2, <1>3, RowWritten
  <2>2. /\ call.client # "anthropic"
        /\ call.client = "deterministic" => call.error = None
        /\ call.error = "ModelTimeoutError" => call.single
    BY <1>1, <1>2 DEF Failed
  <2>3. /\ c.row = no /\ c.error = call.error /\ c.cites = call.cites
        /\ c.single = call.single
    BY <1>5
  <2>4. call.single /\ call.error = None => call.cites # {}
    BY <1>1, <1>2 DEF Cites
  <2>5. row.model = None <=> call.error = None /\ call.cites = {}
    BY <2>1, <2>4
  <2>6. /\ row.model # "anthropic"
        /\ row.model = "deterministic" => call.error = None
    BY <2>1, <2>2, GatewayAssumption
  <2>. QED
    BY <1>6, <2>1, <2>2, <2>3, <2>5, <2>6 DEF Recorded
<1>13. AiKnows(c)'
  BY <1>8, <1>11, <1>12 DEF AiKnows, Failed, Reasoned, ReasonRecorded, ReasonSteps
<1>14. QInv'
  BY <1>2, <1>5, <1>8, AiTyped, Harmless DEF AiInv, PlannedSteps, OwningSteps
<1>15. \A u \in Threads \ {t} : ~SameRow(c, calls[u])
  BY <1>4, <1>5, NewRow DEF SameRow
<1>. QED
  BY <1>5, <1>6, <1>8, <1>9, <1>13, <1>14, <1>15, AiCallMoves

(* ---- Recommendations and reasonings. ---- *)

\* The inputs of the requests are such inputs.
LEMMA InputIsAsked ==
  ASSUME NEW i \in JointInputs
  PROVE  Asked(i)
BY InputsAssumption DEF Asked

\* What a reasoning says of the row it was read from.
LEMMA ReasonFacts ==
  ASSUME NEW row \in Traces
  PROVE  LET r == Reason(row)
         IN  /\ r \in Reasons
             /\ r.conclusion \in {None, row.result}
             /\ r.state = "SUPPORTED" => row.result.status = "recommended"
             /\ r.state = "UNSUPPORTED" => row.result.status # "recommended"
             /\ row.damage = None => r.conclusion # None
             /\ r.conclusion = None => r.label = None \/ row.damage = "unknown_status"
<1>1. row.result \in Recommendations /\ row.result # None
  BY ReasoningAssumption DEF Traces, Recommendations
<1>2. None \notin Damages
  BY ReasoningAssumption
<1>3. PICK evidence \in BOOLEAN : evidence = EvidenceFound(row.damage)
  BY DEF EvidenceFound, HasFormulas
<1>4. PICK state : state = IF ~evidence \/ row.damage = "unknown_status" THEN "INSUFFICIENT_EVIDENCE"
                           ELSE IF row.result.status = "recommended" THEN "SUPPORTED"
                           ELSE "UNSUPPORTED"
  OBVIOUS
<1>5. Reason(row) =
        [state |-> state, evidence |-> IF evidence THEN "PASS" ELSE "FAIL",
         label |-> IF evidence THEN "CALCULATED" ELSE None,
         conclusion |-> IF state = "INSUFFICIENT_EVIDENCE" THEN None ELSE row.result]
  BY <1>3, <1>4 DEF Reason
<1>6. row.damage = None => evidence /\ row.damage # "unknown_status"
  BY <1>2, <1>3 DEF EvidenceFound, HasFormulas, Damages
<1>. QED
  BY <1>1, <1>4, <1>5, <1>6 DEF Reasons

\* A row is appended to the traces.
LEMMA TracesAppended ==
  ASSUME TracesOK, NEW row \in Traces, row.result = Recommendation(row.inputs),
         traceLog' = Append(traceLog, row)
  PROVE  TracesOK' /\ TracesGrow
<1>1. traceLog \in Seq(Traces)
  BY DEF TracesOK
<1>2. /\ traceLog' \in Seq(Traces)
      /\ Len(traceLog') = Len(traceLog) + 1
      /\ \A n \in 1..Len(traceLog) : traceLog'[n] = traceLog[n]
      /\ traceLog'[Len(traceLog) + 1] = row
  BY <1>1, AppendProperties
<1>3. TracesOK'
  BY <1>1, <1>2 DEF TracesOK
<1>4. TracesGrow
  BY <1>1, <1>2 DEF TracesGrow
<1>. QED
  BY <1>3, <1>4

\* A recommendation is traced.
LEMMA RecommendStep ==
  ASSUME AiInv, NEW t \in Threads, RecommendTorque(t), UNCHANGED questionTables
  PROVE  AiInv'
<1>1. PICK i \in TracedInputs, u \in Users :
        IF Rejected(i)
          THEN Goto(t, [at |-> "joint_rejected"]) /\ traceLog' = traceLog
          ELSE /\ traceLog' = Append(traceLog, [user |-> u, inputs |-> i, damage |-> None,
                                                result |-> Recommendation(i)])
               /\ Goto(t, [at |-> "recommended", trace |-> Len(traceLog) + 1])
  BY Zenon DEF RecommendTorque
<1>2. aiAudit' = aiAudit /\ UnchangedTables
  BY DEF RecommendTorque, UnchangedTables
<1>3. Len(traceLog) + 1 \in Nat
  BY DEF AiInv, TracesOK
<1>4. PICK c : Goto(t, c) /\ c \in PlainCalls /\ c.at \in {"joint_rejected", "recommended"}
  <2>1. CASE Rejected(i)
    <3>1. [at |-> "joint_rejected"] \in PlainCalls
      BY DEF PlainCalls
    <3>. QED
      BY <1>1, <2>1, <3>1
  <2>2. CASE ~Rejected(i)
    <3>1. [at |-> "recommended", trace |-> Len(traceLog) + 1] \in PlainCalls
      BY <1>3 DEF PlainCalls
    <3>. QED
      BY <1>1, <2>2, <3>1
  <2>. QED
    BY <2>1, <2>2
<1>5. TracesOK' /\ TracesGrow
  <2>1. CASE Rejected(i)
    BY <1>1, <2>1, TracesStay DEF AiInv
  <2>2. CASE ~Rejected(i)
    <3>1. PICK row : row = [user |-> u, inputs |-> i, damage |-> None,
                            result |-> Recommendation(i)]
      OBVIOUS
    <3>2. i \in JointInputs
      BY InputsAssumption
    <3>3. row \in Traces /\ row.result = Recommendation(row.inputs)
      BY <3>1, <3>2 DEF Traces, Recommendations
    <3>. QED
      BY <1>1, <2>2, <3>1, <3>3, TracesAppended DEF AiInv
  <2>. QED
    BY <2>1, <2>2
<1>6. c \in AiCalls
  BY <1>4 DEF AiCalls
<1>7. QInv'
  BY <1>2, <1>4, <1>6, AiTyped, Harmless DEF AiInv, PlannedSteps, OwningSteps
<1>8. AiKnows(c)' /\ \A d : ~SameRow(c, d)
  BY <1>4, Unknowing DEF CitingSteps, ReasonSteps
<1>9. AuditOK' /\ AuditGrows /\ BankKept
  BY <1>2, AuditStays, NothingChanged DEF AiInv, UnchangedTables, questionTables
<1>. QED
  BY <1>4, <1>5, <1>6, <1>7, <1>8, <1>9, AiCallMoves

\* A request moves to a step that promises nothing, and nothing is written.
LEMMA PlainMove ==
  ASSUME AiInv, UNCHANGED <<questionTables, aiAudit, traceLog>>,
         NEW t \in Threads, NEW c \in AiCalls, Goto(t, c),
         c.at \in {"idle", "joint_rejected", "joint_analyzed", "reason_not_found",
                   "reason_forbidden", "reason_failed"}
  PROVE  AiInv'
BY PlainKnows, GatewayMove DEF PlannedSteps, OwningSteps, CitingSteps, ReasonSteps

\* A joint is analyzed, without a trace.
LEMMA AnalyzeStep ==
  ASSUME AiInv, NEW t \in Threads, AnalyzeJoint(t),
         UNCHANGED <<questionTables, aiAudit, traceLog>>
  PROVE  AiInv'
<1>1. PICK i \in JointInputs :
        \/ Goto(t, [at |-> "joint_rejected"])
        \/ Goto(t, [at |-> "joint_analyzed", inputs |-> i])
  BY DEF AnalyzeJoint
<1>2. PICK c : Goto(t, c) /\ c \in {[at |-> "joint_rejected"],
                                    [at |-> "joint_analyzed", inputs |-> i]}
  BY <1>1
<1>3. c \in AiCalls /\ c.at \in {"joint_rejected", "joint_analyzed"}
  BY <1>2 DEF AiCalls, PlainCalls, AnalyzedCalls
<1>. QED
  BY <1>2, <1>3, PlainMove

\* A reasoning is drawn from the row as it is now.
LEMMA AskStep ==
  ASSUME AiInv, NEW t \in Threads, AskReasoning(t), UNCHANGED questionTables
  PROVE  AiInv'
<1>1. PICK n \in 1..(MaxTraces + 1), u \in Users, isAdmin \in BOOLEAN,
           provider \in Providers \cup {None, "unknown"} :
        IF n \notin DOMAIN traceLog
          THEN Goto(t, [at |-> "reason_not_found"])
          ELSE IF traceLog[n].user # u /\ ~isAdmin
            THEN Goto(t, [at |-> "reason_forbidden"])
            ELSE Goto(t, [at |-> "reason_wording", trace |-> n, user |-> u,
                          isAdmin |-> isAdmin, provider |-> provider,
                          formulas |-> HasFormulas(traceLog[n].damage),
                          reasoning |-> Reason(traceLog[n])])
  BY Zenon DEF AskReasoning
<1>2. UNCHANGED <<questionTables, aiAudit, traceLog>>
  BY DEF AskReasoning
<1>3. CASE n \notin DOMAIN traceLog
  <2>1. PICK c : Goto(t, c) /\ c = [at |-> "reason_not_found"]
    BY <1>1, <1>3
  <2>2. c \in AiCalls /\ c.at = "reason_not_found"
    BY <2>1 DEF AiCalls, PlainCalls
  <2>. QED
    BY <1>2, <2>1, <2>2, PlainMove
<1>4. CASE n \in DOMAIN traceLog /\ traceLog[n].user # u /\ ~isAdmin
  <2>1. PICK c : Goto(t, c) /\ c = [at |-> "reason_forbidden"]
    BY <1>1, <1>4
  <2>2. c \in AiCalls /\ c.at = "reason_forbidden"
    BY <2>1 DEF AiCalls, PlainCalls
  <2>. QED
    BY <1>2, <2>1, <2>2, PlainMove
<1>5. CASE n \in DOMAIN traceLog /\ ~(traceLog[n].user # u /\ ~isAdmin)
  <2>1. PICK formulas \in BOOLEAN : formulas = HasFormulas(traceLog[n].damage)
    BY DEF HasFormulas
  <2>2. PICK row \in Traces : row = traceLog[n]
    BY <1>5 DEF AiInv, TracesOK
  <2>3. PICK reasoning \in Reasons :
          /\ reasoning = Reason(row)
          /\ reasoning.conclusion \in {None, row.result}
          /\ reasoning.state = "SUPPORTED" => row.result.status = "recommended"
          /\ reasoning.state = "UNSUPPORTED" => row.result.status # "recommended"
          /\ row.damage = None => reasoning.conclusion # None
          /\ reasoning.conclusion = None => reasoning.label = None \/ row.damage = "unknown_status"
    BY ReasonFacts
  <2>4. Goto(t, [at |-> "reason_wording", trace |-> n, user |-> u,
                 isAdmin |-> isAdmin, provider |-> provider,
                 formulas |-> HasFormulas(traceLog[n].damage),
                 reasoning |-> Reason(traceLog[n])])
    BY <1>1, <1>5
  <2>5. PICK c : /\ Goto(t, c)
                 /\ c = [at |-> "reason_wording", trace |-> n, user |-> u,
                         isAdmin |-> isAdmin, provider |-> provider,
                         formulas |-> formulas, reasoning |-> reasoning]
    BY <2>1, <2>2, <2>3, <2>4
  <2>6. n \in Nat /\ n \in 1..Len(traceLog)
    BY <1>5 DEF AiInv, TracesOK
  <2>7. c \in AiCalls /\ c.at = "reason_wording"
    BY <2>5, <2>6 DEF AiCalls, ReasonCalls, Wordings
  <2>8. Reasoned(c)
    BY <1>5, <2>2, <2>3, <2>5, <2>6 DEF Reasoned
  <2>9. AiKnows(c)
    BY <2>7, <2>8 DEF AiKnows, Cites, Failed, Recorded, ReasonRecorded
  <2>. QED
    BY <1>2, <2>5, <2>7, <2>9, GatewayMove DEF PlannedSteps, OwningSteps
<1>. QED
  BY <1>3, <1>4, <1>5

\* The conclusion is worded, or is not.
LEMMA WordStep ==
  ASSUME AiInv, NEW t \in Threads, WordConclusion(t), UNCHANGED questionTables
  PROVE  AiInv'
<1>1. PICK call \in AiCalls : call = calls[t] /\ Reasoned(call)
  BY DEF AiInv, AiKnows
<1>2. call.at = "reason_wording" /\ UNCHANGED <<questionTables, aiAudit, traceLog>>
  BY <1>1 DEF WordConclusion, At
<1>3. PICK trace \in Nat, u \in Users, isAdmin \in BOOLEAN, provider \in Wordings,
           formulas \in BOOLEAN, reasoning \in Reasons :
        call = [at |-> "reason_wording", trace |-> trace, user |-> u, isAdmin |-> isAdmin,
                provider |-> provider, formulas |-> formulas, reasoning |-> reasoning]
  <2>1. call \in [at : {"reason_wording", "reason_record"}, trace : Nat, user : Users,
                  isAdmin : BOOLEAN, provider : Wordings, formulas : BOOLEAN,
                  reasoning : Reasons]
    BY <1>2, ReasonFields DEF ReasonCalls, ReasonSteps
  <2>. QED
    BY <1>2, <2>1
<1>. DEFINE asked == reasoning.conclusion # None /\ provider \in Providers
<1>4. PICK outcome \in (IF asked THEN ModelOutcomes(provider) ELSE {None}) :
        Goto(t, IF outcome = "half_surrogate"
                  THEN [at |-> "reason_failed"]
                  ELSE [call EXCEPT !.at = "reason_record",
                                    !.provider = IF outcome = "text" THEN @ ELSE None])
  <2>1. \E outcome \in (IF calls[t].reasoning.conclusion # None /\ calls[t].provider \in Providers
                          THEN ModelOutcomes(calls[t].provider) ELSE {None}) :
          Goto(t, IF outcome = "half_surrogate"
                    THEN [at |-> "reason_failed"]
                    ELSE [calls[t] EXCEPT !.at = "reason_record",
                                          !.provider = IF outcome = "text" THEN @ ELSE None])
    BY Zenon DEF WordConclusion
  <2>2. call.reasoning = reasoning /\ call.provider = provider
    BY <1>3
  <2>. QED
    BY <1>1, <2>1, <2>2, Zenon
<1>5. CASE outcome = "half_surrogate"
  <2>1. PICK c : Goto(t, c) /\ c = [at |-> "reason_failed"]
    BY <1>4, <1>5
  <2>2. c \in AiCalls /\ c.at = "reason_failed"
    BY <2>1 DEF AiCalls, PlainCalls
  <2>. QED
    BY <1>2, <2>1, <2>2, PlainMove
<1>6. CASE outcome # "half_surrogate"
  <2>1. PICK worder : worder = IF outcome = "text" THEN provider ELSE None
    OBVIOUS
  <2>2. worder \in Wordings /\ (reasoning.conclusion = None => worder = None)
    <3>1. worder \in Wordings
      BY <2>1 DEF Wordings
    <3>2. ASSUME reasoning.conclusion = None
          PROVE  worder = None
      <4>1. outcome = None
        BY <1>4, <3>2
      <4>. QED
        BY <2>1, <4>1, ReasoningAssumption
    <3>. QED
      BY <3>1, <3>2
  <2>3. PICK c : /\ Goto(t, c)
                 /\ c = [at |-> "reason_record", trace |-> trace, user |-> u,
                         isAdmin |-> isAdmin, provider |-> worder,
                         formulas |-> formulas, reasoning |-> reasoning]
    <3>1. PICK half : half = [call EXCEPT !.at = "reason_record"]
      OBVIOUS
    <3>2. half = [at |-> "reason_record", trace |-> trace, user |-> u,
                  isAdmin |-> isAdmin, provider |-> provider,
                  formulas |-> formulas, reasoning |-> reasoning]
      BY <1>3, <3>1
    <3>3. [half EXCEPT !.provider = worder]
            = [at |-> "reason_record", trace |-> trace, user |-> u,
               isAdmin |-> isAdmin, provider |-> worder,
               formulas |-> formulas, reasoning |-> reasoning]
      BY <3>2
    <3>4. Goto(t, [call EXCEPT !.at = "reason_record",
                               !.provider = IF outcome = "text" THEN @ ELSE None])
      BY <1>4, <1>6
    <3>5. [call EXCEPT !.at = "reason_record",
                       !.provider = IF outcome = "text" THEN @ ELSE None]
            = [half EXCEPT !.provider = IF outcome = "text" THEN @ ELSE None]
      BY <3>1
    <3>6. half.provider = provider
      BY <3>2
    <3>. QED
      BY <2>1, <3>3, <3>4, <3>5, <3>6
  <2>4. c \in AiCalls /\ c.at = "reason_record"
    BY <2>2, <2>3 DEF AiCalls, ReasonCalls
  <2>5. Reasoned(c)
    <3>1. /\ c.trace = call.trace /\ c.user = call.user /\ c.isAdmin = call.isAdmin
          /\ c.reasoning = call.reasoning /\ c.reasoning = reasoning /\ c.provider = worder
      BY <1>3, <2>3
    <3>. QED
      BY <1>1, <1>2, <2>2, <2>4, <3>1 DEF Reasoned, ReasonSteps
  <2>6. AiKnows(c)
    BY <2>4, <2>5 DEF AiKnows, Cites, Failed, Recorded, ReasonRecorded
  <2>. QED
    BY <1>2, <2>3, <2>4, <2>6, GatewayMove DEF PlannedSteps, OwningSteps
<1>. QED
  BY <1>5, <1>6

\* The reasoning is recorded, in a row of its own.
LEMMA RecordReasonStep ==
  ASSUME AiInv, NEW t \in Threads, RecordReasoning(t), UNCHANGED questionTables
  PROVE  AiInv'
<1>1. PICK call \in AiCalls : call = calls[t] /\ Reasoned(call)
  BY DEF AiInv, AiKnows
<1>2. call.at = "reason_record" /\ UnchangedTables /\ traceLog' = traceLog
  BY <1>1 DEF RecordReasoning, At, UnchangedTables
<1>3. call \in [at : {"reason_wording", "reason_record"}, trace : Nat, user : Users,
                isAdmin : BOOLEAN, provider : Wordings, formulas : BOOLEAN,
                reasoning : Reasons]
  BY <1>2, ReasonFields DEF ReasonCalls, ReasonSteps
<1>4. PICK row : row = [trace |-> call.trace, user |-> call.user, model |-> call.provider,
                        formulas |-> call.formulas, status |-> call.reasoning.evidence,
                        label |-> call.reasoning.label]
  OBVIOUS
<1>5. row \in ReasonRows
  BY <1>3, <1>4 DEF ReasonRows, Reasons
<1>6. PICK no : no = Len(aiAudit) + 1
  OBVIOUS
<1>7. PICK c : /\ Goto(t, c)
               /\ c = [at |-> "reason_answered", trace |-> call.trace, user |-> call.user,
                       isAdmin |-> call.isAdmin, provider |-> call.provider,
                       formulas |-> call.formulas, reasoning |-> call.reasoning, row |-> no]
  BY <1>1, <1>6 DEF RecordReasoning
<1>8. /\ AuditOK' /\ AuditGrows /\ no \in 1..Len(aiAudit') /\ aiAudit'[no] = row
  BY <1>1, <1>4, <1>5, <1>6, AuditAppended DEF AiInv, RecordReasoning
<1>9. no \in Nat
  BY <1>6 DEF AiInv, AuditOK
<1>10. c \in AiCalls /\ c.at = "reason_answered"
  BY <1>3, <1>7, <1>9 DEF AiCalls, ReasonCalls
<1>11. TracesOK' /\ TracesGrow /\ BankKept
  BY <1>2, TracesStay, NothingChanged DEF AiInv, UnchangedTables, questionTables
<1>12. Reasoned(c)
  <2>1. /\ c.trace = call.trace /\ c.user = call.user /\ c.isAdmin = call.isAdmin
        /\ c.reasoning = call.reasoning /\ c.provider = call.provider
    BY <1>7
  <2>. QED
    BY <1>1, <1>2, <1>10, <2>1 DEF Reasoned, ReasonSteps
<1>13. Reasoned(c)'
  BY <1>2, <1>12 DEF Reasoned
<1>14. ReasonRecorded(c)'
  <2>1. /\ c.trace = call.trace /\ c.user = call.user /\ c.provider = call.provider
        /\ c.reasoning = call.reasoning /\ c.row = no
    BY <1>7
  <2>2. /\ row.trace = call.trace /\ row.user = call.user /\ row.model = call.provider
        /\ row.label = call.reasoning.label
    BY <1>4
  <2>. QED
    BY <1>8, <2>1, <2>2 DEF ReasonRecorded
<1>15. AiKnows(c)'
  BY <1>10, <1>13, <1>14 DEF AiKnows, Cites, Failed, Recorded
<1>16. QInv'
  BY <1>2, <1>7, <1>10, AiTyped, Harmless DEF AiInv, PlannedSteps, OwningSteps
<1>17. \A u \in Threads \ {t} : ~SameRow(c, calls[u])
  BY <1>10 DEF SameRow
<1>. QED
  BY <1>7, <1>8, <1>10, <1>11, <1>15, <1>16, <1>17, AiCallMoves

\* Damage is to one row, once; what that row is about stays.
LEMMA DamageStep ==
  ASSUME AiInv, DamageTrace, UNCHANGED questionTables
  PROVE  AiInv'
<1>1. PICK n \in DOMAIN traceLog, d \in Damages :
        /\ \A m \in DOMAIN traceLog : traceLog[m].damage = None
        /\ traceLog' = [traceLog EXCEPT ![n].damage = d]
  BY DEF DamageTrace
<1>2. /\ aiAudit' = aiAudit /\ calls' = calls
      /\ content' = content /\ records' = records /\ history' = history
      /\ lifecycleAudit' = lifecycleAudit
  BY DEF DamageTrace, questionTables
<1>3. traceLog \in Seq(Traces) /\ n \in 1..Len(traceLog)
  BY <1>1 DEF AiInv, TracesOK
<1>4. [traceLog[n] EXCEPT !.damage = d] \in Traces
  <2>1. PICK row \in Traces : row = traceLog[n]
    BY <1>3
  <2>2. [row EXCEPT !.damage = d] \in Traces
    <3>1. d \in Damages \cup {None}
      BY <1>1
    <3>2. row = [user |-> row.user, inputs |-> row.inputs, damage |-> row.damage,
                 result |-> row.result]
      BY <2>1 DEF Traces
    <3>3. [row EXCEPT !.damage = d] =
            [user |-> row.user, inputs |-> row.inputs, damage |-> d, result |-> row.result]
      BY <3>2
    <3>. QED
      BY <2>1, <3>1, <3>3 DEF Traces
  <2>. QED
    BY <2>1, <2>2
<1>5. /\ traceLog' \in Seq(Traces) /\ Len(traceLog') = Len(traceLog)
      /\ \A m \in 1..Len(traceLog) :
           traceLog'[m] = IF m = n THEN [traceLog[m] EXCEPT !.damage = d] ELSE traceLog[m]
  <2>1. traceLog' = [traceLog EXCEPT ![n] = [traceLog[n] EXCEPT !.damage = d]]
    BY <1>1
  <2>. QED
    BY <1>3, <1>4, <2>1
<1>6. ASSUME NEW m \in 1..Len(traceLog)
      PROVE  /\ traceLog'[m].user = traceLog[m].user
             /\ traceLog'[m].inputs = traceLog[m].inputs
             /\ traceLog'[m].result = traceLog[m].result
             /\ \/ traceLog'[m].damage = traceLog[m].damage
                \/ traceLog[m].damage = None /\ traceLog'[m].damage \in Damages
  <2>1. traceLog[m] \in Traces
    BY <1>3
  <2>2. CASE m = n
    <3>1. traceLog'[m] = [traceLog[m] EXCEPT !.damage = d]
      BY <1>5, <2>2
    <3>2. /\ traceLog'[m].user = traceLog[m].user
          /\ traceLog'[m].inputs = traceLog[m].inputs
          /\ traceLog'[m].result = traceLog[m].result
          /\ traceLog'[m].damage = d
      BY <2>1, <3>1 DEF Traces
    <3>. QED
      BY <1>1, <1>3, <2>2, <3>2
  <2>3. CASE m # n
    BY <1>5, <2>3
  <2>. QED
    BY <2>2, <2>3
<1>7. TracesOK'
  BY <1>3, <1>5, <1>6 DEF AiInv, TracesOK
<1>8. TracesGrow
  BY <1>5, <1>6 DEF TracesGrow
<1>9. AuditOK' /\ AuditGrows /\ BankKept
  BY <1>2, AuditStays, NothingChanged DEF AiInv
<1>10. QInv'
  BY <1>2, NextKeepsQInv DEF AiInv, questionVars, questionTables
<1>11. ASSUME NEW t \in Threads
       PROVE  AiKnows(calls[t])'
  <2>1. PICK c \in AiCalls : c = calls[t] /\ AiKnows(c)
    BY DEF AiInv
  <2>2. AiKnows(c)'
    BY <2>1, <1>8, <1>9, KnowledgeStays DEF AiInv
  <2>3. calls'[t] = c
    BY <1>2, <2>1
  <2>. QED
    BY <2>2, <2>3 DEF AiKnows, Cites, Failed, Recorded, Reasoned, ReasonRecorded
<1>12. OwnRows'
  BY <1>2 DEF AiInv, OwnRows, SameRow
<1>. QED
  BY <1>2, <1>7, <1>9, <1>10, <1>11, <1>12 DEF AiInv

(* ---- The invariant. ---- *)

\* The invariant at the start,
LEMMA AiInvInit ==
  ASSUME InitCalls, QuestionsInit, GatewayInit, TracesInit
  PROVE  AiInv
<1>1. \A t \in Threads : calls[t] = Idle
  BY DEF InitCalls
<1>2. calls \in [Threads -> AiCalls]
  BY DEF InitCalls, AiCalls, QuestionCalls
<1>3. AuditOK /\ TracesOK
  BY DEF AuditOK, TracesOK, GatewayInit, TracesInit
<1>4. AiKnows(Idle) /\ \A d : ~SameRow(Idle, d)
  BY DEF Idle, AiKnows, Cites, Failed, Recorded, Reasoned, ReasonRecorded, ReasonSteps, SameRow
<1>5. (\A t \in Threads : AiKnows(calls[t])) /\ OwnRows
  BY <1>1, <1>4 DEF OwnRows
<1>. QED
  BY <1>2, <1>3, <1>5, QInvInit DEF AiInv

\* after every step,
LEMMA NextKeepsAiInv ==
  ASSUME AiInv, [AiNext]_aiAllVars
  PROVE  AiInv'
<1>1. CASE UNCHANGED aiAllVars
  <2>1. /\ content' = content /\ records' = records /\ history' = history
        /\ lifecycleAudit' = lifecycleAudit /\ calls' = calls
        /\ aiAudit' = aiAudit /\ traceLog' = traceLog
    BY <1>1 DEF aiAllVars, aiVars, questionVars, questionTables
  <2>2. QInv'
    BY <2>1, NextKeepsQInv DEF AiInv, questionVars, questionTables
  <2>3. TracesOK' /\ AuditOK' /\ OwnRows'
    BY <2>1 DEF AiInv, TracesOK, AuditOK, OwnRows, SameRow
  <2>4. ASSUME NEW t \in Threads
        PROVE  AiKnows(calls[t])'
    <3>1. PICK c \in AiCalls : c = calls[t] /\ AiKnows(c)
      BY DEF AiInv
    <3>2. BankKept /\ AuditGrows /\ TracesGrow
      BY <2>1, NothingChanged DEF AuditGrows, TracesGrow
    <3>3. AiKnows(c)'
      BY <3>1, <3>2, KnowledgeStays DEF AiInv
    <3>4. calls'[t] = c
      BY <2>1, <3>1
    <3>. QED
      BY <3>3, <3>4 DEF AiKnows, Cites, Failed, Recorded, Reasoned, ReasonRecorded
  <2>. QED
    BY <2>1, <2>2, <2>3, <2>4 DEF AiInv
<1>2. ASSUME NEW t \in Threads, QuestionStep(t), UNCHANGED <<aiAudit, traceLog>>
      PROVE  AiInv'
  BY <1>2, BankWrites, BankLists, BankGets DEF QuestionStep, QuestionRead
<1>3. ASSUME NEW t \in Threads, GatewayStep(t), UNCHANGED traceLog
      PROVE  AiInv'
  BY <1>3, SelectStep, LoadStep, CompletionStep, RecordStep, ProvidersStep DEF GatewayStep
<1>4. ASSUME NEW t \in Threads, RecommendTorque(t) \/ ReasoningStep(t), UNCHANGED questionTables
      PROVE  AiInv'
  BY <1>4, RecommendStep, AskStep, WordStep, RecordReasonStep DEF ReasoningStep
<1>5. ASSUME NEW t \in Threads, Leave(t), UNCHANGED <<questionTables, aiAudit, traceLog>>
      PROVE  AiInv'
  <2>1. Idle \in AiCalls /\ Idle.at = "idle"
    BY DEF Idle, AiCalls, QuestionCalls
  <2>. QED
    BY <1>5, <2>1, PlainMove DEF Leave, Finish
<1>6. ASSUME NEW t \in Threads, AiStep(t)
      PROVE  AiInv'
  BY <1>2, <1>3, <1>4, <1>5, <1>6, AnalyzeStep DEF AiStep
<1>. QED
  BY <1>1, <1>6, DamageStep DEF AiNext

\* and throughout.
LEMMA AiInvHolds == AiSpec => []AiInv
<1>1. InitCalls /\ QuestionsInit /\ GatewayInit /\ TracesInit => AiInv
  BY AiInvInit
<1>2. AiInv /\ [AiNext]_aiAllVars => AiInv'
  BY NextKeepsAiInv
<1>. QED
  BY <1>1, <1>2, PTL DEF AiSpec

(* ---- What the answers promise. ---- *)

\* A trusted text that is grounded is in the archive.
LEMMA TrustedVersion ==
  ASSUME QInv, NEW cite \in Citations, Grounded(cite), cite.text \in HighConfidence
  PROVE  \E v \in Versions : /\ content[cite.key[1]][v] \in HighConfidence
                             /\ WasValidated(<<cite.key[1], v>>)
<1>1. PICK q \in Questions, v \in Versions : cite.key = <<q, v>>
  BY DEF Citations, QuestionKeys
<1>2. content[q][v] = cite.text /\ WasValidated(<<q, v>>)
  BY <1>1 DEF Grounded
<1>. QED
  BY <1>1, <1>2

\* A citation of anything that is answered or about to be.
LEMMA CitesSound ==
  ASSUME AiInv, NEW t \in Threads, NEW cite \in Cited(t)
  PROVE  IF ReadContentFirst(t) THEN WasValidated(cite.key) ELSE Grounded(cite)
<1>. PICK c \in AiCalls : c = calls[t] /\ AiKnows(c)
  BY DEF AiInv
<1>1. CASE c.at = "get_answered"
  <2>1. Cited(t) = {c.cite} /\ ReadContentFirst(t)
    BY <1>1 DEF Cited, At, ReadContentFirst
  <2>. QED
    BY <1>1, <2>1 DEF AiKnows, Cites
<1>2. CASE c.at = "list_answered"
  <2>1. Cited(t) = c.cites /\ ~ReadContentFirst(t)
    BY <1>2 DEF Cited, At, ReadContentFirst
  <2>. QED
    BY <1>2, <2>1 DEF AiKnows, Cites
<1>3. CASE c.at \in {"ai_asked", "ai_audit", "ai_answered"}
  <2>1. Cited(t) = c.cites /\ (ReadContentFirst(t) <=> c.single)
    BY <1>3 DEF Cited, At, ReadContentFirst
  <2>2. IF c.single THEN WasValidated(cite.key) ELSE Grounded(cite)
    BY <1>3, <2>1 DEF AiKnows, Cites
  <2>. QED
    BY <2>1, <2>2
<1>4. c.at \notin {"get_answered", "list_answered", "ai_asked", "ai_audit", "ai_answered"}
        => Cited(t) = {}
  BY DEF Cited, At
<1>. QED
  BY <1>1, <1>2, <1>3, <1>4

\* The audit row of an answer.
LEMMA AnswerRowSound ==
  ASSUME AiInv, NEW t \in Threads, At(t, "ai_answered")
  PROVE  LET row == aiAudit[calls[t].row] IN
           /\ row.error = calls[t].error
           /\ row.evidence = {c.key[1] : c \in calls[t].cites}
           /\ row.label = "VALIDATED" =>
                \A q \in row.evidence : \E v \in Versions :
                  content[q][v] \in HighConfidence /\ WasValidated(<<q, v>>)
           /\ row.model = None <=> row.error = None /\ row.evidence = {}
           /\ row.model = None => row.label = None
           /\ row.model # "anthropic"
           /\ row.model = "deterministic" => row.error = None
           /\ row.error = "ModelTimeoutError" => calls[t].single
           /\ \A u \in Threads \ {t} :
                At(u, "ai_answered") => calls[u].row # calls[t].row
<1>. PICK call \in AiCalls : call = calls[t] /\ AiKnows(call)
  BY DEF AiInv
<1>. PICK row : row = aiAudit[call.row]
  OBVIOUS
<1>1. call.at = "ai_answered"
  BY DEF At
<1>2. /\ row.error = call.error
      /\ row.evidence = {c.key[1] : c \in call.cites}
      /\ row.label = "VALIDATED" =>
           ~call.single /\ \A c \in call.cites : c.text \in HighConfidence
      /\ row.model = None <=> call.error = None /\ call.cites = {}
      /\ row.model = None => row.label = None
      /\ row.model # "anthropic"
      /\ row.model = "deterministic" => call.error = None
      /\ call.error = "ModelTimeoutError" => call.single
  BY <1>1 DEF AiKnows, Recorded
<1>3. ASSUME row.label = "VALIDATED", NEW q \in row.evidence
      PROVE  \E v \in Versions : content[q][v] \in HighConfidence /\ WasValidated(<<q, v>>)
  <2>1. PICK c \in call.cites : q = c.key[1]
    BY <1>2, <1>3
  <2>2. c \in Citations /\ c.text \in HighConfidence /\ Grounded(c)
    BY <1>1, <1>2, <1>3, <2>1, CitingFields DEF AiKnows, Cites
  <2>. QED
    BY <2>1, <2>2, TrustedVersion DEF AiInv
<1>4. \A u \in Threads \ {t} : At(u, "ai_answered") => calls[u].row # calls[t].row
  BY <1>1 DEF AiInv, OwnRows, SameRow, At
<1>5. row.evidence = {} <=> call.cites = {}
  BY <1>2
<1>. QED
  BY <1>2, <1>3, <1>4, <1>5

\* Every recommendation is one of those shown sound above.
LEMMA RecommendationsAreSound ==
  ASSUME AiInv
  PROVE  RecommendationsSound
<1>. SUFFICES ASSUME NEW call \in Answered("joint_analyzed")
              PROVE  /\ RecommendedHolds(call.inputs)
                     /\ BoundsOnlyWithhold(call.inputs)
                     /\ ConfidenceEarned(call.inputs)
  BY DEF RecommendationsSound
<1>1. PICK t \in Threads : call = calls[t] /\ call.at = "joint_analyzed"
  BY DEF Answered, At
<1>2. PICK i \in JointInputs : i = call.inputs
  BY <1>1, ReasonFields DEF AiInv
<1>3. Asked(i)
  BY InputIsAsked
<1>4. RecommendedHolds(i) /\ BoundsOnlyWithhold(i) /\ ConfidenceEarned(i)
  BY <1>3, HoldsOnInputs, OnlyWithheld, Earned
<1>. QED
  BY <1>2, <1>4

\* A reasoning, about its row as it is now.
LEMMA ReasoningIsGrounded ==
  ASSUME AiInv
  PROVE  ReasoningGrounded
<1>. SUFFICES ASSUME NEW t \in Threads, "reasoning" \in DOMAIN calls[t]
              PROVE  LET call == calls[t]
                         row == traceLog[call.trace]
                         reasoning == call.reasoning
                     IN  /\ call.isAdmin \/ row.user = call.user
                         /\ reasoning.conclusion \in {None, row.result}
                         /\ reasoning.state = "SUPPORTED" =>
                              /\ row.result.torque # None /\ row.result.findings = {}
                              /\ RecommendedHolds(row.inputs)
                         /\ reasoning.state = "UNSUPPORTED" => row.result.torque = None
                         /\ row.damage = None => reasoning.conclusion # None
                         /\ reasoning.conclusion = None
                              => reasoning.label = None \/ row.damage = "unknown_status"
                         /\ ~At(t, "reason_wording") /\ reasoning.conclusion = None
                              => call.provider = None
                         /\ At(t, "reason_answered") =>
                              /\ aiAudit[call.row].trace = call.trace
                              /\ aiAudit[call.row].user = call.user
                              /\ aiAudit[call.row].model = call.provider
                              /\ aiAudit[call.row].label = reasoning.label
  BY DEF ReasoningGrounded
<1>. PICK call \in AiCalls : call = calls[t] /\ AiKnows(call)
  BY DEF AiInv
<1>. PICK row : row = traceLog[call.trace]
  OBVIOUS
<1>1. call.at \in ReasonSteps
  BY ReasonFields
<1>2. /\ call.isAdmin \/ row.user = call.user
      /\ call.reasoning.conclusion \in {None, row.result}
      /\ call.reasoning.state = "SUPPORTED" => row.result.status = "recommended"
      /\ call.reasoning.state = "UNSUPPORTED" => row.result.status # "recommended"
      /\ row.damage = None => call.reasoning.conclusion # None
      /\ call.reasoning.conclusion = None
           => call.reasoning.label = None \/ row.damage = "unknown_status"
      /\ call.at # "reason_wording" /\ call.reasoning.conclusion = None
           => call.provider = None
      /\ call.trace \in 1..Len(traceLog)
  BY <1>1 DEF AiKnows, Reasoned
<1>3. row \in Traces /\ row.result = Recommendation(row.inputs)
  BY <1>2 DEF AiInv, TracesOK
<1>4. PICK i \in JointInputs : i = row.inputs
  BY <1>3, InputsAssumption DEF Traces
<1>5. PICK q : q = Quantities(i)
  OBVIOUS
<1>6. /\ row.result.status = "recommended" =>
           /\ CriticalFindings(q) = {} /\ q.torque # None
           /\ row.result.torque = q.torque
           /\ row.result.findings = CriticalFindings(q)
      /\ row.result.status # "recommended" => row.result.torque = None
  BY <1>3, <1>4, <1>5, RecommendedIff
<1>7. RecommendedHolds(row.inputs)
  BY <1>4, InputIsAsked, HoldsOnInputs
<1>8. At(t, "reason_answered") =>
        /\ aiAudit[call.row].trace = call.trace
        /\ aiAudit[call.row].user = call.user
        /\ aiAudit[call.row].model = call.provider
        /\ aiAudit[call.row].label = call.reasoning.label
  BY DEF At, AiKnows, ReasonRecorded
<1>. QED
  BY <1>2, <1>6, <1>7, <1>8 DEF At

\* Nothing the model gateway answers rests on anything but what is recorded,
\* whatever is reviewed, recommended or damaged while it is being answered:
\* the questions it cites were validated, the torques it reasons about were
\* recommended and hold on their inputs, and its audit row says what it says
\* (routes/ai_gateway.py, ai_gateway/reasoning/, torque_recommendation/).
THEOREM AiAnswersAlwaysSound == AiSpec => []AiAnswersSound
<1>1. AiInv => AnswersGrounded
  BY CitesSound, AnswerRowSound DEF AnswersGrounded
<1>2. AiInv => AiAnswersSound
  BY <1>1, RecommendationsAreSound, ReasoningIsGrounded DEF AiAnswersSound
<1>. QED
  BY <1>2, AiInvHolds, PTL

(* ---- Types of the gateway and of the reasonings. ---- *)

\* The reasonings keep to their types, for any inputs and models: what one
\* concludes is a result that some trace holds, whatever damage its row took
\* (run_reasoning, ai_gateway/reasoning/).
THEOREM ReasoningTypeCorrect == AiSpec => []ReasoningTypeOK
<1>1. ASSUME AiInv
      PROVE  ReasoningTypeOK
  <2>1. traceLog \in Seq(Traces)
    BY <1>1 DEF AiInv, TracesOK
  <2>2. ASSUME NEW row \in Range(traceLog)
        PROVE  /\ row.user \in Users /\ row.inputs \in TracedInputs
               /\ row.damage \in Damages \cup {None}
    <3>1. row \in Traces
      BY <2>1, <2>2 DEF Range
    <3>. QED
      BY <3>1 DEF Traces
  <2>3. ASSUME NEW t \in Threads, "reasoning" \in DOMAIN calls[t]
        PROVE  /\ calls[t].reasoning \in Reasonings
               /\ calls[t].provider \in Providers \cup {None, "unknown"}
    <3>1. PICK c \in AiCalls : c = calls[t] /\ Reasoned(c)
      BY <1>1 DEF AiInv, AiKnows
    <3>2. c \in ReasonCalls /\ c.at \in ReasonSteps
      BY <2>3, <3>1, ReasonFields
    <3>3. c.reasoning \in Reasons /\ c.provider \in Wordings
      BY <3>2 DEF ReasonCalls
    <3>4. PICK n \in 1..Len(traceLog) : n = c.trace
      BY <3>1, <3>2 DEF Reasoned
    <3>5. traceLog[n] \in Range(traceLog)
      BY <2>1, <3>4 DEF Range
    <3>6. c.reasoning.conclusion \in {None} \cup {row.result : row \in Range(traceLog)}
      BY <3>1, <3>2, <3>4, <3>5 DEF Reasoned
    <3>7. c.reasoning \in Reasonings
      BY <3>3, <3>6 DEF Reasons, Reasonings
    <3>. QED
      BY <3>1, <3>3, <3>7 DEF Wordings
  <2>. QED
    BY <2>2, <2>3 DEF ReasoningTypeOK
<1>. QED
  BY <1>1, AiInvHolds, PTL

\* The gateway by itself: its requests are requests of the whole.
GatewayInv == QInv /\ GatewayTypeOK

\* Among the requests with a reasoning there are those of the gateway.
LEMMA GatewayCallsAreAi ==
  ASSUME GatewayTypeOK
  PROVE  GatewayCalls \subseteq AiCalls
<1>1. DOMAIN aiAudit \subseteq Nat
  BY DEF GatewayTypeOK
<1>. QED
  BY <1>1 DEF GatewayCalls, AiCalls, LoadCalls, AuditCalls, AnswerCalls, PlainCalls

\* A step moves one request, and the audit table only grows.
LEMMA GatewayCallMoves ==
  ASSUME GatewayInv, QInv', aiAudit' \in Seq(GatewayRows), DOMAIN aiAudit \subseteq DOMAIN aiAudit',
         NEW t \in Threads, NEW c, c \in GatewayCalls', Goto(t, c)
  PROVE  GatewayInv'
<1>1. GatewayCalls \subseteq GatewayCalls'
  BY DEF GatewayCalls
<1>2. calls' \in [Threads -> GatewayCalls']
  BY <1>1 DEF GatewayInv, GatewayTypeOK, Goto
<1>3. TablesTypeOK'
  BY DEF QInv, TablesInv
<1>. QED
  BY <1>2, <1>3 DEF GatewayInv, GatewayTypeOK, GatewayRows

\* A step that leaves the audit table alone.
LEMMA GatewayCallMovesOn ==
  ASSUME GatewayInv, QInv', aiAudit' = aiAudit,
         NEW t \in Threads, NEW c \in GatewayCalls, Goto(t, c)
  PROVE  GatewayInv'
<1>1. GatewayCalls' = GatewayCalls
  BY DEF GatewayCalls
<1>2. aiAudit \in Seq(GatewayRows)
  BY DEF GatewayInv, GatewayTypeOK, GatewayRows
<1>. QED
  BY <1>1, <1>2, GatewayCallMoves

\* One that writes nothing at all, and plans no write of the question bank.
LEMMA GatewayMoves ==
  ASSUME GatewayInv, UNCHANGED <<questionTables, aiAudit>>,
         NEW t \in Threads, NEW c \in GatewayCalls, Goto(t, c), c.at \notin PlannedSteps
  PROVE  GatewayInv'
<1>1. Typed(c)
  BY GatewayCallsAreAi, AiTyped DEF GatewayInv
<1>2. QInv'
  BY <1>1, Harmless DEF GatewayInv, UnchangedTables
<1>. QED
  BY <1>2, GatewayCallMovesOn

\* A request to the question bank is one of the gateway.
LEMMA QuestionCallsAreGateway == QuestionCalls \subseteq GatewayCalls
BY DEF GatewayCalls

\* The question bank keeps its own requests to their types.
LEMMA ReadsGoOn ==
  ASSUME QInv, QInv', NEW t \in Threads, QuestionRead(t)
  PROVE  \E c \in QuestionCalls : Goto(t, c)
<1>. DEFINE Goal == \E c : Goto(t, c) /\ c.at \in QuestionSteps
<1>1. Goal
  <2>1. ASSUME NEW c, Goto(t, c), c.at \in QuestionSteps
        PROVE  Goal
    BY <2>1
  <2>2. Finish(t) => Goal
    BY <2>1 DEF Finish, Idle, QuestionSteps
  <2>. HIDE DEF Goal
  <2>3. CASE ListStatuses(t) \/ ListLifecycles(t) \/ ListContents(t)
    BY <2>1, <2>3 DEF ListStatuses, ListLifecycles, ListContents, QuestionSteps
  <2>4. CASE GetContent(t) \/ GetStatus(t)
    BY <2>1, <2>4 DEF GetContent, GetStatus, QuestionSteps
  <2>5. CASE GetLifecycle(t)
    <3>1. calls[t].purpose \in {"read", "explain"}
      BY <2>5, CallFields DEF GetLifecycle, At, QInv, CallsInv
    <3>2. \/ Finish(t)
          \/ Goto(t, [at |-> "get_answered", cite |-> calls[t].cite])
          \/ Goto(t, [at |-> "ai_asked", cites |-> {calls[t].cite}, single |-> TRUE])
      BY <2>5, <3>1 DEF GetLifecycle
    <3>. QED
      BY <2>1, <2>2, <3>2 DEF QuestionSteps
  <2>. QED
    BY <2>3, <2>4, <2>5 DEF QuestionRead
<1>2. PICK c : Goto(t, c) /\ c.at \in QuestionSteps
  BY <1>1
<1>3. calls'[t] = c
  BY <1>2 DEF Goto, QInv, CallsInv
<1>4. Typed(c)
  BY <1>3 DEF QInv, CallsInv, Typed
<1>. QED
  BY <1>2, <1>4 DEF Typed

\* Steps of the question bank.
LEMMA BankKeepsGateway ==
  ASSUME GatewayInv, NEW t \in Threads, QuestionStep(t), UNCHANGED aiAudit
  PROVE  GatewayInv'
<1>1. QInv'
  BY StepKeepsQInv DEF GatewayInv
<1>2. \E c \in QuestionCalls : Goto(t, c)
  BY <1>1, WritesGoOn, ReadsGoOn DEF GatewayInv, QuestionStep
<1>. QED
  BY <1>1, <1>2, QuestionCallsAreGateway, GatewayCallMovesOn

\* Evidence is loaded, one version at a time.
LEMMA LoadKeepsGateway ==
  ASSUME GatewayInv, NEW t \in Threads, LoadEvidence(t)
  PROVE  GatewayInv'
<1>1. PICK call \in AiCalls : call = calls[t]
  BY GatewayCallsAreAi DEF GatewayInv, GatewayTypeOK
<1>2. call.at = "ai_load" /\ UNCHANGED <<questionTables, aiAudit>>
  BY <1>1 DEF LoadEvidence, At
<1>3. PICK cites \in SUBSET Citations, pending \in SUBSET QuestionKeys :
        call = [at |-> "ai_load", cites |-> cites, pending |-> pending]
  BY <1>2, CitingFields DEF LoadCalls
<1>4. call.cites = cites /\ call.pending = pending
  BY <1>3
<1>5. \/ Goto(t, [at |-> "ai_asked", cites |-> cites, single |-> FALSE])
      \/ \E k \in pending, matches \in BOOLEAN :
           Goto(t, [call EXCEPT
             !.pending = @ \ {k},
             !.cites = IF matches /\ k[2] \in Stored(k[1])
                         THEN @ \cup {Citation(k)}
                         ELSE @])
  <2>1. \/ Goto(t, [at |-> "ai_asked", cites |-> calls[t].cites, single |-> FALSE])
        \/ \E k \in calls[t].pending, matches \in BOOLEAN :
             Goto(t, [calls[t] EXCEPT
               !.pending = @ \ {k},
               !.cites = IF matches /\ k[2] \in Stored(k[1])
                           THEN @ \cup {Citation(k)}
                           ELSE @])
    BY Zenon DEF LoadEvidence
  <2>. QED
    BY <1>1, <1>4, <2>1, Zenon
<1>6. ASSUME Goto(t, [at |-> "ai_asked", cites |-> cites, single |-> FALSE])
      PROVE  GatewayInv'
  <2>1. PICK c : Goto(t, c) /\ c = [at |-> "ai_asked", cites |-> cites, single |-> FALSE]
    BY <1>6
  <2>2. c \in GatewayCalls /\ c.at = "ai_asked"
    BY <2>1 DEF GatewayCalls, QuestionCalls
  <2>. QED
    BY <1>2, <2>1, <2>2, GatewayMoves DEF PlannedSteps, OwningSteps
<1>7. ASSUME NEW k \in pending, NEW matches \in BOOLEAN,
             Goto(t, [call EXCEPT
               !.pending = @ \ {k},
               !.cites = IF matches /\ k[2] \in Stored(k[1])
                           THEN @ \cup {Citation(k)}
                           ELSE @])
      PROVE  GatewayInv'
  <2>1. PICK new : new = IF matches /\ k[2] \in Stored(k[1]) THEN cites \cup {Citation(k)}
                                                              ELSE cites
    OBVIOUS
  <2>2. new \subseteq Citations
    BY <2>1, StoredText DEF GatewayInv, QInv, TablesInv
  <2>3. PICK c : c = [at |-> "ai_load", cites |-> new, pending |-> pending \ {k}] /\ Goto(t, c)
    <3>1. PICK half : half = [call EXCEPT !.pending = @ \ {k}]
      OBVIOUS
    <3>2. half = [at |-> "ai_load", cites |-> cites, pending |-> pending \ {k}]
      BY <1>3, <3>1
    <3>3. [half EXCEPT !.cites = new]
            = [at |-> "ai_load", cites |-> new, pending |-> pending \ {k}]
      BY <3>2
    <3>4. [call EXCEPT
             !.pending = @ \ {k},
             !.cites = IF matches /\ k[2] \in Stored(k[1])
                         THEN @ \cup {Citation(k)}
                         ELSE @]
            = [half EXCEPT !.cites = IF matches /\ k[2] \in Stored(k[1])
                                       THEN @ \cup {Citation(k)}
                                       ELSE @]
      BY <3>1
    <3>5. half.cites = cites
      BY <3>2
    <3>. QED
      BY <1>7, <2>1, <3>3, <3>4, <3>5
  <2>4. c \in GatewayCalls /\ c.at = "ai_load"
    BY <2>2, <2>3 DEF GatewayCalls
  <2>. QED
    BY <1>2, <2>3, <2>4, GatewayMoves DEF PlannedSteps, OwningSteps
<1>. QED
  BY <1>5, <1>6, <1>7

\* The model answers, or does not.
LEMMA CompletionKeepsGateway ==
  ASSUME GatewayInv, NEW t \in Threads, ModelCompletes(t)
  PROVE  GatewayInv'
<1>1. PICK call \in AiCalls : call = calls[t]
  BY GatewayCallsAreAi DEF GatewayInv, GatewayTypeOK
<1>2. call.at = "ai_asked" /\ UNCHANGED <<questionTables, aiAudit>>
  BY <1>1 DEF ModelCompletes, At
<1>3. call.cites \subseteq Citations /\ call.single \in BOOLEAN
  BY <1>2, CitingFields
<1>4. PICK client \in {DefaultQueryClient(probe) : probe \in Probes} :
        \E outcome \in ModelOutcomes(client) :
          Goto(t,
             CASE outcome = "half_surrogate" /\ ~IsNotice(call) -> [at |-> "ai_failed"]
               [] outcome = "text" \/ (outcome = "half_surrogate" /\ IsNotice(call)) ->
                    [at |-> "ai_audit", client |-> client, error |-> None,
                     single |-> call.single, cites |-> call.cites]
               [] outcome \in ModelErrors ->
                    [at |-> "ai_audit", client |-> client, single |-> call.single,
                     error |-> IF call.single THEN outcome ELSE "ModelUnavailableError",
                     cites |-> {}])
  BY <1>1, Zenon DEF ModelCompletes
<1>5. client \in Providers
  BY DEF DefaultQueryClient, Providers
<1>6. PICK outcome \in ModelOutcomes(client) :
          Goto(t,
             CASE outcome = "half_surrogate" /\ ~IsNotice(call) -> [at |-> "ai_failed"]
               [] outcome = "text" \/ (outcome = "half_surrogate" /\ IsNotice(call)) ->
                    [at |-> "ai_audit", client |-> client, error |-> None,
                     single |-> call.single, cites |-> call.cites]
               [] outcome \in ModelErrors ->
                    [at |-> "ai_audit", client |-> client, single |-> call.single,
                     error |-> IF call.single THEN outcome ELSE "ModelUnavailableError",
                     cites |-> {}])
  BY <1>4
<1>7. outcome \in {"half_surrogate", "text"} \cup ModelErrors
  BY <1>5, Outcomes
<1>8. CASE outcome = "half_surrogate" /\ ~IsNotice(call)
  <2>1. PICK c : Goto(t, c) /\ c = [at |-> "ai_failed"]
    <3>1. outcome # "text" /\ outcome \notin ModelErrors
      BY <1>8 DEF ModelErrors
    <3>. QED
      BY <1>6, <1>8, <3>1
  <2>2. c \in GatewayCalls /\ c.at = "ai_failed"
    BY <2>1 DEF GatewayCalls
  <2>. QED
    BY <1>2, <2>1, <2>2, GatewayMoves DEF PlannedSteps, OwningSteps
<1>9. CASE outcome = "text" \/ (outcome = "half_surrogate" /\ IsNotice(call))
  <2>1. PICK c : /\ Goto(t, c)
                 /\ c = [at |-> "ai_audit", client |-> client, error |-> None,
                         single |-> call.single, cites |-> call.cites]
    <3>1. ~(outcome = "half_surrogate" /\ ~IsNotice(call)) /\ outcome \notin ModelErrors
      BY <1>9 DEF ModelErrors
    <3>. QED
      BY <1>6, <1>9, <3>1
  <2>2. c \in GatewayCalls /\ c.at = "ai_audit"
    BY <2>1, <1>3, <1>5 DEF GatewayCalls
  <2>. QED
    BY <1>2, <2>1, <2>2, GatewayMoves DEF PlannedSteps, OwningSteps
<1>10. CASE outcome \in ModelErrors
  <2>1. outcome # "half_surrogate" /\ outcome # "text" /\ "ModelUnavailableError" \in ModelErrors
    BY <1>10 DEF ModelErrors
  <2>2. PICK error \in ModelErrors :
          error = IF call.single THEN outcome ELSE "ModelUnavailableError"
    BY <1>10, <2>1
  <2>3. PICK c : /\ Goto(t, c)
                 /\ c = [at |-> "ai_audit", client |-> client, single |-> call.single,
                         error |-> error, cites |-> {}]
    BY <1>6, <1>10, <2>1, <2>2
  <2>4. c \in GatewayCalls /\ c.at = "ai_audit"
    BY <2>3, <1>3, <1>5 DEF GatewayCalls
  <2>. QED
    BY <1>2, <2>3, <2>4, GatewayMoves DEF PlannedSteps, OwningSteps
<1>. QED
  BY <1>7, <1>8, <1>9, <1>10

\* The answer is recorded, in a row that is there from then on.
LEMMA RecordKeepsGateway ==
  ASSUME GatewayInv, NEW t \in Threads, RecordInteraction(t)
  PROVE  GatewayInv'
<1>1. PICK call \in AiCalls : call = calls[t]
  BY GatewayCallsAreAi DEF GatewayInv, GatewayTypeOK
<1>2. call.at = "ai_audit" /\ call \in AuditCalls /\ UnchangedTables
  BY <1>1, CitingFields DEF RecordInteraction, At, UnchangedTables
<1>3. PICK row \in GatewayRows : row = AuditRow(call)
  BY <1>2, RowWritten
<1>4. PICK no : no = Len(aiAudit) + 1
  OBVIOUS
<1>5. PICK c : /\ Goto(t, c)
               /\ c = [at |-> "ai_answered", error |-> call.error, cites |-> call.cites,
                       single |-> call.single, row |-> no]
  BY <1>1, <1>4 DEF RecordInteraction
<1>6. aiAudit \in Seq(GatewayRows) /\ aiAudit' = Append(aiAudit, row)
  BY <1>1, <1>3 DEF GatewayInv, GatewayTypeOK, GatewayRows, RecordInteraction
<1>7. /\ aiAudit' \in Seq(GatewayRows)
      /\ DOMAIN aiAudit' = 1..Len(aiAudit) + 1 /\ DOMAIN aiAudit = 1..Len(aiAudit)
      /\ Len(aiAudit) \in Nat
  BY <1>6, AppendProperties
<1>8. no \in DOMAIN aiAudit' /\ DOMAIN aiAudit \subseteq DOMAIN aiAudit'
  BY <1>4, <1>7
<1>9. c \in GatewayCalls' /\ c.at = "ai_answered"
  BY <1>2, <1>5, <1>8 DEF GatewayCalls, AuditCalls
<1>10. no \in Nat
  BY <1>4, <1>7
<1>11. c \in AiCalls
  BY <1>2, <1>5, <1>10 DEF AiCalls, AuditCalls, AnswerCalls
<1>12. QInv'
  BY <1>2, <1>5, <1>9, <1>11, AiTyped, Harmless DEF GatewayInv, PlannedSteps, OwningSteps
<1>. QED
  BY <1>5, <1>7, <1>8, <1>9, <1>12, GatewayCallMoves

\* Evidence is selected by its status.
LEMMA SelectKeepsGateway ==
  ASSUME GatewayInv, NEW t \in Threads, SelectValidated(t)
  PROVE  GatewayInv'
<1>1. PICK c : /\ Goto(t, c)
               /\ c = [at |-> "ai_load", cites |-> {},
                       pending |-> {k \in QuestionKeys : StatusMap[k] = "validated"}]
  BY DEF SelectValidated
<1>2. c \in GatewayCalls /\ c.at = "ai_load"
  BY <1>1 DEF GatewayCalls
<1>. QED
  BY <1>1, <1>2, GatewayMoves DEF SelectValidated, PlannedSteps, OwningSteps

\* The models are listed.
LEMMA ProvidersKeepGateway ==
  ASSUME GatewayInv, NEW t \in Threads, ListProviders(t)
  PROVE  GatewayInv'
<1>1. PICK probe \in Probes :
        Goto(t, [at |-> "ai_providers",
                 readiness |-> [name \in Providers |-> ReadinessStatus(name, probe)]])
  BY DEF ListProviders
<1>2. \A name \in Providers : ReadinessStatus(name, probe) \in ReadinessStatuses
  BY DEF ReadinessStatus, ReadinessStatuses, CheckReadiness, Providers, Probes
<1>3. PICK c : /\ Goto(t, c)
               /\ c = [at |-> "ai_providers",
                       readiness |-> [name \in Providers |-> ReadinessStatus(name, probe)]]
  BY <1>1
<1>4. c \in GatewayCalls /\ c.at = "ai_providers"
  BY <1>2, <1>3 DEF GatewayCalls
<1>. QED
  BY <1>3, <1>4, GatewayMoves DEF ListProviders, PlannedSteps, OwningSteps

\* All steps together.
LEMMA NextKeepsGateway ==
  ASSUME GatewayInv, [GatewayNext]_aiVars
  PROVE  GatewayInv'
<1>1. CASE UNCHANGED aiVars
  <2>1. /\ content' = content /\ records' = records /\ history' = history
        /\ lifecycleAudit' = lifecycleAudit /\ calls' = calls /\ aiAudit' = aiAudit
    BY <1>1 DEF aiVars, questionVars, questionTables
  <2>2. QInv'
    BY <2>1, NextKeepsQInv DEF GatewayInv, questionVars, questionTables
  <2>3. GatewayCalls' = GatewayCalls
    BY <2>1 DEF GatewayCalls
  <2>. QED
    BY <2>1, <2>2, <2>3 DEF GatewayInv, GatewayTypeOK, TablesTypeOK
<1>2. ASSUME NEW t \in Threads, Leave(t), UNCHANGED <<questionTables, aiAudit>>
      PROVE  GatewayInv'
  <2>1. Idle \in GatewayCalls /\ Idle.at = "idle" /\ Goto(t, Idle)
    BY <1>2 DEF Idle, GatewayCalls, QuestionCalls, Leave, Finish
  <2>. QED
    BY <1>2, <2>1, GatewayMoves DEF PlannedSteps, OwningSteps
<1>3. ASSUME NEW t \in Threads, GatewayStep(t)
      PROVE  GatewayInv'
  BY <1>3, SelectKeepsGateway, LoadKeepsGateway, CompletionKeepsGateway, RecordKeepsGateway,
     ProvidersKeepGateway DEF GatewayStep
<1>. QED
  BY <1>1, <1>2, <1>3, BankKeepsGateway DEF GatewayNext

\* The gateway keeps to its types, for any models, questions and bounds: an
\* answer names an audit row that exists, and an error or model recorded is
\* one that there is (handle_query, orchestrator.py; _run_query and
\* _run_qb_explain, routes/ai_gateway.py).
THEOREM GatewayTypeCorrect == GatewaySpec => []GatewayTypeOK
<1>1. InitCalls /\ QuestionsInit /\ GatewayInit => GatewayInv
  <2>. SUFFICES ASSUME InitCalls, QuestionsInit, GatewayInit
                PROVE  GatewayInv
    OBVIOUS
  <2>1. QInv
    BY QInvInit
  <2>2. calls \in [Threads -> GatewayCalls]
    BY DEF InitCalls, GatewayCalls, QuestionCalls
  <2>. QED
    BY <2>1, <2>2 DEF GatewayInv, GatewayTypeOK, GatewayInit, QInv, TablesInv
<1>2. GatewayInv /\ [GatewayNext]_aiVars => GatewayInv'
  BY NextKeepsGateway
<1>3. GatewayInv => GatewayTypeOK
  BY DEF GatewayInv
<1>. QED
  BY <1>1, <1>2, <1>3, PTL DEF GatewaySpec
=============================================================================
