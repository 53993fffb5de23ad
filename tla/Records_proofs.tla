--------------------------- MODULE Records_proofs ---------------------------
(***************************************************************************)
(* Safety of components that keep their rows in the SQLite database, for   *)
(* any threads, users, inputs and bounds.  For each of them the inductive  *)
(* invariant says, next to what is promised of the tables, what a request  *)
(* still knows of rows it has read once other requests have run: of joints *)
(* that the revision number it computed is at most one above those given   *)
(* out, that a reviewer is not the author, and that a listing half read    *)
(* shows the first of the ids it set out to show, each as it once was.     *)
(***************************************************************************)
EXTENDS JointProjections, Documents, ValidationStudies, CalculationRecords, ToolRegister,
        LogLemmas, FiniteSetTheorems

(* ---- Joints and joint revisions ---- *)


(* ---- Rows and calls. ---- *)

TablesTypeOK ==
  /\ joints \in [Joints -> JointRows]
  /\ revisions \in Seq(RevisionRows)
  /\ Len(revisions) <= MaxRevisions

\* No key of a joint made two rows.
KeysUnique ==
  \A i, k \in DOMAIN revisions :
    /\ revisions[i].joint = revisions[k].joint
    /\ revisions[i].key = revisions[k].key
    /\ revisions[i].key # None
    => i = k

\* Whatever was decided has been decided by somebody else than its author.
DecidedWereReviewed ==
  \A i \in DOMAIN revisions : revisions[i].status \in {"approved", "rejected"} =>
    revisions[i].reviewer \notin {None, revisions[i].creator}

TablesOK ==
  /\ TablesTypeOK /\ NumbersDense /\ KeysUnique /\ CurrentWasReviewed
  /\ DecidedWereReviewed

(* ---- What a request knows. ---- *)

\* The steps of joints/service.py; the others only show.
JointSteps ==
  {"idle", "joint_create", "joint_archive", "rev_answered", "rev_submit",
   "rev_approve", "rev_reject"} \cup CreationSteps

\* What a request that was answered, is about to insert or to review knows.
Knows(c) ==
  /\ c.at = "rev_insert" => c.no \in 1 .. Cardinality(RevisionsOf(c.joint)) + 1
  /\ c.at \in {"rev_approve", "rev_reject"} => c.user # revisions[c.row].creator
  /\ c.at = "rev_answered" =>
       /\ revisions[c.row].joint = c.call.joint
       /\ revisions[c.row].body = c.call.body
       /\ revisions[c.row].creator = c.call.user
       /\ revisions[c.row].key = c.call.key

\* A projection shows what later steps do not undo (ShownWasSo).
WasSo(p) ==
  LET row == revisions[p.joint_revision_id] IN
    /\ p.canonical_status \notin {None, "draft"} => row.status # "draft"
    /\ p.canonical_status \in {"approved", "rejected"}
         => row.reviewer \notin {None, row.creator}

\* The single answers that are no row of a list.
Missing ==
  {[p EXCEPT !.outcome = o] : p \in {Projection(id, None) : id \in 1..(MaxRevisions + 1)},
                              o \in {"not_found", "source_unavailable"}}

\* The items so far are the first of the listed ids.
ReadSoFar(listed, items) ==
  /\ listed \in Seq(DOMAIN revisions)
  /\ \A i, j \in DOMAIN listed : i < j => listed[i] < listed[j]
  /\ items \in Seq(ProjectionRows)
  /\ Len(items) <= Len(listed)
  /\ \A i \in DOMAIN items :
       items[i].joint_revision_id = listed[i] /\ WasSo(items[i])

OneAnswered(p) == [at |-> "one_answered", item |-> p]

QueryRead(listed, items) == [at |-> "query_read", listed |-> listed, items |-> items]

QueryAnswered(listed, items, query) ==
  [at |-> "query_answered", listed |-> listed, items |-> items, query |-> query,
   answer |-> Answer(items, query)]

ShowsOne(c) ==
  \E p \in ProjectionRows \cup Missing : c = OneAnswered(p) /\ WasSo(p)

ReadsQuery(c) ==
  \E listed, items : c = QueryRead(listed, items) /\ ReadSoFar(listed, items)

AnswersQuery(c) ==
  \E listed, items : \E query \in Queries :
    /\ c = QueryAnswered(listed, items, query)
    /\ ReadSoFar(listed, items)
    /\ Len(items) = Len(listed)

CallOK(c) ==
  \/ c \in JointCalls /\ Knows(c)
  \/ ShowsOne(c)
  \/ ReadsQuery(c)
  \/ AnswersQuery(c)

CallsOK ==
  /\ calls = [t \in Threads |-> calls[t]]
  /\ \A t \in Threads : CallOK(calls[t])

JInv == TablesOK /\ CallsOK

\* What the place of a call says about its fields.
LEMMA CallFields ==
  ASSUME NEW c \in JointCalls
  PROVE  /\ c.at \in {"joint_create", "joint_archive"} => c.joint \in Joints
         /\ c.at \in CreationSteps => c \in Creations(CreationSteps)
         /\ c.at = "rev_answered" =>
              c.call \in Creations(CreationSteps) /\ c.row \in DOMAIN revisions
         /\ c.at \in {"rev_submit", "rev_approve", "rev_reject"} => c.row \in DOMAIN revisions
         /\ c.at \in {"rev_approve", "rev_reject"} => c.user \in Users
BY DEF JointCalls, Creations, CreationSteps, Idle

\* A call of joints/service.py is one of those, and knows what it needs.
LEMMA JointCall ==
  ASSUME NEW c, CallOK(c), c.at \in JointSteps
  PROVE  c \in JointCalls /\ Knows(c)
<1>1. c.at \notin {"one_answered", "query_read", "query_answered"}
  BY DEF JointSteps, CreationSteps
<1>2. \A p : OneAnswered(p).at = "one_answered"
  BY DEF OneAnswered
<1>3. \A listed, items : QueryRead(listed, items).at = "query_read"
  BY DEF QueryRead
<1>4. \A listed, items, query : QueryAnswered(listed, items, query).at = "query_answered"
  BY DEF QueryAnswered
<1>. QED
  BY <1>1, <1>2, <1>3, <1>4 DEF CallOK, ShowsOne, ReadsQuery, AnswersQuery

LEMMA CallOfThread ==
  ASSUME CallsOK, NEW t \in Threads, calls[t].at \in JointSteps
  PROVE  calls[t] \in JointCalls /\ Knows(calls[t])
BY JointCall DEF CallsOK

LEMMA SeqOfMore ==
  ASSUME NEW S, NEW T, S \subseteq T, NEW s \in Seq(S)
  PROVE  s \in Seq(T)
<1>1. Len(s) \in Nat /\ DOMAIN s = 1 .. Len(s) /\ s = [i \in DOMAIN s |-> s[i]]
  BY LenProperties, SeqDef
<1>2. \A i \in 1 .. Len(s) : s[i] \in T
  BY <1>1, ElementOfSeq
<1>3. s \in [1 .. Len(s) -> T]
  BY <1>1, <1>2
<1>. QED
  BY <1>1, <1>3, SeqDef

\* NULL is none of the texts that are shown.
LEMMA NoneIsNoText ==
  None \notin {"approved", "draft", "rejected", "review", "source_unavailable",
               "supported", "under_review"}
<1>1. PICK a : a = Alphabet
  OBVIOUS
<1>2. /\ DOMAIN a = 1 .. 7
      /\ a[1] = "approved" /\ a[2] = "draft" /\ a[3] = "rejected" /\ a[4] = "review"
      /\ a[5] = "source_unavailable" /\ a[6] = "supported" /\ a[7] = "under_review"
  BY <1>1 DEF Alphabet
<1>3. \A i \in 1 .. 7 : a[i] \in Range(a)
  BY <1>2 DEF Range
<1>4. None \notin Range(a)
  BY <1>1, QueriesAssumption
<1>. QED
  BY <1>2, <1>3, <1>4

LEMMA RowsOfJoint ==
  ASSUME TablesTypeOK, NEW j
  PROVE  /\ DOMAIN revisions = 1 .. Len(revisions)
         /\ Len(revisions) \in Nat
         /\ \A i \in DOMAIN revisions : revisions[i] \in RevisionRows
         /\ RevisionsOf(j) \subseteq 1 .. Len(revisions)
         /\ IsFiniteSet(RevisionsOf(j))
         /\ Cardinality(RevisionsOf(j)) \in Nat
<1>1. /\ DOMAIN revisions = 1 .. Len(revisions)
      /\ Len(revisions) \in Nat
      /\ \A i \in DOMAIN revisions : revisions[i] \in RevisionRows
  BY LenProperties, ElementOfSeq DEF TablesTypeOK
<1>2. RevisionsOf(j) \subseteq 1 .. Len(revisions)
  BY <1>1 DEF RevisionsOf
<1>3. IsFiniteSet(1 .. Len(revisions))
  BY <1>1, FS_Interval
<1>. QED
  BY <1>1, <1>2, <1>3, FS_Subset, FS_CardinalityType

LEMMA RowsOfJointAfter ==
  ASSUME TablesTypeOK', NEW j
  PROVE  /\ DOMAIN revisions' = 1 .. Len(revisions')
         /\ Len(revisions') \in Nat
         /\ IsFiniteSet(RevisionsOf(j)')
         /\ Cardinality(RevisionsOf(j)') \in Nat
<1>1. /\ DOMAIN revisions' = 1 .. Len(revisions')
      /\ Len(revisions') \in Nat
  BY LenProperties DEF TablesTypeOK
<1>2. RevisionsOf(j)' \subseteq 1 .. Len(revisions')
  BY <1>1 DEF RevisionsOf
<1>3. IsFiniteSet(1 .. Len(revisions'))
  BY <1>1, FS_Interval
<1>. QED
  BY <1>1, <1>2, <1>3, FS_Subset, FS_CardinalityType

\* The next number is one above a dense set of numbers.
LEMMA NextIsDense ==
  ASSUME TablesOK, NEW j \in Joints
  PROVE  NextRevisionNo(j) = Cardinality(RevisionsOf(j)) + 1
<1>. DEFINE n == Cardinality(RevisionsOf(j))
            S == {0} \cup {revisions[i].no : i \in RevisionsOf(j)}
<1>1. n \in Nat
  BY RowsOfJoint DEF TablesOK
<1>2. S = 0 .. n
  BY <1>1 DEF TablesOK, NumbersDense
<1>3. Max(S) = n
  BY <1>1, <1>2 DEF Max
<1>. QED
  BY <1>1, <1>3 DEF NextRevisionNo

(* ---- Steps that leave the rows what they are. ---- *)

\* The revisions stay, with what never changes of a row.
RowsKept ==
  /\ DOMAIN revisions \subseteq DOMAIN revisions'
  /\ \A i \in DOMAIN revisions :
       /\ revisions'[i].joint = revisions[i].joint
       /\ revisions'[i].body = revisions[i].body
       /\ revisions'[i].creator = revisions[i].creator
       /\ revisions'[i].key = revisions[i].key
       /\ revisions[i].status # "draft" => revisions'[i].status # "draft"
       /\ revisions[i].reviewer \notin {None, revisions[i].creator}
            => revisions'[i].reviewer \notin {None, revisions[i].creator}

LEMMA KnowsKept ==
  ASSUME TablesTypeOK, TablesTypeOK', RowsKept, NEW c \in JointCalls, Knows(c)
  PROVE  c \in JointCalls' /\ Knows(c)'
<1>1. c \in JointCalls'
  BY DEF JointCalls, RowsKept
<1>2. ASSUME c.at = "rev_insert"
      PROVE  c.no \in 1 .. Cardinality(RevisionsOf(c.joint)') + 1
  <2>1. RevisionsOf(c.joint) \subseteq RevisionsOf(c.joint)'
    BY DEF RevisionsOf, RowsKept
  <2>2. /\ IsFiniteSet(RevisionsOf(c.joint))
        /\ Cardinality(RevisionsOf(c.joint)) \in Nat
    BY RowsOfJoint
  <2>3. /\ IsFiniteSet(RevisionsOf(c.joint)')
        /\ Cardinality(RevisionsOf(c.joint)') \in Nat
    BY RowsOfJointAfter
  <2>4. Cardinality(RevisionsOf(c.joint)) <= Cardinality(RevisionsOf(c.joint)')
    BY <2>1, <2>3, FS_Subset
  <2>. QED
    BY <1>2, <2>2, <2>3, <2>4 DEF Knows
<1>3. c.at \in {"rev_approve", "rev_reject"} => c.user # revisions'[c.row].creator
  BY CallFields DEF Knows, RowsKept
<1>4. c.at = "rev_answered" =>
        /\ revisions'[c.row].joint = c.call.joint
        /\ revisions'[c.row].body = c.call.body
        /\ revisions'[c.row].creator = c.call.user
        /\ revisions'[c.row].key = c.call.key
  BY CallFields DEF Knows, RowsKept
<1>. QED
  BY <1>1, <1>2, <1>3, <1>4 DEF Knows

\* Rows of the tables can still be shown, and what was so still is.
LEMMA ShownKept ==
  ASSUME RowsKept
  PROVE  /\ ProjectionRows \subseteq ProjectionRows'
         /\ \A p \in ProjectionRows \cup Missing : WasSo(p) => WasSo(p)'
<1>1. ProjectionRows \subseteq ProjectionRows'
  BY DEF ProjectionRows, RowsKept
<1>2. ASSUME NEW p \in ProjectionRows, WasSo(p)
      PROVE  WasSo(p)'
  <2>1. p.joint_revision_id \in DOMAIN revisions
    BY DEF ProjectionRows, Projection
  <2>. QED
    BY <1>2, <2>1 DEF WasSo, RowsKept
<1>3. ASSUME NEW p \in Missing
      PROVE  WasSo(p)'
  <2>1. p.canonical_status = None
    BY DEF Missing, Projection
  <2>2. None \notin {"approved", "rejected"}
    BY NoneIsNoText
  <2>. QED
    BY <2>1, <2>2 DEF WasSo
<1>. QED
  BY <1>1, <1>2, <1>3

LEMMA ReadSoFarKept ==
  ASSUME RowsKept, NEW listed, NEW items, ReadSoFar(listed, items)
  PROVE  ReadSoFar(listed, items)'
<1>1. /\ ProjectionRows \subseteq ProjectionRows'
      /\ \A p \in ProjectionRows : WasSo(p) => WasSo(p)'
  BY ShownKept
<1>2. listed \in Seq(DOMAIN revisions')
  <2>1. DOMAIN revisions \subseteq DOMAIN revisions'
    BY DEF RowsKept
  <2>. QED
    BY <2>1, SeqOfMore DEF ReadSoFar
<1>3. items \in Seq(ProjectionRows')
  BY <1>1, SeqOfMore DEF ReadSoFar
<1>4. \A i \in DOMAIN items : items[i] \in ProjectionRows
  BY LenProperties, ElementOfSeq DEF ReadSoFar
<1>5. \A i \in DOMAIN items : items[i].joint_revision_id = listed[i] /\ WasSo(items[i])'
  BY <1>1, <1>4 DEF ReadSoFar
<1>. QED
  BY <1>2, <1>3, <1>5 DEF ReadSoFar

LEMMA CallKept ==
  ASSUME TablesTypeOK, TablesTypeOK', RowsKept, NEW c, CallOK(c)
  PROVE  CallOK(c)'
<1>1. CASE c \in JointCalls /\ Knows(c)
  BY <1>1, KnowsKept DEF CallOK
<1>2. CASE ShowsOne(c)
  <2>1. PICK p \in ProjectionRows \cup Missing : c = OneAnswered(p) /\ WasSo(p)
    BY <1>2 DEF ShowsOne
  <2>2. p \in ProjectionRows' \cup Missing /\ WasSo(p)'
    BY <2>1, ShownKept
  <2>3. ShowsOne(c)'
    BY <2>1, <2>2, Zenon DEF ShowsOne
  <2>. QED
    BY <2>3 DEF CallOK
<1>3. CASE ReadsQuery(c)
  <2>1. PICK listed, items : c = QueryRead(listed, items) /\ ReadSoFar(listed, items)
    BY <1>3, Zenon DEF ReadsQuery
  <2>2. ReadSoFar(listed, items)'
    BY <2>1, ReadSoFarKept
  <2>3. ReadsQuery(c)'
    BY <2>1, <2>2, Zenon DEF ReadsQuery
  <2>. QED
    BY <2>3 DEF CallOK
<1>4. CASE AnswersQuery(c)
  <2>1. PICK listed, items :
          \E query \in Queries :
            /\ c = QueryAnswered(listed, items, query)
            /\ ReadSoFar(listed, items)
            /\ Len(items) = Len(listed)
    BY <1>4, Zenon DEF AnswersQuery
  <2>2. ReadSoFar(listed, items)'
    BY <2>1, ReadSoFarKept
  <2>3. AnswersQuery(c)'
    BY <2>1, <2>2 DEF AnswersQuery
  <2>. QED
    BY <2>3 DEF CallOK
<1>. QED
  BY <1>1, <1>2, <1>3, <1>4 DEF CallOK

\* One thread moves on; the others are where they were.
LEMMA OneCallMoves ==
  ASSUME TablesTypeOK, TablesTypeOK', RowsKept, CallsOK,
         NEW t \in Threads, NEW c, Goto(t, c), CallOK(c)'
  PROVE  CallsOK'
<1>1. calls' = [calls EXCEPT ![t] = c]
  BY DEF Goto
<1>2. DOMAIN calls = Threads
  BY DEF CallsOK
<1>3. calls' = [u \in Threads |-> calls'[u]]
  BY <1>1, <1>2 DEF CallsOK
<1>4. ASSUME NEW u \in Threads
      PROVE  CallOK(calls[u])'
  <2>1. CASE u = t
    <3>1. calls'[u] = c
      BY <1>1, <1>2, <2>1
    <3>. QED
      BY <3>1 DEF CallOK, Knows, ShowsOne, ReadsQuery, AnswersQuery
  <2>2. CASE u # t
    <3>1. PICK d : d = calls[u]
      OBVIOUS
    <3>2. CallOK(d)
      BY <3>1 DEF CallsOK
    <3>3. CallOK(d)'
      BY <3>2, CallKept
    <3>4. calls'[u] = d
      BY <1>1, <1>2, <2>2, <3>1
    <3>. QED
      BY <3>3, <3>4 DEF CallOK, Knows, ShowsOne, ReadsQuery, AnswersQuery
  <2>. QED
    BY <2>1, <2>2
<1>. QED
  BY <1>3, <1>4 DEF CallsOK

LEMMA CallsStay ==
  ASSUME TablesTypeOK, TablesTypeOK', RowsKept, CallsOK, UNCHANGED calls
  PROVE  CallsOK'
<1>1. ASSUME NEW u \in Threads
      PROVE  CallOK(calls[u])'
  <2>1. PICK d : d = calls[u]
    OBVIOUS
  <2>2. CallOK(d)'
    BY <2>1, CallKept DEF CallsOK
  <2>. QED
    BY <2>1, <2>2 DEF CallOK, Knows, ShowsOne, ReadsQuery, AnswersQuery
<1>2. calls' = [u \in Threads |-> calls'[u]]
  BY DEF CallsOK
<1>. QED
  BY <1>1, <1>2 DEF CallsOK

LEMMA IdleOK == CallOK(Idle)
BY DEF CallOK, Knows, JointCalls, Idle

LEMMA IdleOKAfter == CallOK(Idle)'
BY DEF CallOK, Knows, JointCalls, Idle

LEMMA TablesStay ==
  ASSUME TablesOK, UNCHANGED jointTables
  PROVE  TablesOK' /\ RowsKept
<1>1. TablesTypeOK' /\ KeysUnique' /\ RowsKept
  BY DEF TablesOK, TablesTypeOK, KeysUnique, RowsKept, jointTables
<1>2. NumbersDense' /\ CurrentWasReviewed' /\ DecidedWereReviewed'
  BY DEF TablesOK, NumbersDense, CurrentWasReviewed, DecidedWereReviewed, RevisionsOf,
         jointTables
<1>. QED
  BY <1>1, <1>2 DEF TablesOK

\* A step that only reads leaves a call that knows what it needs.
LEMMA ReadOnly ==
  ASSUME JInv, UNCHANGED jointTables,
         NEW t \in Threads, NEW c, Goto(t, c), CallOK(c)
  PROVE  JInv'
<1>1. TablesOK' /\ RowsKept
  BY TablesStay DEF JInv
<1>2. CallOK(c)'
  BY <1>1, CallKept DEF JInv, TablesOK
<1>. QED
  BY <1>1, <1>2, OneCallMoves DEF JInv, TablesOK

\* The last write of a request.
LEMMA LastWrite ==
  ASSUME JInv, TablesOK', RowsKept, NEW t \in Threads, Finish(t)
  PROVE  JInv'
BY IdleOKAfter, OneCallMoves DEF JInv, TablesOK, Finish

(* ---- Steps that read. ---- *)

LEMMA CheckSteps ==
  ASSUME JInv, NEW t \in Threads, CheckJointCode(t) \/ CheckArchive(t)
  PROVE  JInv'
<1>1. PICK j \in Joints, step \in {"joint_create", "joint_archive"} :
        Goto(t, [at |-> step, joint |-> j])
  BY DEF CheckJointCode, CheckArchive
<1>2. CallOK([at |-> step, joint |-> j])
  BY DEF CallOK, Knows, JointCalls
<1>3. UNCHANGED jointTables
  BY DEF CheckJointCode, CheckArchive
<1>. QED
  BY <1>1, <1>2, <1>3, ReadOnly

LEMMA GetJointStep ==
  ASSUME JInv, NEW t \in Threads, GetJoint(t)
  PROVE  JInv'
<1>1. PICK j \in Joints, u \in Users, k \in Keys \cup {None}, b \in Bodies,
           step \in {"rev_number", "rev_find_key"}, a \in BOOLEAN :
        Goto(t, [at |-> step, joint |-> j, user |-> u, key |-> k, body |-> b,
                 no |-> 0, archived |-> a])
  BY DEF GetJoint
<1>. DEFINE c == [at |-> step, joint |-> j, user |-> u, key |-> k, body |-> b,
                  no |-> 0, archived |-> a]
<1>2. c \in Creations(CreationSteps)
  BY DEF Creations, CreationSteps
<1>3. CallOK(c)
  BY <1>2 DEF CallOK, Knows, JointCalls
<1>4. UNCHANGED jointTables
  BY DEF GetJoint
<1>. QED
  BY <1>1, <1>3, <1>4, ReadOnly

\* A creation that goes on to a step other than the insertion knows nothing yet.
LEMMA ContinueOK ==
  ASSUME NEW c \in Creations(CreationSteps), NEW step \in CreationSteps \ {"rev_insert"}
  PROVE  CallOK([c EXCEPT !.at = step])
<1>. DEFINE d == [c EXCEPT !.at = step]
<1>1. d \in Creations(CreationSteps)
  BY DEF Creations
<1>2. d.at = step
  BY DEF Creations
<1>. QED
  BY <1>1, <1>2 DEF CallOK, Knows, JointCalls, CreationSteps

LEMMA MatchStep ==
  ASSUME JInv, NEW t \in Threads,
         calls[t] \in Creations(CreationSteps),
         NEW fresh \in {"rev_number", None}, MatchExisting(t, fresh)
  PROVE  JInv'
<1>. DEFINE call == calls[t]
            rows == FindByKeyOf(call.joint, call.key)
<1>1. UNCHANGED jointTables
  BY DEF MatchExisting
<1>2. ASSUME NEW i \in rows, SameRequest(call, i), AnswerRevision(t, call, i)
      PROVE  JInv'
  <2>. DEFINE c == [at |-> "rev_answered", call |-> call, row |-> i]
  <2>1. i \in DOMAIN revisions
    BY DEF FindByKeyOf, RevisionsOf
  <2>2. c \in JointCalls
    BY <2>1 DEF JointCalls
  <2>3. CallOK(c)
    BY <1>2, <2>2 DEF CallOK, Knows, SameRequest, FindByKeyOf, RevisionsOf
  <2>. QED
    BY <1>1, <1>2, <2>3, ReadOnly DEF AnswerRevision
<1>3. ASSUME Finish(t)
      PROVE  JInv'
  BY <1>1, <1>3, IdleOK, ReadOnly DEF Finish
<1>4. ASSUME fresh # None, Continue(t, fresh)
      PROVE  JInv'
  <2>1. fresh \in CreationSteps \ {"rev_insert"}
    BY <1>4 DEF CreationSteps
  <2>. QED
    BY <1>1, <1>4, <2>1, ContinueOK, ReadOnly DEF Continue
<1>. QED
  BY <1>2, <1>3, <1>4 DEF MatchExisting

LEMMA NumberStep ==
  ASSUME JInv, NEW t \in Threads, NumberRevision(t)
  PROVE  JInv'
<1>. DEFINE call == calls[t]
            c == [call EXCEPT !.at = "rev_insert", !.no = NextRevisionNo(call.joint)]
<1>1. call \in JointCalls /\ call.at = "rev_number"
  BY CallOfThread DEF JInv, NumberRevision, At, JointSteps, CreationSteps
<1>2. call \in Creations(CreationSteps)
  BY <1>1, CallFields DEF CreationSteps
<1>3. call.joint \in Joints
  BY <1>2 DEF Creations
<1>4. NextRevisionNo(call.joint) = Cardinality(RevisionsOf(call.joint)) + 1
  BY <1>3, NextIsDense DEF JInv
<1>5. Cardinality(RevisionsOf(call.joint)) \in Nat
  BY RowsOfJoint DEF JInv, TablesOK
<1>6. /\ c \in Creations(CreationSteps)
      /\ c.at = "rev_insert"
      /\ c.joint = call.joint
      /\ c.no = Cardinality(RevisionsOf(call.joint)) + 1
  <2>1. ASSUME NEW d \in Creations(CreationSteps), NEW m \in Nat
        PROVE  LET e == [d EXCEPT !.at = "rev_insert", !.no = m] IN
                 /\ e \in Creations(CreationSteps)
                 /\ e.at = "rev_insert" /\ e.joint = d.joint /\ e.no = m
    BY DEF Creations, CreationSteps
  <2>2. NextRevisionNo(call.joint) \in Nat
    BY <1>4, <1>5
  <2>. QED
    BY <1>2, <1>4, <2>1, <2>2
<1>. HIDE DEF c
<1>7. CallOK(c)
  BY <1>5, <1>6 DEF CallOK, Knows, JointCalls
<1>8. Goto(t, c) /\ UNCHANGED jointTables
  BY DEF NumberRevision, c
<1>. QED
  BY <1>7, <1>8, ReadOnly

LEMMA ReadForStatus ==
  ASSUME JInv, NEW t \in Threads, ReadForSubmit(t) \/ ReadForReview(t)
  PROVE  JInv'
<1>1. CASE ReadForSubmit(t)
  <2>1. PICK i \in DOMAIN revisions : Goto(t, [at |-> "rev_submit", row |-> i])
    BY <1>1 DEF ReadForSubmit
  <2>2. CallOK([at |-> "rev_submit", row |-> i])
    BY DEF CallOK, Knows, JointCalls
  <2>. QED
    BY <1>1, <2>1, <2>2, ReadOnly DEF ReadForSubmit
<1>2. CASE ReadForReview(t)
  <2>1. PICK i \in DOMAIN revisions, u \in Users, step \in {"rev_approve", "rev_reject"} :
          /\ revisions[i].creator # u
          /\ Goto(t, [at |-> step, row |-> i, user |-> u])
    BY <1>2 DEF ReadForReview
  <2>2. CallOK([at |-> step, row |-> i, user |-> u])
    BY <2>1 DEF CallOK, Knows, JointCalls
  <2>. QED
    BY <1>2, <2>1, <2>2, ReadOnly DEF ReadForReview
<1>. QED
  BY <1>1, <1>2

(* ---- Steps that write. ---- *)

\* Rows of revisions that keep what never changes are in the same joints.
LEMMA SameRowsOfJoint ==
  ASSUME RowsKept, DOMAIN revisions' = DOMAIN revisions, NEW j
  PROVE  RevisionsOf(j)' = RevisionsOf(j)
BY DEF RevisionsOf, RowsKept

LEMMA JointWrites ==
  ASSUME JInv, NEW t \in Threads, InsertJoint(t) \/ ArchiveJoint(t)
  PROVE  JInv'
<1>1. PICK j \in Joints, s \in JointStatuses :
        joints' = [joints EXCEPT ![j].status = s] \/ joints' = joints
  <2>1. CASE InsertJoint(t)
    <3>1. calls[t].joint \in Joints
      BY <2>1, CallFields, CallOfThread DEF InsertJoint, At, JInv, JointSteps
    <3>. QED
      BY <2>1, <3>1 DEF InsertJoint, JointStatuses
  <2>2. CASE ArchiveJoint(t)
    <3>1. calls[t].joint \in Joints
      BY <2>2, CallFields, CallOfThread DEF ArchiveJoint, At, JInv, JointSteps
    <3>. QED
      BY <2>2, <3>1 DEF ArchiveJoint, JointStatuses
  <2>. QED
    BY <2>1, <2>2
<1>2. UNCHANGED revisions /\ Finish(t)
  BY DEF InsertJoint, ArchiveJoint
<1>3. joints \in [Joints -> JointRows]
  BY DEF JInv, TablesOK, TablesTypeOK
<1>4. /\ joints' \in [Joints -> JointRows]
      /\ \A k \in Joints : joints'[k].current = joints[k].current
  BY <1>1, <1>3 DEF JointRows
<1>5. TablesTypeOK' /\ KeysUnique' /\ RowsKept
  BY <1>2, <1>4 DEF JInv, TablesOK, TablesTypeOK, KeysUnique, RowsKept
<1>6. NumbersDense' /\ CurrentWasReviewed' /\ DecidedWereReviewed'
  BY <1>2, <1>4
     DEF JInv, TablesOK, NumbersDense, CurrentWasReviewed, DecidedWereReviewed, RevisionsOf
<1>. QED
  BY <1>2, <1>5, <1>6, LastWrite DEF TablesOK

\* A new row takes the next number of its joint, and its key is new.
LEMMA InsertRevisionStep ==
  ASSUME JInv, NEW t \in Threads, InsertRevision(t)
  PROVE  JInv'
<1>. DEFINE call == calls[t]
            n == Len(revisions) + 1
            row == RevisionRow(call)
<1>1. /\ call \in Creations(CreationSteps)
      /\ call.no \in 1 .. Cardinality(RevisionsOf(call.joint)) + 1
  BY CallFields, CallOfThread DEF JInv, Knows, InsertRevision, At, JointSteps, CreationSteps
<1>2. /\ call.joint \in Joints /\ call.body \in Bodies /\ call.user \in Users
      /\ call.key \in Keys \cup {None} /\ call.no \in Nat
  BY <1>1 DEF Creations
<1>3. CASE RevisionClash(call)
  <2>1. UNCHANGED jointTables /\ (Finish(t) \/ Continue(t, "rev_recheck"))
    BY <1>3 DEF InsertRevision, jointTables
  <2>2. CASE Finish(t)
    BY <2>1, <2>2, IdleOK, ReadOnly DEF Finish
  <2>3. CASE Continue(t, "rev_recheck")
    <3>1. CallOK([call EXCEPT !.at = "rev_recheck"])
      BY <1>1, ContinueOK DEF CreationSteps
    <3>. QED
      BY <2>1, <2>3, <3>1, ReadOnly DEF Continue
  <2>. QED
    BY <2>1, <2>2, <2>3
<1>4. CASE ~RevisionClash(call)
  <2>1. /\ revisions' = Append(revisions, row)
        /\ AnswerRevision(t, call, n)
        /\ Len(revisions) < MaxRevisions
        /\ UNCHANGED joints
    BY <1>4 DEF InsertRevision
  <2>2. row \in RevisionRows
    BY <1>2 DEF RevisionRow, RevisionRows, RevisionStatuses
  <2>3. revisions \in Seq(RevisionRows) /\ TablesOK
    BY DEF JInv, TablesOK, TablesTypeOK
  <2>4. /\ revisions' \in Seq(RevisionRows)
        /\ Len(revisions') = n
        /\ \A i \in 1 .. Len(revisions) : revisions'[i] = revisions[i]
        /\ revisions'[n] = row
    BY <2>1, <2>2, <2>3, AppendProperties
  <2>5. /\ DOMAIN revisions = 1 .. Len(revisions) /\ Len(revisions) \in Nat
        /\ DOMAIN revisions' = 1 .. n
    BY <2>3, <2>4, LenProperties
  <2>6. TablesTypeOK'
    BY <2>1, <2>3, <2>4, <2>5, JointsAssumption DEF TablesOK, TablesTypeOK
  <2>7. RowsKept
    BY <2>4, <2>5 DEF RowsKept
  <2>8. \A j : RevisionsOf(j)' = IF j = call.joint THEN RevisionsOf(j) \cup {n}
                                                  ELSE RevisionsOf(j)
    BY <2>4, <2>5 DEF RevisionsOf, RevisionRow
  <2>9. /\ revisions'[n].joint = call.joint /\ revisions'[n].body = call.body
        /\ revisions'[n].creator = call.user /\ revisions'[n].key = call.key
        /\ revisions'[n].no = call.no
    BY <2>4 DEF RevisionRow
  <2>10. KeysUnique'
    <3>1. \A i \in DOMAIN revisions :
            revisions[i].joint = call.joint /\ call.key # None => revisions[i].key # call.key
      BY <1>4 DEF RevisionClash, RevisionsOf
    <3>. QED
      BY <2>3, <2>4, <2>5, <2>9, <3>1 DEF TablesOK, KeysUnique
  <2>11. NumbersDense'
    <3>. DEFINE R == RevisionsOf(call.joint)
    <3>1. /\ IsFiniteSet(R) /\ Cardinality(R) \in Nat
          /\ R \subseteq 1 .. Len(revisions)
      BY <2>3, RowsOfJoint DEF TablesOK
    <3>2. {revisions[i].no : i \in R} = 1 .. Cardinality(R)
      BY <1>2, <2>3 DEF TablesOK, NumbersDense
    <3>3. call.no = Cardinality(R) + 1
      <4>1. call.no \notin {revisions[i].no : i \in R}
        BY <1>4 DEF RevisionClash
      <4>. QED
        BY <1>1, <3>1, <3>2, <4>1
    <3>4. n \notin R
      BY <2>5, <3>1
    <3>5. Cardinality(R \cup {n}) = Cardinality(R) + 1
      BY <3>1, <3>4, FS_AddElement
    <3>6. {revisions'[i].no : i \in R \cup {n}} = 1 .. Cardinality(R) + 1
      <4>1. \A i \in R : revisions'[i].no = revisions[i].no
        BY <2>4, <3>1
      <4>2. {revisions'[i].no : i \in R \cup {n}}
              = {revisions[i].no : i \in R} \cup {call.no}
        BY <2>9, <4>1
      <4>3. \A m \in Nat : (1 .. m) \cup {m + 1} = 1 .. m + 1
        OBVIOUS
      <4>4. {revisions[i].no : i \in R} \cup {call.no} = 1 .. Cardinality(R) + 1
        BY <3>1, <3>2, <3>3, <4>3
      <4>. QED
        BY <4>2, <4>4
    <3>7. ASSUME NEW j \in Joints
          PROVE  {revisions'[i].no : i \in RevisionsOf(j)'}
                   = 1 .. Cardinality(RevisionsOf(j)')
      <4>1. CASE j = call.joint
        BY <2>8, <3>5, <3>6, <4>1
      <4>2. CASE j # call.joint
        <5>1. \A i \in RevisionsOf(j) : revisions'[i].no = revisions[i].no
          BY <2>4, <2>5 DEF RevisionsOf
        <5>2. RevisionsOf(j)' = RevisionsOf(j)
          BY <2>8, <4>2
        <5>. QED
          BY <2>3, <5>1, <5>2 DEF TablesOK, NumbersDense
      <4>. QED
        BY <4>1, <4>2
    <3>. QED
      BY <3>7 DEF NumbersDense
  <2>12. CurrentWasReviewed'
    BY <2>1, <2>3, <2>4, <2>5, <2>8 DEF TablesOK, CurrentWasReviewed, RevisionsOf
  <2>18. DecidedWereReviewed'
    <3>1. revisions'[n].status = "draft"
      BY <2>4 DEF RevisionRow
    <3>. QED
      BY <2>3, <2>4, <2>5, <3>1 DEF TablesOK, DecidedWereReviewed
  <2>13. PICK d \in Creations(CreationSteps), m \in DOMAIN revisions' : d = call /\ m = n
    BY <1>1, <2>5
  <2>14. CallOK([at |-> "rev_answered", call |-> d, row |-> m])'
    BY <2>9, <2>13 DEF CallOK, Knows, JointCalls
  <2>15. Goto(t, [at |-> "rev_answered", call |-> d, row |-> m])
    BY <2>1, <2>13 DEF AnswerRevision
  <2>16. TablesTypeOK /\ CallsOK
    BY DEF JInv, TablesOK
  <2>17. CallsOK'
    BY <2>6, <2>7, <2>14, <2>15, <2>16, OneCallMoves
  <2>. QED
    BY <2>6, <2>10, <2>11, <2>12, <2>17, <2>18 DEF JInv, TablesOK
<1>. QED
  BY <1>3, <1>4

\* A write to the status and the reviewer of row i, which may make it current.
LEMMA ReviewWrite ==
  ASSUME JInv, NEW i \in DOMAIN revisions, NEW s \in RevisionStatuses,
         NEW r \in Users \cup {None},
         revisions' = [revisions EXCEPT ![i].status = s, ![i].reviewer = r],
         \/ r # revisions[i].creator /\ r # None /\ s # "draft"
         \/ s = "review" /\ r = revisions[i].reviewer,
         \/ UNCHANGED joints
         \/ /\ r # revisions[i].creator /\ r # None
            /\ joints' = [joints EXCEPT ![revisions[i].joint] =
                            [status |-> "active", current |-> i]]
  PROVE  TablesOK' /\ RowsKept
<1>1. /\ TablesOK
      /\ revisions \in Seq(RevisionRows) /\ Len(revisions) <= MaxRevisions
      /\ joints \in [Joints -> JointRows]
      /\ DOMAIN revisions = 1 .. Len(revisions) /\ Len(revisions) \in Nat
      /\ revisions[i] \in RevisionRows
  BY LenProperties, ElementOfSeq DEF JInv, TablesOK, TablesTypeOK
<1>. DEFINE row == [revisions[i] EXCEPT !.status = s, !.reviewer = r]
<1>2. /\ row \in RevisionRows
      /\ row.status = s /\ row.reviewer = r /\ row.joint = revisions[i].joint
      /\ row.no = revisions[i].no /\ row.body = revisions[i].body
      /\ row.creator = revisions[i].creator /\ row.key = revisions[i].key
  BY <1>1 DEF RevisionRows
<1>3. revisions' = [revisions EXCEPT ![i] = row]
  OBVIOUS
<1>. HIDE DEF row
<1>4. /\ revisions' \in Seq(RevisionRows)
      /\ Len(revisions') = Len(revisions)
      /\ revisions'[i] = row
      /\ \A k \in 1 .. Len(revisions) : k # i => revisions'[k] = revisions[k]
  <2>1. /\ [revisions EXCEPT ![i] = row] \in Seq(RevisionRows)
        /\ Len([revisions EXCEPT ![i] = row]) = Len(revisions)
        /\ \A k \in 1 .. Len(revisions) :
             [revisions EXCEPT ![i] = row][k] = IF k = i THEN row ELSE revisions[k]
    BY <1>1, <1>2, ExceptSeq
  <2>. QED
    BY <1>1, <1>3, <2>1
<1>5. DOMAIN revisions' = DOMAIN revisions
  BY <1>3
<1>6. RowsKept /\ \A k \in DOMAIN revisions : revisions'[k].no = revisions[k].no
  BY <1>1, <1>2, <1>4, <1>5 DEF RowsKept
<1>7. \A j : RevisionsOf(j)' = RevisionsOf(j)
  BY <1>5, <1>6, SameRowsOfJoint
<1>8. KeysUnique'
  BY <1>1, <1>5, <1>6 DEF TablesOK, KeysUnique, RowsKept
<1>9. NumbersDense'
  <2>1. ASSUME NEW j \in Joints
        PROVE  {revisions'[k].no : k \in RevisionsOf(j)}
                 = {revisions[k].no : k \in RevisionsOf(j)}
    BY <1>6 DEF RevisionsOf
  <2>. QED
    BY <1>1, <1>7, <2>1 DEF TablesOK, NumbersDense
<1>10. revisions[i].joint \in Joints
  BY <1>1 DEF RevisionRows
<1>11. TablesTypeOK'
  <2>1. [status |-> "active", current |-> i] \in JointRows
    BY <1>1, JointsAssumption DEF JointRows, JointStatuses
  <2>2. joints' \in [Joints -> JointRows]
    BY <1>1, <1>10, <2>1
  <2>. QED
    BY <1>1, <1>4, <2>2 DEF TablesTypeOK
<1>12. CurrentWasReviewed'
  <2>1. ASSUME NEW j \in Joints, joints'[j].current # 0,
               joints'[j].current # i \/ UNCHANGED joints
        PROVE  joints'[j].current = joints[j].current
    BY <1>1, <1>10, <2>1
  <2>2. ASSUME NEW j \in Joints, joints'[j].current # 0, joints'[j].current # i
        PROVE  LET k == joints'[j].current IN
                 /\ k \in RevisionsOf(j)'
                 /\ revisions'[k].reviewer \notin {None, revisions'[k].creator}
                 /\ revisions'[k].status # "draft"
    BY <1>1, <1>4, <1>7, <2>1, <2>2 DEF TablesOK, CurrentWasReviewed, RevisionsOf
  <2>3. ASSUME NEW j \in Joints, joints'[j].current = i, i # 0
        PROVE  /\ i \in RevisionsOf(j)'
               /\ revisions'[i].reviewer \notin {None, revisions'[i].creator}
               /\ revisions'[i].status # "draft"
    <3>1. CASE UNCHANGED joints
      <4>1. /\ i \in RevisionsOf(j)
            /\ revisions[i].reviewer \notin {None, revisions[i].creator}
        BY <1>1, <2>3, <3>1 DEF TablesOK, CurrentWasReviewed
      <4>. QED
        BY <1>2, <1>4, <1>7, <4>1
    <3>2. CASE ~UNCHANGED joints
      <4>1. /\ r # revisions[i].creator /\ r # None
            /\ joints' = [joints EXCEPT ![revisions[i].joint] =
                            [status |-> "active", current |-> i]]
        BY <3>2
      <4>2. CASE j = revisions[i].joint
        BY <1>2, <1>4, <1>7, <4>1, <4>2 DEF RevisionsOf
      <4>3. CASE j # revisions[i].joint
        <5>1. joints[j].current = i
          BY <1>1, <2>3, <4>1, <4>3
        <5>. QED
          BY <1>1, <2>3, <4>3, <5>1 DEF TablesOK, CurrentWasReviewed, RevisionsOf
      <4>. QED
        BY <4>2, <4>3
    <3>. QED
      BY <3>1, <3>2
  <2>. QED
    BY <2>2, <2>3 DEF CurrentWasReviewed
<1>13. DecidedWereReviewed'
  <2>1. ASSUME NEW k \in DOMAIN revisions, revisions'[k].status \in {"approved", "rejected"}
        PROVE  revisions'[k].reviewer \notin {None, revisions'[k].creator}
    <3>1. CASE k = i
      BY <1>2, <1>4, <2>1, <3>1
    <3>2. CASE k # i
      BY <1>1, <1>4, <2>1, <3>2 DEF TablesOK, DecidedWereReviewed
    <3>. QED
      BY <3>1, <3>2
  <2>. QED
    BY <1>5, <2>1 DEF DecidedWereReviewed
<1>. QED
  BY <1>6, <1>8, <1>9, <1>11, <1>12, <1>13 DEF TablesOK

LEMMA ReviewSteps ==
  ASSUME JInv, NEW t \in Threads,
         SubmitRevision(t) \/ ApproveRevision(t) \/ RejectRevision(t)
  PROVE  JInv'
<1>. DEFINE i == calls[t].row
            u == calls[t].user
<1>1. /\ calls[t] \in JointCalls /\ Knows(calls[t])
      /\ revisions \in Seq(RevisionRows)
  BY CallOfThread
     DEF JInv, TablesOK, TablesTypeOK, SubmitRevision, ApproveRevision, RejectRevision,
         At, JointSteps
<1>2. i \in DOMAIN revisions /\ Finish(t)
  BY <1>1, CallFields DEF SubmitRevision, ApproveRevision, RejectRevision, At
<1>3. revisions[i] \in RevisionRows
  BY <1>1, <1>2, LenProperties, ElementOfSeq
<1>4. CASE SubmitRevision(t)
  <2>1. revisions' = [revisions EXCEPT ![i].status = "review",
                                       ![i].reviewer = revisions[i].reviewer]
    <3>1. [revisions[i] EXCEPT !.status = "review"]
            = [revisions[i] EXCEPT !.status = "review", !.reviewer = revisions[i].reviewer]
      BY <1>3 DEF RevisionRows
    <3>. QED
      BY <1>1, <1>2, <1>4, <3>1 DEF SubmitRevision
  <2>2. revisions[i].reviewer \in Users \cup {None} /\ UNCHANGED joints
    BY <1>3, <1>4 DEF RevisionRows, SubmitRevision
  <2>3. TablesOK' /\ RowsKept
    BY <1>2, <2>1, <2>2, ReviewWrite DEF RevisionStatuses
  <2>. QED
    BY <1>2, <2>3, LastWrite
<1>5. CASE ApproveRevision(t) \/ RejectRevision(t)
  <2>1. u \in Users /\ u # revisions[i].creator /\ u # None
    BY <1>1, <1>5, CallFields, NoneAssumption
       DEF Knows, ApproveRevision, RejectRevision, At
  <2>2. PICK s \in {"approved", "rejected"} :
          revisions' = [revisions EXCEPT ![i].status = s, ![i].reviewer = u]
    BY <1>5 DEF ApproveRevision, RejectRevision
  <2>3. \/ UNCHANGED joints
        \/ joints' = [joints EXCEPT ![revisions[i].joint] =
                        [status |-> "active", current |-> i]]
    BY <1>5 DEF ApproveRevision, RejectRevision
  <2>4. TablesOK' /\ RowsKept
    BY <1>2, <2>1, <2>2, <2>3, ReviewWrite DEF RevisionStatuses
  <2>. QED
    BY <1>2, <2>4, LastWrite
<1>. QED
  BY <1>4, <1>5

(* ---- The specification. ---- *)

LEMMA JInvInit ==
  ASSUME InitCalls, JointsInit
  PROVE  JInv
<1>1. /\ revisions = <<>> /\ DOMAIN revisions = {}
      /\ joints = [j \in Joints |-> [status |-> "absent", current |-> 0]]
  BY DEF JointsInit
<1>2. TablesTypeOK
  BY <1>1, JointsAssumption DEF TablesTypeOK, JointRows, JointStatuses
<1>3. \A j : RevisionsOf(j) = {}
  BY <1>1 DEF RevisionsOf
<1>4. NumbersDense
  BY <1>3, FS_EmptySet DEF NumbersDense
<1>5. KeysUnique /\ CurrentWasReviewed /\ DecidedWereReviewed
  BY <1>1 DEF KeysUnique, CurrentWasReviewed, DecidedWereReviewed
<1>6. CallsOK
  BY IdleOK DEF CallsOK, InitCalls, CallOK
<1>. QED
  BY <1>2, <1>4, <1>5, <1>6 DEF JInv, TablesOK

LEMMA JointStepKeepsJInv ==
  ASSUME JInv, NEW t \in Threads, JointStep(t)
  PROVE  JInv'
<1>1. CASE FindKeyOfRevision(t)
  <2>1. calls[t] \in Creations(CreationSteps)
    BY <1>1, CallOfThread, CallFields DEF JInv, FindKeyOfRevision, At, JointSteps, CreationSteps
  <2>. QED
    BY <1>1, <2>1, MatchStep DEF FindKeyOfRevision
<1>2. CASE RecheckKey(t)
  <2>1. calls[t] \in Creations(CreationSteps)
    BY <1>2, CallOfThread, CallFields DEF JInv, RecheckKey, At, JointSteps, CreationSteps
  <2>. QED
    BY <1>2, <2>1, MatchStep DEF RecheckKey
<1>. QED
  BY <1>1, <1>2, CheckSteps, JointWrites, GetJointStep, NumberStep,
     InsertRevisionStep, ReadForStatus, ReviewSteps DEF JointStep

LEMMA NextKeepsJInv ==
  ASSUME JInv, [JointsNext]_jointVars
  PROVE  JInv'
<1>1. CASE JointsNext
  <2>1. PICK t \in Threads : JointStep(t) \/ (Leave(t) /\ UNCHANGED jointTables)
    BY <1>1 DEF JointsNext
  <2>2. CASE JointStep(t)
    BY <2>2, JointStepKeepsJInv
  <2>3. CASE Leave(t) /\ UNCHANGED jointTables
    BY <2>3, IdleOK, ReadOnly DEF Leave, Finish
  <2>. QED
    BY <2>1, <2>2, <2>3
<1>2. CASE UNCHANGED jointVars
  <2>1. UNCHANGED jointTables /\ UNCHANGED calls
    BY <1>2 DEF jointVars, jointTables
  <2>2. TablesOK' /\ RowsKept
    BY <2>1, TablesStay DEF JInv
  <2>3. CallsOK'
    BY <2>1, <2>2, CallsStay DEF JInv, TablesOK
  <2>. QED
    BY <2>2, <2>3 DEF JInv
<1>. QED
  BY <1>1, <1>2

\* As long as nobody asks what governance shows, every call is of these steps.
OnlyJointSteps == \A t \in Threads : calls[t].at \in JointSteps

\* The rows of an answered call are those of one key, and hold what was asked.
LEMMA JInvIsSound ==
  ASSUME JInv
  PROVE  JointsSound /\ (OnlyJointSteps => JointsTypeOK)
<1>1. ASSUME OnlyJointSteps
      PROVE  JointsTypeOK
  <2>1. \A t \in Threads : calls[t] \in JointCalls
    BY <1>1, CallOfThread DEF JInv, OnlyJointSteps
  <2>2. calls \in [Threads -> JointCalls]
    BY <2>1 DEF JInv, CallsOK
  <2>. QED
    BY <2>2 DEF JInv, TablesOK, TablesTypeOK, JointsTypeOK
<1>2. ASSUME NEW t \in Threads, At(t, "rev_answered")
      PROVE  LET call == calls[t].call IN
               /\ \A f \in {"joint", "body", "creator", "key"} :
                    revisions[calls[t].row][f] = RevisionRow(call)[f]
               /\ call.key # None => FindByKeyOf(call.joint, call.key) = {calls[t].row}
  <2>. DEFINE i == calls[t].row
              call == calls[t].call
  <2>1. /\ i \in DOMAIN revisions
        /\ revisions[i].joint = call.joint /\ revisions[i].body = call.body
        /\ revisions[i].creator = call.user /\ revisions[i].key = call.key
    BY <1>2, CallFields, CallOfThread DEF JInv, Knows, At, JointSteps
  <2>2. \A f \in {"joint", "body", "creator", "key"} : revisions[i][f] = RevisionRow(call)[f]
    BY <2>1 DEF RevisionRow
  <2>3. call.key # None => FindByKeyOf(call.joint, call.key) = {i}
    BY <2>1 DEF JInv, TablesOK, KeysUnique, FindByKeyOf, RevisionsOf
  <2>. QED
    BY <2>2, <2>3
<1>. QED
  BY <1>1, <1>2 DEF JointsSound, AnswersRepeat, JInv, TablesOK

\* A step of joints/service.py leads to one.
LEMMA JointStepStays ==
  ASSUME JInv, OnlyJointSteps, NEW t \in Threads,
         JointStep(t) \/ (Leave(t) /\ UNCHANGED jointTables)
  PROVE  OnlyJointSteps'
<1>. DEFINE stays == \E c : Goto(t, c) /\ c.at \in JointSteps
<1>1. ASSUME stays
      PROVE  OnlyJointSteps'
  <2>1. PICK c : Goto(t, c) /\ c.at \in JointSteps
    BY <1>1
  <2>2. DOMAIN calls = Threads
    BY DEF JInv, CallsOK
  <2>3. \A u \in Threads : calls'[u] = IF u = t THEN c ELSE calls[u]
    BY <2>1, <2>2 DEF Goto
  <2>. QED
    BY <2>1, <2>3 DEF OnlyJointSteps
<1>2. calls[t] \in JointCalls
  BY CallOfThread DEF JInv, OnlyJointSteps
<1>3. ASSUME Finish(t)
      PROVE  stays
  BY <1>3 DEF Finish, Idle, JointSteps
<1>4. ASSUME NEW step \in JointSteps, Continue(t, step), calls[t].at \in CreationSteps
      PROVE  stays
  <2>1. calls[t] \in Creations(CreationSteps)
    BY <1>2, <1>4, CallFields
  <2>2. [calls[t] EXCEPT !.at = step].at = step
    BY <2>1 DEF Creations
  <2>. QED
    BY <1>4, <2>2 DEF Continue
<1>5. ASSUME NEW call, NEW i, AnswerRevision(t, call, i)
      PROVE  stays
  BY <1>5 DEF AnswerRevision, JointSteps
<1>6. ASSUME NEW fresh \in {"rev_number", None}, MatchExisting(t, fresh),
             calls[t].at \in CreationSteps
      PROVE  stays
  <2>1. fresh # None => fresh \in JointSteps
    BY DEF JointSteps, CreationSteps
  <2>. HIDE DEF stays
  <2>. QED
    BY <1>3, <1>4, <1>5, <1>6, <2>1 DEF MatchExisting
<1>7. CASE CheckJointCode(t) \/ CheckArchive(t)
  <2>1. PICK j \in Joints, step \in {"joint_create", "joint_archive"} :
          Goto(t, [at |-> step, joint |-> j])
    BY <1>7 DEF CheckJointCode, CheckArchive
  <2>. QED
    BY <1>1, <2>1 DEF JointSteps
<1>8. CASE GetJoint(t)
  <2>1. PICK j \in Joints, u \in Users, k \in Keys \cup {None}, b \in Bodies,
             step \in {"rev_number", "rev_find_key"}, a \in BOOLEAN :
          Goto(t, [at |-> step, joint |-> j, user |-> u, key |-> k, body |-> b,
                   no |-> 0, archived |-> a])
    BY <1>8 DEF GetJoint
  <2>. QED
    BY <1>1, <2>1 DEF JointSteps, CreationSteps
<1>9. CASE FindKeyOfRevision(t) \/ RecheckKey(t)
  <2>. HIDE DEF stays
  <2>. QED
    BY <1>1, <1>6, <1>9 DEF FindKeyOfRevision, RecheckKey, At, CreationSteps
<1>10. CASE NumberRevision(t)
  <2>1. calls[t] \in Creations(CreationSteps)
    BY <1>2, <1>10, CallFields DEF NumberRevision, At, CreationSteps
  <2>2. PICK m : Goto(t, [calls[t] EXCEPT !.at = "rev_insert", !.no = m])
    BY <1>10 DEF NumberRevision
  <2>3. [calls[t] EXCEPT !.at = "rev_insert", !.no = m].at = "rev_insert"
    BY <2>1 DEF Creations
  <2>. QED
    BY <1>1, <2>2, <2>3 DEF JointSteps, CreationSteps
<1>11. CASE InsertRevision(t)
  <2>1. \/ AnswerRevision(t, calls[t], Len(revisions) + 1)
        \/ Finish(t)
        \/ Continue(t, "rev_recheck")
    BY <1>11 DEF InsertRevision
  <2>2. calls[t].at \in CreationSteps /\ "rev_recheck" \in JointSteps
    BY <1>11 DEF InsertRevision, At, CreationSteps, JointSteps
  <2>. HIDE DEF stays
  <2>. QED
    BY <1>1, <1>3, <1>4, <1>5, <2>1, <2>2
<1>12. CASE ReadForSubmit(t) \/ ReadForReview(t)
  <2>1. CASE ReadForSubmit(t)
    BY <1>1, <2>1 DEF ReadForSubmit, JointSteps
  <2>2. CASE ReadForReview(t)
    <3>1. PICK i \in DOMAIN revisions, u \in Users, step \in {"rev_approve", "rev_reject"} :
            Goto(t, [at |-> step, row |-> i, user |-> u])
      BY <2>2 DEF ReadForReview
    <3>. QED
      BY <1>1, <3>1 DEF JointSteps
  <2>. QED
    BY <1>12, <2>1, <2>2
<1>. HIDE DEF stays
<1>. QED
  BY <1>1, <1>3, <1>7, <1>8, <1>9, <1>10, <1>11, <1>12
     DEF JointStep, Leave, InsertJoint, ArchiveJoint, SubmitRevision, ApproveRevision,
         RejectRevision

\* The rows of both tables keep their types, and so does what every request
\* remembers of them (joints/service.py).
THEOREM JointsTypeCorrect == JointsSpec => []JointsTypeOK
<1>1. InitCalls /\ JointsInit => JInv /\ OnlyJointSteps
  BY JInvInit DEF InitCalls, OnlyJointSteps, JointSteps, Idle
<1>2. JInv /\ OnlyJointSteps /\ [JointsNext]_jointVars => JInv' /\ OnlyJointSteps'
  <2>. SUFFICES ASSUME JInv, OnlyJointSteps, [JointsNext]_jointVars
                PROVE  OnlyJointSteps'
    BY NextKeepsJInv
  <2>1. CASE JointsNext
    <3>1. PICK t \in Threads : JointStep(t) \/ (Leave(t) /\ UNCHANGED jointTables)
      BY <2>1 DEF JointsNext
    <3>. QED
      BY <3>1, JointStepStays
  <2>2. CASE UNCHANGED jointVars
    BY <2>2 DEF jointVars, OnlyJointSteps
  <2>. QED
    BY <2>1, <2>2
<1>3. JInv /\ OnlyJointSteps => JointsTypeOK
  BY JInvIsSound
<1>. QED
  BY <1>1, <1>2, <1>3, PTL DEF JointsSpec

\* Revision numbers are dense, a key is answered with the one row it made,
\* and a joint's current revision was reviewed by somebody other than its
\* author, however creations, retries and reviews overlap.
THEOREM JointsAreSound == JointsSpec => []JointsSound
<1>1. InitCalls /\ JointsInit => JInv
  BY JInvInit
<1>2. JInv /\ [JointsNext]_jointVars => JInv'
  BY NextKeepsJInv
<1>3. JInv => JointsSound
  BY JInvIsSound
<1>. QED
  BY <1>1, <1>2, <1>3, PTL DEF JointsSpec

(* ---- What governance shows. ---- *)

\* What is read of a revision now is so.
LEMMA ReadIsSo ==
  ASSUME TablesOK, NEW id \in DOMAIN revisions, NEW p \in Projections(id)
  PROVE  p \in ProjectionRows /\ p.joint_revision_id = id /\ WasSo(p)
<1>1. PICK status \in RevisionStatuses \cup {None} :
        p = Projection(id, status) /\ (status = None \/ status = revisions[id].status)
  <2>1. revisions[id] \in RevisionRows
    BY LenProperties, ElementOfSeq DEF TablesOK, TablesTypeOK
  <2>2. revisions[id].status \in RevisionStatuses
    BY <2>1 DEF RevisionRows
  <2>. QED
    BY <2>2 DEF Projections
<1>2. p \in ProjectionRows /\ p.joint_revision_id = id
  BY <1>1 DEF ProjectionRows, ProjectedStatuses, Projection
<1>3. CASE status = None
  <2>1. p.canonical_status = None
    BY <1>1, <1>3 DEF Projection
  <2>2. None \notin {"approved", "rejected"}
    BY NoneIsNoText
  <2>. QED
    BY <1>2, <2>1, <2>2 DEF WasSo
<1>4. CASE status # None
  <2>1. p.canonical_status = Canonical[status] /\ p.joint_revision_id = id
    BY <1>1, <1>4 DEF Projection
  <2>2. /\ Canonical["draft"] = "draft" /\ Canonical["review"] = "under_review"
        /\ Canonical["approved"] = "approved" /\ Canonical["rejected"] = "rejected"
    BY DEF Canonical
  <2>3. /\ p.canonical_status # "draft" => status # "draft"
        /\ p.canonical_status \in {"approved", "rejected"} =>
             status \in {"approved", "rejected"}
    BY <1>1, <1>4, <2>1, <2>2 DEF RevisionStatuses
  <2>4. status = revisions[id].status
    BY <1>1, <1>4
  <2>5. status \in {"approved", "rejected"} =>
          revisions[id].reviewer \notin {None, revisions[id].creator}
    BY <2>4 DEF TablesOK, DecidedWereReviewed
  <2>6. PICK i, row : i = p.joint_revision_id /\ row = revisions[i] /\ i = id
    BY <2>1
  <2>7. /\ p.canonical_status # "draft" => row.status # "draft"
        /\ p.canonical_status \in {"approved", "rejected"} =>
             row.reviewer \notin {None, row.creator}
    BY <2>3, <2>4, <2>5, <2>6
  <2>. QED
    BY <1>2, <2>6, <2>7 DEF WasSo
<1>. QED
  BY <1>2, <1>3, <1>4

LEMMA ReadOneStep ==
  ASSUME JInv, NEW t \in Threads, ReadOne(t)
  PROVE  JInv'
<1>1. UNCHANGED jointTables
  BY DEF ReadOne
<1>2. PICK id \in 1..(MaxRevisions + 1) :
        \E p \in Projections(id)
                  \cup (IF id \in DOMAIN revisions THEN {} ELSE {NotFound(id)}) :
          Goto(t, [at |-> "one_answered", item |-> p])
  BY Zenon DEF ReadOne
<1>5. PICK p \in Projections(id)
                  \cup (IF id \in DOMAIN revisions THEN {} ELSE {NotFound(id)}) :
        Goto(t, [at |-> "one_answered", item |-> p])
  BY <1>2
<1>3. CASE id \in DOMAIN revisions
  <2>1. p \in ProjectionRows /\ WasSo(p)
    BY <1>5, <1>3, ReadIsSo DEF JInv
  <2>. QED
    BY <1>1, <1>5, <2>1, ReadOnly DEF CallOK, ShowsOne, OneAnswered
<1>4. CASE id \notin DOMAIN revisions
  <2>1. p \in {Projection(id, None), NotFound(id)}
    BY <1>5, <1>4 DEF Projections
  <2>2. p \in Missing
    <3>1. Projection(id, None) = [Projection(id, None) EXCEPT !.outcome = "source_unavailable"]
      BY DEF Projection
    <3>. QED
      BY <2>1, <3>1 DEF Missing, NotFound
  <2>3. p.canonical_status = None
    BY <2>1 DEF Projection, NotFound
  <2>4. WasSo(p)
    BY <2>3, NoneIsNoText DEF WasSo
  <2>. QED
    BY <1>1, <1>5, <2>2, <2>4, ReadOnly DEF CallOK, ShowsOne, OneAnswered
<1>. QED
  BY <1>3, <1>4

LEMMA ListStep ==
  ASSUME JInv, NEW t \in Threads, ListRevisions(t)
  PROVE  JInv'
<1>1. UNCHANGED jointTables
  BY DEF ListRevisions
<1>2. PICK j \in Joints \cup {None} :
        LET ids == IF j = None THEN DOMAIN revisions ELSE RevisionsOf(j) IN
          \E todo \in {Ascending(ids), <<>>} :
            Goto(t, [at |-> "query_read", listed |-> todo, items |-> <<>>])
  BY DEF ListRevisions
<1>3. PICK ids \in SUBSET DOMAIN revisions :
        \E todo \in {Ascending(ids), <<>>} :
          Goto(t, [at |-> "query_read", listed |-> todo, items |-> <<>>])
  BY <1>2 DEF RevisionsOf
<1>4. PICK todo \in {Ascending(ids), <<>>} : Goto(t, QueryRead(todo, <<>>))
  BY <1>3 DEF QueryRead
<1>5. DOMAIN revisions = 1 .. Len(revisions) /\ Len(revisions) \in Nat
  BY LenProperties DEF JInv, TablesOK, TablesTypeOK
<1>6. /\ Ascending(ids) \in Seq(DOMAIN revisions)
      /\ \A i, k \in DOMAIN Ascending(ids) : i < k => Ascending(ids)[i] < Ascending(ids)[k]
  BY <1>5, AscendingLists
<1>7. /\ todo \in Seq(DOMAIN revisions)
      /\ \A i, k \in DOMAIN todo : i < k => todo[i] < todo[k]
  <2>1. CASE todo = <<>>
    BY <2>1
  <2>2. CASE todo = Ascending(ids)
    BY <1>6, <2>2
  <2>. QED
    BY <2>1, <2>2
<1>8. ReadSoFar(todo, <<>>)
  <2>1. Len(todo) \in Nat
    BY <1>7, LenProperties
  <2>2. <<>> \in Seq(ProjectionRows) /\ Len(<<>>) = 0 /\ DOMAIN <<>> = {}
    OBVIOUS
  <2>. QED
    BY <1>7, <2>1, <2>2 DEF ReadSoFar
<1>. QED
  BY <1>1, <1>4, <1>8, ReadOnly DEF CallOK, ReadsQuery

LEMMA ReadingCall ==
  ASSUME CallsOK, NEW t \in Threads, At(t, "query_read")
  PROVE  \E listed, items :
           calls[t] = QueryRead(listed, items) /\ ReadSoFar(listed, items)
<1>1. CallOK(calls[t]) /\ calls[t].at = "query_read"
  BY DEF CallsOK, At
<1>2. \A c \in JointCalls : c.at # "query_read"
  BY DEF JointCalls, Creations, CreationSteps, Idle
<1>3. \A p : OneAnswered(p).at # "query_read"
  BY DEF OneAnswered
<1>4. \A listed, items, query : QueryAnswered(listed, items, query).at # "query_read"
  BY DEF QueryAnswered
<1>. QED
  BY <1>1, <1>2, <1>3, <1>4 DEF CallOK, ShowsOne, ReadsQuery, AnswersQuery

LEMMA ReadNextStep ==
  ASSUME JInv, NEW t \in Threads, ReadNext(t)
  PROVE  JInv'
<1>1. UNCHANGED jointTables /\ At(t, "query_read")
  BY DEF ReadNext
<1>2. PICK listed, items :
        calls[t] = QueryRead(listed, items) /\ ReadSoFar(listed, items)
  BY <1>1, ReadingCall DEF JInv
<1>3. /\ listed \in Seq(DOMAIN revisions) /\ items \in Seq(ProjectionRows)
      /\ Len(items) \in Nat /\ Len(listed) \in Nat
      /\ DOMAIN listed = 1 .. Len(listed) /\ DOMAIN items = 1 .. Len(items)
  BY <1>2, LenProperties DEF ReadSoFar
<1>4. PICK d : d = Len(items)
  OBVIOUS
<1>5. calls[t].items = items /\ calls[t].listed = listed
  BY <1>2 DEF QueryRead
<1>6. d < Len(listed) /\ \E p \in Projections(listed[d + 1]) :
                           Goto(t, [calls[t] EXCEPT !.items = Append(@, p)])
  BY <1>4, <1>5 DEF ReadNext
<1>7. PICK p \in Projections(listed[d + 1]) :
        Goto(t, [calls[t] EXCEPT !.items = Append(@, p)])
  BY <1>6, Zenon
<1>8. [calls[t] EXCEPT !.items = Append(@, p)] = QueryRead(listed, Append(items, p))
  BY <1>2 DEF QueryRead
<1>9. d + 1 \in DOMAIN listed /\ listed[d + 1] \in DOMAIN revisions
  BY <1>3, <1>4, <1>6, ElementOfSeq
<1>10. p \in ProjectionRows /\ p.joint_revision_id = listed[d + 1] /\ WasSo(p)
  BY <1>7, <1>9, ReadIsSo DEF JInv
<1>11. PICK more : more = Append(items, p)
  OBVIOUS
<1>12. /\ more \in Seq(ProjectionRows) /\ Len(more) = d + 1
       /\ DOMAIN more = 1 .. d + 1 /\ more[d + 1] = p
       /\ \A i \in 1 .. d : more[i] = items[i]
  <2>1. items \in Seq(ProjectionRows) /\ p \in ProjectionRows
    BY <1>3, <1>10
  <2>. QED
    BY <1>3, <1>4, <1>11, <2>1, AppendedEntry
<1>13. ReadSoFar(listed, more)
  <2>1. Len(more) <= Len(listed)
    BY <1>3, <1>4, <1>6, <1>12
  <2>2. ASSUME NEW i \in DOMAIN more
        PROVE  more[i].joint_revision_id = listed[i] /\ WasSo(more[i])
    <3>1. CASE i = d + 1
      BY <1>10, <1>12, <3>1
    <3>2. CASE i # d + 1
      <4>1. i \in 1 .. d /\ i \in DOMAIN items
        BY <1>3, <1>4, <1>12, <3>2
      <4>2. more[i] = items[i]
        BY <1>12, <4>1
      <4>. QED
        BY <1>2, <4>1, <4>2 DEF ReadSoFar
    <3>. QED
      BY <3>1, <3>2
  <2>. QED
    BY <1>2, <1>12, <2>1, <2>2 DEF ReadSoFar
<1>14. CallOK(QueryRead(listed, more))
  BY <1>13 DEF CallOK, ReadsQuery
<1>15. Goto(t, QueryRead(listed, more))
  BY <1>7, <1>8, <1>11
<1>. QED
  BY <1>1, <1>14, <1>15, ReadOnly

LEMMA AnswerStep ==
  ASSUME JInv, NEW t \in Threads, AnswerQuery(t)
  PROVE  JInv'
<1>1. UNCHANGED jointTables /\ At(t, "query_read")
  BY DEF AnswerQuery
<1>2. PICK listed, items :
        calls[t] = QueryRead(listed, items) /\ ReadSoFar(listed, items)
  BY <1>1, ReadingCall DEF JInv
<1>3. calls[t].items = items /\ calls[t].listed = listed
  BY <1>2 DEF QueryRead
<1>4. Len(items) = Len(listed)
  BY <1>3 DEF AnswerQuery
<1>5. PICK query \in Queries :
        Goto(t, [at |-> "query_answered", listed |-> calls[t].listed,
                 items |-> calls[t].items, query |-> query,
                 answer |-> Answer(calls[t].items, query)])
  BY Zenon DEF AnswerQuery
<1>6. Goto(t, QueryAnswered(listed, items, query))
  BY <1>3, <1>5 DEF QueryAnswered
<1>7. CallOK(QueryAnswered(listed, items, query))
  BY <1>2, <1>4 DEF CallOK, AnswersQuery
<1>. QED
  BY <1>1, <1>6, <1>7, ReadOnly

LEMMA ProjectionsNextKeepsJInv ==
  ASSUME JInv, [ProjectionsNext]_jointVars
  PROVE  JInv'
<1>1. CASE ProjectionsNext
  <2>1. PICK t \in Threads : \/ JointStep(t)
                             \/ ReadProjections(t)
                             \/ AnswerQuery(t)
                             \/ Leave(t) /\ UNCHANGED jointTables
    BY <1>1 DEF ProjectionsNext
  <2>2. CASE JointStep(t)
    BY <2>2, JointStepKeepsJInv
  <2>3. CASE ReadProjections(t)
    BY <2>3, ReadOneStep, ListStep, ReadNextStep DEF ReadProjections
  <2>4. CASE AnswerQuery(t)
    BY <2>4, AnswerStep
  <2>5. CASE Leave(t) /\ UNCHANGED jointTables
    BY <2>5, IdleOK, ReadOnly DEF Leave, Finish
  <2>. QED
    BY <2>1, <2>2, <2>3, <2>4, <2>5
<1>2. CASE UNCHANGED jointVars
  BY <1>2, NextKeepsJInv
<1>. QED
  BY <1>1, <1>2

(* ---- What is answered. ---- *)

\* What is sorted by, as numbers: the place of the text, last what has none.
Rank(p, by, order) ==
  IF by = "joint_revision_id"
    THEN IF order = "asc" THEN p.joint_revision_id ELSE 0 - p.joint_revision_id
  ELSE IF p[by] = None THEN 100
  ELSE IF order = "asc" THEN Place(p[by]) ELSE 0 - Place(p[by])

LEMMA PlaceOfText ==
  ASSUME NEW text \in Range(Alphabet)
  PROVE  Place(text) \in 1 .. 7 /\ Alphabet[Place(text)] = text
<1>1. PICK a : a = Alphabet
  OBVIOUS
<1>2. DOMAIN a = 1 .. 7
  BY <1>1 DEF Alphabet
<1>3. \E i \in DOMAIN a : a[i] = text
  BY <1>1 DEF Range
<1>4. Place(text) = CHOOSE i \in DOMAIN a : a[i] = text
  BY <1>1 DEF Place
<1>. QED
  BY <1>1, <1>2, <1>3, <1>4

\* A column of a row that can be sorted by a text holds one, or nothing.
Sortable(p, by) ==
  /\ p.joint_revision_id \in Nat
  /\ by # "joint_revision_id" => p[by] \in Range(Alphabet) \cup {None}

LEMMA RankIsNumber ==
  ASSUME NEW p, NEW by, NEW order, Sortable(p, by)
  PROVE  /\ Rank(p, by, order) \in Int
         /\ by # "joint_revision_id" => (p[by] = None <=> Rank(p, by, order) = 100)
<1>1. CASE by = "joint_revision_id"
  BY <1>1 DEF Rank, Sortable
<1>2. CASE by # "joint_revision_id" /\ p[by] = None
  BY <1>2 DEF Rank
<1>3. CASE by # "joint_revision_id" /\ p[by] # None
  <2>1. Place(p[by]) \in 1 .. 7
    BY <1>3, PlaceOfText DEF Sortable
  <2>. QED
    BY <1>3, <2>1 DEF Rank
<1>. QED
  BY <1>1, <1>2, <1>3

\* Rows are sorted by their ranks, and by their ids where these are the same.
LEMMA BeforeByRank ==
  ASSUME NEW p, NEW q, NEW by, NEW order, Sortable(p, by), Sortable(q, by),
         p.joint_revision_id # q.joint_revision_id
  PROVE  Before(p, q, by, order) <=>
           \/ Rank(p, by, order) < Rank(q, by, order)
           \/ /\ Rank(p, by, order) = Rank(q, by, order)
              /\ p.joint_revision_id < q.joint_revision_id
<1>1. PICK m, n : m = p.joint_revision_id /\ n = q.joint_revision_id
  OBVIOUS
<1>2. m \in Nat /\ n \in Nat /\ m # n
  BY <1>1 DEF Sortable
<1>3. CASE by = "joint_revision_id"
  <2>1. Before(p, q, by, order) = ((order = "asc") = (m < n))
    BY <1>1, <1>3, Zenon DEF Before
  <2>2. /\ order = "asc" => Rank(p, by, order) = m /\ Rank(q, by, order) = n
        /\ order # "asc" => Rank(p, by, order) = 0 - m /\ Rank(q, by, order) = 0 - n
    BY <1>1, <1>3 DEF Rank
  <2>3. /\ order = "asc" => (Before(p, q, by, order) <=> m < n)
        /\ order # "asc" => (Before(p, q, by, order) <=> ~(m < n))
    <3>1. PICK x \in BOOLEAN : x = (order = "asc")
      OBVIOUS
    <3>3. PICK y \in BOOLEAN : y = (m < n)
      <4>1. (m < n) \in BOOLEAN
        BY <1>2
      <4>. QED
        BY <4>1, Zenon
    <3>2. Before(p, q, by, order) = (x = y)
      BY <2>1, <3>1, <3>3, Zenon
    <3>. QED
      BY <3>1, <3>2, <3>3
  <2>. QED
    BY <1>1, <1>2, <2>2, <2>3
<1>4. CASE by # "joint_revision_id"
  <2>1. PICK a, b : a = p[by] /\ b = q[by]
    OBVIOUS
  <2>2. a \in Range(Alphabet) \cup {None} /\ b \in Range(Alphabet) \cup {None}
    BY <1>4, <2>1 DEF Sortable
  <2>3. /\ a # None => Place(a) \in 1 .. 7 /\ Alphabet[Place(a)] = a
        /\ b # None => Place(b) \in 1 .. 7 /\ Alphabet[Place(b)] = b
    BY <2>2, PlaceOfText
  <2>4. /\ a = None => Rank(p, by, order) = 100
        /\ b = None => Rank(q, by, order) = 100
        /\ a # None /\ order = "asc" => Rank(p, by, order) = Place(a)
        /\ b # None /\ order = "asc" => Rank(q, by, order) = Place(b)
        /\ a # None /\ order # "asc" => Rank(p, by, order) = 0 - Place(a)
        /\ b # None /\ order # "asc" => Rank(q, by, order) = 0 - Place(b)
    BY <1>4, <2>1 DEF Rank
  <2>5. CASE None \in {a, b}
    <3>1. Before(p, q, by, order) <=> a # None \/ (a = b /\ m < n)
      BY <1>1, <1>4, <2>1, <2>5, Zenon DEF Before
    <3>. QED
      BY <1>1, <1>2, <2>3, <2>4, <2>5, <3>1
  <2>6. CASE None \notin {a, b} /\ a = b
    <3>1. Before(p, q, by, order) <=> m < n
      BY <1>1, <1>4, <2>1, <2>6, Zenon DEF Before
    <3>2. Rank(p, by, order) = Rank(q, by, order) /\ Rank(p, by, order) \in Int
      BY <2>3, <2>4, <2>6
    <3>. QED
      BY <1>1, <3>1, <3>2
  <2>7. CASE None \notin {a, b} /\ a # b
    <3>1. Before(p, q, by, order) = ((order = "asc") = (Place(a) < Place(b)))
      BY <1>1, <1>4, <2>1, <2>7, Zenon DEF Before
    <3>2. Place(a) # Place(b) /\ Place(a) \in 1 .. 7 /\ Place(b) \in 1 .. 7
      BY <2>3, <2>7
    <3>3. /\ order = "asc" => (Before(p, q, by, order) <=> Place(a) < Place(b))
          /\ order # "asc" => (Before(p, q, by, order) <=> ~(Place(a) < Place(b)))
      <4>1. PICK x \in BOOLEAN : x = (order = "asc")
        OBVIOUS
      <4>3. PICK y \in BOOLEAN : y = (Place(a) < Place(b))
        <5>1. (Place(a) < Place(b)) \in BOOLEAN
          BY <3>2
        <5>. QED
          BY <5>1, Zenon
      <4>2. Before(p, q, by, order) = (x = y)
        BY <3>1, <4>1, <4>3, Zenon
      <4>. QED
        BY <4>1, <4>2, <4>3
    <3>. QED
      BY <2>4, <2>7, <3>2, <3>3
  <2>. QED
    BY <2>5, <2>6, <2>7
<1>. QED
  BY <1>3, <1>4

LEMMA RowsAreSortable ==
  ASSUME TablesTypeOK, NEW p \in ProjectionRows, NEW by \in Columns
  PROVE  Sortable(p, by)
<1>1. PICK id \in DOMAIN revisions, s \in RevisionStatuses \cup {None} : p = Projection(id, s)
  BY DEF ProjectionRows, ProjectedStatuses
<1>2. id \in Nat
  <2>1. DOMAIN revisions = 1 .. Len(revisions) /\ Len(revisions) \in Nat
    BY LenProperties DEF TablesTypeOK
  <2>. QED
    BY <2>1
<1>3. {"approved", "draft", "rejected", "review", "source_unavailable", "supported",
       "under_review"} \subseteq Range(Alphabet)
  <2>1. PICK a : a = Alphabet
    OBVIOUS
  <2>2. /\ DOMAIN a = 1 .. 7
        /\ a[1] = "approved" /\ a[2] = "draft" /\ a[3] = "rejected" /\ a[4] = "review"
        /\ a[5] = "source_unavailable" /\ a[6] = "supported" /\ a[7] = "under_review"
    BY <2>1 DEF Alphabet
  <2>3. \A i \in 1 .. 7 : a[i] \in Range(a)
    BY <2>2 DEF Range
  <2>. QED
    BY <2>1, <2>2, <2>3
<1>4. /\ p.joint_revision_id = id
      /\ p.source_status = s
      /\ p.canonical_status = IF s = None THEN None ELSE Canonical[s]
      /\ p.outcome \in {"source_unavailable", "supported"}
  BY <1>1 DEF Projection
<1>5. /\ Canonical["draft"] = "draft" /\ Canonical["review"] = "under_review"
      /\ Canonical["approved"] = "approved" /\ Canonical["rejected"] = "rejected"
  BY DEF Canonical
<1>6. p.source_status \in Range(Alphabet) \cup {None}
  BY <1>3, <1>4 DEF RevisionStatuses
<1>7. p.canonical_status \in Range(Alphabet) \cup {None}
  BY <1>3, <1>4, <1>5 DEF RevisionStatuses
<1>8. p.outcome \in Range(Alphabet)
  BY <1>3, <1>4
<1>. QED
  BY <1>2, <1>4, <1>6, <1>7, <1>8 DEF Sortable, Columns

(* ---- Pages ---- *)

LEMMA MinOfTwo ==
  ASSUME NEW a \in Int, NEW b \in Int
  PROVE  Min({a, b}) = IF a <= b THEN a ELSE b
<1>1. PICK m : m = Min({a, b})
  OBVIOUS
<1>2. m = CHOOSE x \in {a, b} : \A y \in {a, b} : x <= y
  BY <1>1 DEF Min
<1>3. \E x \in {a, b} : \A y \in {a, b} : x <= y
  <2>1. CASE a <= b
    BY <2>1
  <2>2. CASE b <= a
    BY <2>2
  <2>. QED
    BY <2>1, <2>2
<1>4. m \in {a, b} /\ \A y \in {a, b} : m <= y
  BY <1>2, <1>3
<1>. QED
  BY <1>1, <1>4

\* Rounding up: so many pages that the last is begun, and none too many.
LEMMA Ceiling ==
  ASSUME NEW n \in Nat, NEW size \in Nat \ {0}, NEW k \in Nat
  PROVE  /\ (n + size - 1) \div size \in Nat
         /\ k * size \in Nat
         /\ k * size < n <=> k < (n + size - 1) \div size
<1>1. PICK q : q = (n + size - 1) \div size
  OBVIOUS
<1>2. n + size - 1 \in Nat
  OBVIOUS
<1>3. q \in Nat /\ q * size <= n + size - 1 /\ n + size - 1 < q * size + size
  BY <1>1, <1>2
<1>4. k * size \in Nat /\ q * size \in Nat
  BY <1>3
<1>5. CASE k < q
  <2>1. k * size + size <= q * size
    <3>1. PICK d \in Nat : q = k + 1 + d
      <4>1. q - k - 1 \in Nat /\ q = k + 1 + (q - k - 1)
        BY <1>3, <1>5
      <4>. QED
        BY <4>1
    <3>2. (k + 1 + d) * size = k * size + size + d * size /\ d * size \in Nat
      OBVIOUS
    <3>. QED
      BY <1>4, <3>1, <3>2
  <2>. QED
    BY <1>1, <1>3, <1>4, <1>5, <2>1
<1>6. CASE ~(k < q)
  <2>1. q * size <= k * size
    <3>1. PICK d \in Nat : k = q + d
      <4>1. k - q \in Nat /\ k = q + (k - q)
        BY <1>3, <1>6
      <4>. QED
        BY <4>1
    <3>2. (q + d) * size = q * size + d * size /\ d * size \in Nat
      BY <1>3
    <3>. QED
      BY <1>4, <3>1, <3>2
  <2>. QED
    BY <1>1, <1>3, <1>4, <1>6, <2>1
<1>. QED
  BY <1>1, <1>3, <1>4, <1>5, <1>6

\* so holds what the first of seqs are, put together one after the other.
PutTogether(seqs, so) ==
  so = [i \in 1 .. Len(seqs) |-> IF i = 1 THEN seqs[i] ELSE so[i - 1] \o seqs[i]]

LEMMA FlattenIs ==
  ASSUME NEW seqs, Len(seqs) \in Nat \ {0}, NEW so, PutTogether(seqs, so)
  PROVE  FlattenSeq(seqs) = so[Len(seqs)]
<1>. DEFINE Next1(f) == [i \in 1 .. Len(seqs) |-> IF i = 1 THEN seqs[i] ELSE f[i - 1] \o seqs[i]]
<1>0. PICK n : n = Len(seqs)
  OBVIOUS
<1>1. PICK f : f = CHOOSE g : g = Next1(g)
  OBVIOUS
<1>2. FlattenSeq(seqs) = f[n]
  BY <1>0, <1>1 DEF FlattenSeq
<1>3. so = Next1(so)
  BY DEF PutTogether
<1>4. f = Next1(f)
  <2>. HIDE DEF Next1
  <2>. QED
    BY <1>1, <1>3
<1>5. ASSUME NEW h, h = Next1(h)
      PROVE  \A i \in 1 .. n : h[i] = IF i = 1 THEN seqs[i] ELSE h[i - 1] \o seqs[i]
  <2>1. PICK g : g = h
    OBVIOUS
  <2>2. h = Next1(g)
    BY <1>5, <2>1
  <2>3. \A i \in 1 .. n : h[i] = IF i = 1 THEN seqs[i] ELSE g[i - 1] \o seqs[i]
    BY <1>0, <2>2
  <2>. QED
    BY <2>1, <2>3
<1>6. PICK S : S = {i \in 1 .. n : f[i] # so[i]}
  OBVIOUS
<1>7. S = {}
  <2>. SUFFICES ASSUME S # {}
                PROVE  FALSE
    OBVIOUS
  <2>1. PICK k : k \in S /\ \A m \in S : k <= m
    <3>1. S \in SUBSET Nat
      BY <1>6
    <3>. QED
      BY <3>1, MinMember
  <2>2. k \in 1 .. n /\ f[k] # so[k]
    BY <1>6, <2>1
  <2>3. k # 1
    <3>1. f[1] = seqs[1] /\ so[1] = seqs[1]
      <4>1. 1 \in 1 .. n
        BY <1>0
      <4>. QED
        BY <1>3, <1>4, <1>5, <4>1
    <3>. QED
      BY <2>2, <3>1
  <2>4. k - 1 \in 1 .. n /\ k \in 2 .. n /\ ~(k <= k - 1)
    BY <1>0, <2>2, <2>3
  <2>5. f[k - 1] = so[k - 1]
    BY <1>6, <2>1, <2>4
  <2>6. f[k] = f[k - 1] \o seqs[k]
    BY <1>4, <1>5, <2>2, <2>3
  <2>7. so[k] = so[k - 1] \o seqs[k]
    BY <1>3, <1>5, <2>2, <2>3
  <2>. QED
    BY <2>2, <2>5, <2>6, <2>7, Zenon
<1>8. n \in 1 .. n
  BY <1>0
<1>. QED
  BY <1>0, <1>2, <1>6, <1>7, <1>8

\* A list up to one place and from there to another is the list up to that.
LEMMA PrefixAndMore ==
  ASSUME NEW T, NEW s \in Seq(T), NEW a \in Nat, NEW b \in Nat, a <= b, b <= Len(s)
  PROVE  SubSeq(s, 1, a) \o SubSeq(s, a + 1, b) = SubSeq(s, 1, b)
<1>1. Len(s) \in Nat /\ DOMAIN s = 1 .. Len(s) /\ \A i \in 1 .. Len(s) : s[i] \in T
  BY LenProperties, ElementOfSeq
<1>2. PICK l, m, r : l = SubSeq(s, 1, a) /\ m = SubSeq(s, a + 1, b) /\ r = SubSeq(s, 1, b)
  OBVIOUS
<1>3. /\ l \in Seq(T) /\ Len(l) = a /\ \A i \in 1 .. a : l[i] = s[i]
      /\ r \in Seq(T) /\ Len(r) = b /\ \A i \in 1 .. b : r[i] = s[i]
  <2>1. a \in 0 .. Len(s) /\ b \in 0 .. Len(s)
    BY <1>1
  <2>. QED
    BY <1>2, <2>1, PrefixElements
<1>4. m \in Seq(T) /\ Len(m) = b - a /\ \A i \in 1 .. b - a : m[i] = s[a + i]
  <2>1. a + 1 \in Int /\ b \in Int /\ \A i \in (a + 1) .. b : s[i] \in T
    BY <1>1
  <2>2. /\ m \in Seq(T)
        /\ Len(m) = IF a + 1 <= b THEN b - (a + 1) + 1 ELSE 0
        /\ \A i \in 1 .. b - (a + 1) + 1 : m[i] = s[a + 1 + i - 1]
    BY <1>2, <2>1, SubSeqProperties
  <2>3. b - (a + 1) + 1 = b - a /\ (~(a + 1 <= b) => b - a = 0)
    OBVIOUS
  <2>4. ASSUME NEW i \in 1 .. b - a
        PROVE  m[i] = s[a + i]
    <3>1. a + 1 + i - 1 = a + i
      OBVIOUS
    <3>. QED
      BY <2>2, <2>3, <3>1
  <2>. QED
    BY <2>2, <2>3, <2>4
<1>5. /\ l \o m \in Seq(T) /\ Len(l \o m) = b
      /\ \A i \in 1 .. b : (l \o m)[i] = s[i]
  <2>1. /\ l \o m \in Seq(T) /\ Len(l \o m) = Len(l) + Len(m)
        /\ \A i \in 1 .. Len(l) + Len(m) :
             (l \o m)[i] = IF i <= Len(l) THEN l[i] ELSE m[i - Len(l)]
    <3>1. l \in Seq(T) /\ m \in Seq(T)
      BY <1>3, <1>4
    <3>. QED
      BY <3>1, ConcatProperties
  <2>2. ASSUME NEW i \in 1 .. b
        PROVE  (l \o m)[i] = s[i]
    <3>1. CASE i <= a
      BY <1>3, <1>4, <2>1, <3>1
    <3>2. CASE ~(i <= a)
      <4>1. i - a \in 1 .. b - a /\ a + (i - a) = i
        BY <3>2
      <4>2. m[i - a] = s[i]
        BY <1>4, <4>1
      <4>. QED
        BY <1>3, <1>4, <2>1, <3>2, <4>2
    <3>. QED
      BY <3>1, <3>2
  <2>. QED
    BY <1>3, <1>4, <2>1, <2>2
<1>. QED
  BY <1>2, <1>3, <1>5, SeqEqual

\* Where a page ends.
LEMMA EndOfPage ==
  ASSUME NEW n \in Nat, NEW size \in Nat \ {0}, NEW k \in Nat,
         NEW pages, pages = (n + size - 1) \div size
  PROVE  /\ Min({n, k * size}) \in Nat /\ Min({n, k * size}) <= n
         /\ k < pages => Min({n, k * size}) = k * size /\ k * size < n
         /\ k >= pages => Min({n, k * size}) = n /\ k * size >= n
<1>1. k * size \in Nat /\ pages \in Nat /\ (k * size < n <=> k < pages)
  BY Ceiling
<1>2. Min({n, k * size}) = IF n <= k * size THEN n ELSE k * size
  BY <1>1, MinOfTwo
<1>. QED
  BY <1>1, <1>2

\* The pages of a list put together are the list, and none of them is empty.
LEMMA PagesMakeList ==
  ASSUME NEW T, NEW export \in Seq(T), NEW size \in Nat \ {0},
         NEW pages, pages = PageCount(export, size)
  PROVE  /\ pages \in Nat
         /\ FlattenSeq([n \in 1 .. pages |-> PageOf(export, n, size)]) = export
         /\ \A page \in Nat \ {0} :
              /\ page > pages => PageOf(export, page, size) = <<>>
              /\ page \in 1 .. pages => PageOf(export, page, size) # <<>>
<1>1. PICK len : len = Len(export)
  OBVIOUS
<1>2. len \in Nat /\ DOMAIN export = 1 .. len /\ \A i \in 1 .. len : export[i] \in T
  BY <1>1, LenProperties, ElementOfSeq
<1>3. pages = (len + size - 1) \div size
  BY <1>1 DEF PageCount
<1>4. pages \in Nat
  BY <1>2, <1>3, Ceiling
<1>. DEFINE upto(k) == Min({len, k * size})
<1>5. \A k \in Nat :
        /\ k * size \in Nat
        /\ upto(k) \in Nat /\ upto(k) <= len
        /\ k < pages => upto(k) = k * size /\ k * size < len
        /\ k >= pages => upto(k) = len /\ k * size >= len
  BY <1>2, <1>3, EndOfPage, Ceiling
<1>6. \A k \in Nat \ {0} : PageOf(export, k, size) = SubSeq(export, (k - 1) * size + 1, upto(k))
  BY <1>1 DEF PageOf
<1>. HIDE DEF upto
<1>7. ASSUME NEW page \in Nat \ {0}
      PROVE  /\ page > pages => PageOf(export, page, size) = <<>>
             /\ page \in 1 .. pages => PageOf(export, page, size) # <<>>
  <2>1. PICK first, last : first = (page - 1) * size + 1 /\ last = upto(page)
    OBVIOUS
  <2>2. page - 1 \in Nat /\ first \in Nat /\ last \in Nat /\ first >= 1 /\ last <= len
    <3>1. page - 1 \in Nat
      OBVIOUS
    <3>2. (page - 1) * size \in Nat
      BY <1>5, <3>1
    <3>3. upto(page) \in Nat /\ upto(page) <= len
      BY <1>5
    <3>. QED
      BY <2>1, <3>1, <3>2, <3>3
  <2>3. PageOf(export, page, size) = SubSeq(export, first, last)
    BY <1>6, <2>1
  <2>4. ASSUME page > pages
        PROVE  PageOf(export, page, size) = <<>>
    <3>1. page - 1 >= pages
      BY <1>4, <2>4
    <3>2. last < first
      BY <1>2, <1>5, <2>1, <2>2, <3>1
    <3>. QED
      BY <2>2, <2>3, <3>2, SubSeqEmpty
  <2>5. ASSUME page \in 1 .. pages
        PROVE  PageOf(export, page, size) # <<>>
    <3>1. page - 1 < pages
      BY <1>4, <2>5
    <3>2. first <= len /\ (page - 1) * size < len
      BY <1>2, <1>5, <2>1, <2>2, <3>1
    <3>3. page * size = (page - 1) * size + size /\ (page - 1) * size \in Nat
      BY <1>5, <2>2
    <3>4. first <= last
      <4>1. CASE page < pages
        BY <1>5, <2>1, <3>3, <4>1
      <4>2. CASE page >= pages
        BY <1>5, <2>1, <3>2, <4>2
      <4>. QED
        BY <1>4, <4>1, <4>2
    <3>5. \A i \in first .. last : export[i] \in T
      BY <1>2, <2>2
    <3>6. Len(SubSeq(export, first, last)) = last - first + 1
      BY <2>2, <3>4, <3>5, SubSeqProperties
    <3>7. Len(<<>>) = 0 /\ last - first + 1 # 0
      BY <2>2, <3>4
    <3>. QED
      BY <2>3, <3>6, <3>7
  <2>. QED
    BY <2>4, <2>5
<1>8. FlattenSeq([n \in 1 .. pages |-> PageOf(export, n, size)]) = export
  <2>1. PICK seqs : seqs = [n \in 1 .. pages |-> PageOf(export, n, size)]
    OBVIOUS
  <2>2. Len(seqs) = pages
    <3>1. DOMAIN seqs = 1 .. pages
      BY <2>1
    <3>2. pages \in Nat
      BY <1>4
    <3>. QED
      BY <3>1, <3>2
  <2>3. CASE pages = 0
    <3>1. upto(0) = len /\ 0 * size >= len
      BY <1>5, <2>3
    <3>2. 0 * size = 0
      OBVIOUS
    <3>3. len = 0
      BY <1>2, <3>1, <3>2
    <3>4. export = <<>>
      BY <1>1, <3>3, EmptySeq
    <3>5. seqs = <<>>
      BY <2>1, <2>3
    <3>. QED
      BY <2>1, <2>2, <2>3, <3>4, <3>5 DEF FlattenSeq
  <2>4. CASE pages # 0
    <3>1. PICK so : so = [k \in 1 .. pages |-> SubSeq(export, 1, upto(k))]
      OBVIOUS
    <3>2. /\ DOMAIN so = 1 .. pages
          /\ so = [k \in 1 .. pages |-> so[k]]
          /\ \A k \in 1 .. pages : so[k] = SubSeq(export, 1, upto(k))
      BY <3>1
    <3>3. \A k \in 1 .. pages : seqs[k] = SubSeq(export, (k - 1) * size + 1, upto(k))
      BY <1>6, <2>1
    <3>4. so[1] = seqs[1]
      <4>1. (1 - 1) * size + 1 = 1 /\ 1 \in 1 .. pages
        BY <1>4, <2>4
      <4>. QED
        <5>1. so[1] = SubSeq(export, 1, upto(1))
          BY <3>2, <4>1
        <5>2. PICK x : x = (1 - 1) * size + 1
          OBVIOUS
        <5>3. seqs[1] = SubSeq(export, x, upto(1)) /\ x = 1
          BY <3>3, <4>1, <5>2
        <5>. QED
          BY <5>1, <5>3
    <3>5. ASSUME NEW i \in 2 .. pages
          PROVE  so[i] = so[i - 1] \o seqs[i]
      <4>1. i \in Nat /\ i - 1 \in Nat /\ i - 1 < pages /\ i \in 1 .. pages /\ i - 1 \in 1 .. pages
        BY <1>4
      <4>2. PICK a, b : a = upto(i - 1) /\ b = upto(i)
        OBVIOUS
      <4>3. a \in Nat /\ b \in Nat /\ b <= len /\ a = (i - 1) * size /\ a < len
        BY <1>5, <4>1, <4>2
      <4>4. a <= b
        <5>1. i * size = (i - 1) * size + size /\ (i - 1) * size \in Nat
          BY <1>5, <4>1
        <5>2. CASE i < pages
          BY <1>5, <4>1, <4>2, <4>3, <5>1, <5>2
        <5>3. CASE i >= pages
          BY <1>2, <1>5, <4>1, <4>2, <4>3, <5>3
        <5>. QED
          BY <1>4, <4>1, <5>2, <5>3
      <4>5. SubSeq(export, 1, a) \o SubSeq(export, a + 1, b) = SubSeq(export, 1, b)
        BY <1>1, <4>3, <4>4, PrefixAndMore
      <4>6. /\ so[i - 1] = SubSeq(export, 1, a) /\ so[i] = SubSeq(export, 1, b)
            /\ seqs[i] = SubSeq(export, a + 1, b)
        BY <3>2, <3>3, <4>1, <4>2, <4>3
      <4>. QED
        BY <4>5, <4>6
    <3>6. FlattenSeq(seqs) = so[pages]
      <4>1. Len(seqs) \in Nat \ {0}
        BY <1>4, <2>2, <2>4
      <4>2. \A i \in 1 .. pages : so[i] = IF i = 1 THEN seqs[i] ELSE so[i - 1] \o seqs[i]
        <5>1. \A i \in 1 .. pages : i # 1 => i \in 2 .. pages
          BY <1>4
        <5>. QED
          BY <3>4, <3>5, <5>1
      <4>3. PutTogether(seqs, so)
        BY <2>2, <3>2, <4>2 DEF PutTogether
      <4>. QED
        BY <2>2, <4>1, <4>3, FlattenIs
    <3>7. so[pages] = SubSeq(export, 1, len)
      BY <1>4, <1>5, <2>4, <3>2
    <3>8. SubSeq(export, 1, len) = export
      BY <1>1, <1>2, PrefixElements, SeqEqual
    <3>. QED
      BY <2>1, <3>6, <3>7, <3>8
  <2>. QED
    BY <2>3, <2>4
<1>. QED
  BY <1>4, <1>7, <1>8

(* ---- The properties. ---- *)

\* A list of some rows in the order of a query.
ListedFor(list, found, query) ==
  /\ \A p \in found : Sortable(p, query.sort_by)
  /\ \A m, n \in DOMAIN list : m < n =>
       /\ list[m] # list[n] /\ list[m] \in found /\ list[n] \in found
       /\ list[m].joint_revision_id # list[n].joint_revision_id
       /\ Before(list[m], list[n], query.sort_by, query.sort_order)

\* The rows of a query that match are listed in its order, each once.
LEMMA SelectedLists ==
  ASSUME TablesTypeOK, NEW listed, NEW items, ReadSoFar(listed, items),
         NEW query \in Queries, NEW found,
         found = {p \in Range(items) : MatchesSearch(p, query.search)},
         NEW list, list = Selected(items, query)
  PROVE  /\ list \in Seq(found) /\ Len(list) = Cardinality(found)
         /\ Cardinality(found) \in Nat /\ Range(list) = found
         /\ ListedFor(list, found, query)
<1>1. PICK by, order : by = query.sort_by /\ order = query.sort_order
  OBVIOUS
<1>2. PICK R : R = {pq \in found \X found : pq[1] # pq[2] /\ Before(pq[1], pq[2], by, order)}
  OBVIOUS
<1>3. list = InOrder(found, R)
  BY <1>1, <1>2 DEF Selected
<1>4. /\ items \in Seq(ProjectionRows) /\ Len(items) \in Nat /\ DOMAIN items = 1 .. Len(items)
      /\ Len(listed) \in Nat /\ DOMAIN listed = 1 .. Len(listed)
      /\ \A i \in DOMAIN items : items[i] \in ProjectionRows /\ i \in DOMAIN listed
      /\ \A i \in DOMAIN listed : listed[i] \in DOMAIN revisions
  <2>1. items \in Seq(ProjectionRows) /\ listed \in Seq(DOMAIN revisions)
        /\ Len(items) <= Len(listed)
    BY DEF ReadSoFar
  <2>2. /\ Len(items) \in Nat /\ DOMAIN items = 1 .. Len(items)
        /\ Len(listed) \in Nat /\ DOMAIN listed = 1 .. Len(listed)
    BY <2>1, LenProperties
  <2>. QED
    BY <2>1, <2>2, ElementOfSeq
<1>5. ASSUME NEW p \in found
      PROVE  Sortable(p, by) /\ \E i \in DOMAIN items : p = items[i]
  <2>1. PICK i \in DOMAIN items : p = items[i]
    BY DEF Range
  <2>2. p \in ProjectionRows /\ by \in Columns
    BY <1>1, <1>4, <2>1, QueriesAssumption
  <2>. QED
    BY <2>1, <2>2, RowsAreSortable
<1>6. ASSUME NEW p \in found, NEW q \in found, p.joint_revision_id = q.joint_revision_id
      PROVE  p = q
  <2>1. PICK i \in DOMAIN items : p = items[i]
    BY <1>5
  <2>2. PICK j \in DOMAIN items : q = items[j]
    BY <1>5
  <2>3. listed[i] = listed[j]
    BY <1>6, <2>1, <2>2 DEF ReadSoFar
  <2>4. \A k, l \in DOMAIN listed : k < l => listed[k] < listed[l]
    BY DEF ReadSoFar
  <2>5. listed[i] \in Nat /\ listed[j] \in Nat /\ i \in Nat /\ j \in Nat
    <3>1. DOMAIN revisions = 1 .. Len(revisions) /\ Len(revisions) \in Nat
      BY LenProperties DEF TablesTypeOK
    <3>. QED
      BY <1>4, <3>1
  <2>6. i = j
    BY <1>4, <2>3, <2>4, <2>5
  <2>. QED
    BY <2>1, <2>2, <2>6
<1>7. \A p \in found : Rank(p, by, order) \in Int /\ p.joint_revision_id \in Nat
  BY <1>5, RankIsNumber DEF Sortable
<1>8. \A p, q \in found : <<p, q>> \in R <=>
        /\ p # q
        /\ \/ Rank(p, by, order) < Rank(q, by, order)
           \/ /\ Rank(p, by, order) = Rank(q, by, order)
              /\ p.joint_revision_id < q.joint_revision_id
  <2>. SUFFICES ASSUME NEW p \in found, NEW q \in found
                PROVE  <<p, q>> \in R <=>
                         /\ p # q
                         /\ \/ Rank(p, by, order) < Rank(q, by, order)
                            \/ /\ Rank(p, by, order) = Rank(q, by, order)
                               /\ p.joint_revision_id < q.joint_revision_id
    OBVIOUS
  <2>1. <<p, q>> \in R <=> p # q /\ Before(p, q, by, order)
    BY <1>2
  <2>2. Sortable(p, by) /\ Sortable(q, by)
        /\ (p # q => p.joint_revision_id # q.joint_revision_id)
    BY <1>5, <1>6
  <2>3. p # q => (Before(p, q, by, order) <=>
                    \/ Rank(p, by, order) < Rank(q, by, order)
                    \/ /\ Rank(p, by, order) = Rank(q, by, order)
                       /\ p.joint_revision_id < q.joint_revision_id)
    BY <2>2, BeforeByRank
  <2>. QED
    BY <2>1, <2>3
<1>9. /\ \A p \in found : <<p, p>> \notin R
      /\ \A p, q, r \in found : <<p, q>> \in R /\ <<q, r>> \in R => <<p, r>> \in R
      /\ \A p, q \in found : p = q \/ <<p, q>> \in R \/ <<q, p>> \in R
  <2>1. \A p \in found : <<p, p>> \notin R
    BY <1>8
  <2>2. ASSUME NEW p \in found, NEW q \in found, NEW r \in found,
               <<p, q>> \in R, <<q, r>> \in R
        PROVE  <<p, r>> \in R
    <3>1. PICK a, b, c : /\ a = Rank(p, by, order) /\ b = Rank(q, by, order)
                         /\ c = Rank(r, by, order)
      OBVIOUS
    <3>2. PICK k, l, m : /\ k = p.joint_revision_id /\ l = q.joint_revision_id
                         /\ m = r.joint_revision_id
      OBVIOUS
    <3>3. a \in Int /\ b \in Int /\ c \in Int /\ k \in Nat /\ l \in Nat /\ m \in Nat
      BY <1>7, <3>1, <3>2
    <3>4. (a < b \/ (a = b /\ k < l)) /\ (b < c \/ (b = c /\ l < m))
      BY <1>8, <2>2, <3>1, <3>2
    <3>5. a < c \/ (a = c /\ k < m)
      BY <3>3, <3>4
    <3>6. p # r
      BY <3>1, <3>2, <3>3, <3>5
    <3>. QED
      BY <1>8, <3>1, <3>2, <3>5, <3>6
  <2>3. ASSUME NEW p \in found, NEW q \in found
        PROVE  p = q \/ <<p, q>> \in R \/ <<q, p>> \in R
    <3>1. PICK a, b : a = Rank(p, by, order) /\ b = Rank(q, by, order)
      OBVIOUS
    <3>2. PICK k, l : k = p.joint_revision_id /\ l = q.joint_revision_id
      OBVIOUS
    <3>3. a \in Int /\ b \in Int /\ k \in Nat /\ l \in Nat
      BY <1>7, <3>1, <3>2
    <3>4. p # q => k # l
      BY <1>6, <3>2
    <3>5. p # q => \/ a < b \/ (a = b /\ k < l)
                   \/ b < a \/ (b = a /\ l < k)
      BY <3>3, <3>4
    <3>. QED
      BY <1>8, <3>1, <3>2, <3>5
  <2>. QED
    BY <2>1, <2>2, <2>3
<1>10. IsFiniteSet(found)
  <2>1. items \in Surjection(1 .. Len(items), Range(items))
    <3>1. items \in [1 .. Len(items) -> Range(items)]
      <4>1. items = [i \in DOMAIN items |-> items[i]]
        BY <1>4, SeqDef
      <4>. QED
        BY <1>4, <4>1 DEF Range
    <3>2. \A x \in Range(items) : \E i \in 1 .. Len(items) : items[i] = x
      BY <1>4 DEF Range
    <3>. QED
      BY <3>1, <3>2 DEF Surjection
  <2>2. IsFiniteSet(1 .. Len(items))
    BY <1>4, FS_Interval
  <2>3. IsFiniteSet(Range(items))
    BY <2>1, <2>2, FS_Surjection
  <2>. QED
    BY <2>3, FS_Subset
<1>11. /\ list \in Seq(found) /\ Len(list) = Cardinality(found)
       /\ DOMAIN list = 1 .. Cardinality(found) /\ Cardinality(found) \in Nat
       /\ \A p \in found : \E n \in DOMAIN list : list[n] = p
       /\ \A m, n \in DOMAIN list : m < n => <<list[m], list[n]>> \in R
  BY ONLY <1>3, <1>9, <1>10, InOrderLists
<1>12. \A n \in DOMAIN list : list[n] \in found
  BY <1>11, ElementOfSeq
<1>13. Range(list) = found
  <2>1. \A p \in Range(list) : p \in found
    BY <1>12, Zenon DEF Range
  <2>2. \A p \in found : p \in Range(list)
    BY <1>11, Zenon DEF Range
  <2>. QED
    BY <2>1, <2>2
<1>14. \A m, n \in DOMAIN list : m < n =>
         /\ list[m] # list[n] /\ list[m] \in found /\ list[n] \in found
         /\ list[m].joint_revision_id # list[n].joint_revision_id
         /\ Before(list[m], list[n], by, order)
  <2>. SUFFICES ASSUME NEW m \in DOMAIN list, NEW n \in DOMAIN list, m < n
                PROVE  /\ list[m] # list[n] /\ list[m] \in found /\ list[n] \in found
                       /\ list[m].joint_revision_id # list[n].joint_revision_id
                       /\ Before(list[m], list[n], by, order)
    BY Zenon
  <2>1. PICK p \in found, q \in found : p = list[m] /\ q = list[n]
    BY <1>12
  <2>2. <<p, q>> \in R
    BY <1>11, <2>1
  <2>3. p # q /\ Before(p, q, by, order)
    BY <1>2, <2>2
  <2>4. p.joint_revision_id # q.joint_revision_id
    BY <1>6, <2>3
  <2>. QED
    BY <2>1, <2>3, <2>4, Zenon
<1>. QED
  BY <1>1, <1>5, <1>11, <1>13, <1>14 DEF ListedFor

LEMMA AnsweredCall ==
  ASSUME CallsOK, NEW call \in Answered("query_answered")
  PROVE  \E listed, items : \E query \in Queries :
           /\ call = QueryAnswered(listed, items, query)
           /\ ReadSoFar(listed, items)
           /\ Len(items) = Len(listed)
<1>1. CallOK(call) /\ call.at = "query_answered"
  BY DEF CallsOK, Answered, At
<1>2. \A c \in JointCalls : c.at # "query_answered"
  BY DEF JointCalls, Creations, CreationSteps, Idle
<1>3. \A p : OneAnswered(p).at # "query_answered"
  BY DEF OneAnswered
<1>4. \A listed, items : QueryRead(listed, items).at # "query_answered"
  BY DEF QueryRead
<1>. QED
  BY <1>1, <1>2, <1>3, <1>4 DEF CallOK, ShowsOne, ReadsQuery, AnswersQuery

LEMMA ListingComplete ==
  ASSUME JInv
  PROVE  ListingsComplete
<1>. SUFFICES ASSUME NEW call \in Answered("query_answered")
              PROVE  /\ \A i, j \in DOMAIN call.listed : i < j => call.listed[i] < call.listed[j]
                     /\ [i \in DOMAIN call.items |-> call.items[i].joint_revision_id] = call.listed
                     /\ Range(call.listed) \subseteq DOMAIN revisions
  BY DEF ListingsComplete
<1>1. PICK listed, items : \E query \in Queries :
        /\ call = QueryAnswered(listed, items, query)
        /\ ReadSoFar(listed, items)
        /\ Len(items) = Len(listed)
  BY AnsweredCall DEF JInv
<1>2. call.listed = listed /\ call.items = items
  BY <1>1 DEF QueryAnswered
<1>3. /\ listed \in Seq(DOMAIN revisions) /\ items \in Seq(ProjectionRows)
      /\ \A i, j \in DOMAIN listed : i < j => listed[i] < listed[j]
      /\ \A i \in DOMAIN items : items[i].joint_revision_id = listed[i]
  BY <1>1 DEF ReadSoFar
<1>4. /\ DOMAIN items = DOMAIN listed
      /\ \A i \in DOMAIN listed : listed[i] \in DOMAIN revisions
      /\ listed = [i \in DOMAIN listed |-> listed[i]]
  <2>1. DOMAIN items = 1 .. Len(items) /\ DOMAIN listed = 1 .. Len(listed)
    BY <1>3, LenProperties
  <2>2. listed = [i \in DOMAIN listed |-> listed[i]]
    BY <1>3, SeqDef
  <2>. QED
    BY <1>1, <1>3, <2>1, <2>2, ElementOfSeq
<1>5. [i \in DOMAIN items |-> items[i].joint_revision_id] = listed
  BY <1>3, <1>4
<1>6. Range(listed) \subseteq DOMAIN revisions
  BY <1>4 DEF Range
<1>. QED
  BY <1>2, <1>3, <1>5, <1>6

LEMMA PagesArePartition ==
  ASSUME JInv
  PROVE  PagesPartition
<1>. SUFFICES
       ASSUME NEW call \in Answered("query_answered")
       PROVE  LET export == call.answer.export
                  page(n) == PageOf(export, n, call.query.page_size)
                  matching == {p \in Range(call.items) : MatchesSearch(p, call.query.search)}
              IN  /\ call.answer.total = Cardinality(matching)
                  /\ Len(export) = call.answer.total /\ Range(export) = matching
                  /\ FlattenSeq([n \in 1..call.answer.pages |-> page(n)]) = export
                  /\ call.query.page > call.answer.pages => call.answer.items = <<>>
                  /\ call.query.page \in 1..call.answer.pages => call.answer.items # <<>>
  BY DEF PagesPartition
<1>1. PICK listed, items : \E query \in Queries :
        /\ call = QueryAnswered(listed, items, query)
        /\ ReadSoFar(listed, items)
        /\ Len(items) = Len(listed)
  BY AnsweredCall DEF JInv
<1>2. PICK query \in Queries :
        call = QueryAnswered(listed, items, query) /\ ReadSoFar(listed, items)
  BY <1>1
<1>3. PICK answer : answer = Answer(items, query)
  OBVIOUS
<1>4. call.items = items /\ call.query = query /\ call.answer = answer
  BY <1>2, <1>3 DEF QueryAnswered
<1>5. PICK list : list = Selected(items, query)
  OBVIOUS
<1>6. PICK size, at : size = query.page_size /\ at = query.page
  OBVIOUS
<1>7. /\ answer.items = PageOf(list, at, size) /\ answer.total = Len(list)
      /\ answer.pages = PageCount(list, size) /\ answer.export = list
  BY <1>3, <1>5, <1>6 DEF Answer
<1>8. PICK found : found = {p \in Range(items) : MatchesSearch(p, query.search)}
  OBVIOUS
<1>9. list \in Seq(found) /\ Len(list) = Cardinality(found) /\ Range(list) = found
  BY <1>2, <1>5, <1>8, SelectedLists DEF JInv, TablesOK
<1>10. size \in Nat \ {0} /\ at \in Nat \ {0}
  BY <1>6, QueriesAssumption
<1>11. PICK pages : pages = PageCount(list, size)
  OBVIOUS
<1>12. /\ FlattenSeq([n \in 1 .. pages |-> PageOf(list, n, size)]) = list
       /\ at > pages => PageOf(list, at, size) = <<>>
       /\ at \in 1 .. pages => PageOf(list, at, size) # <<>>
  BY <1>9, <1>10, <1>11, PagesMakeList
<1>. QED
  BY <1>4, <1>6, <1>7, <1>8, <1>9, <1>11, <1>12

LEMMA ExportIsOrdered ==
  ASSUME JInv
  PROVE  ExportOrdered
<1>. SUFFICES
       ASSUME NEW call \in Answered("query_answered"),
              NEW i \in DOMAIN call.answer.export, NEW j \in DOMAIN call.answer.export,
              i < j
       PROVE  LET export == call.answer.export
                  by == call.query.sort_by
              IN  /\ export[i][by] = export[j][by]
                       => export[i].joint_revision_id < export[j].joint_revision_id
                  /\ export[i][by] = None => export[j][by] = None
  BY DEF ExportOrdered
<1>1. PICK listed, items : \E query \in Queries :
        /\ call = QueryAnswered(listed, items, query)
        /\ ReadSoFar(listed, items)
        /\ Len(items) = Len(listed)
  BY AnsweredCall DEF JInv
<1>2. PICK query \in Queries :
        call = QueryAnswered(listed, items, query) /\ ReadSoFar(listed, items)
  BY <1>1
<1>3. PICK list : list = Selected(items, query)
  OBVIOUS
<1>4. call.query = query /\ call.answer.export = list
  <2>1. call.query = query /\ call.answer = Answer(items, query)
    BY <1>2 DEF QueryAnswered
  <2>. QED
    BY <1>3, <2>1 DEF Answer
<1>5. PICK by, order : by = query.sort_by /\ order = query.sort_order
  OBVIOUS
<1>6. PICK found : found = {p \in Range(items) : MatchesSearch(p, query.search)}
  OBVIOUS
<1>7. ListedFor(list, found, query)
  <2>1. TablesTypeOK /\ ReadSoFar(listed, items)
    BY <1>2 DEF JInv, TablesOK
  <2>. QED
    BY <1>3, <1>6, <2>1, SelectedLists
<1>8. PICK p \in found, q \in found : p = list[i] /\ q = list[j]
  BY <1>4, <1>7 DEF ListedFor
<1>9. /\ p.joint_revision_id # q.joint_revision_id
      /\ Before(p, q, by, order) /\ Sortable(p, by) /\ Sortable(q, by)
  BY <1>4, <1>5, <1>7, <1>8 DEF ListedFor
<1>10. \/ Rank(p, by, order) < Rank(q, by, order)
       \/ /\ Rank(p, by, order) = Rank(q, by, order)
          /\ p.joint_revision_id < q.joint_revision_id
  BY <1>9, BeforeByRank
<1>11. /\ p[by] = q[by] => p.joint_revision_id < q.joint_revision_id
       /\ p[by] = None => q[by] = None
  <2>1. CASE by = "joint_revision_id"
    <3>1. p[by] = p.joint_revision_id /\ q[by] = q.joint_revision_id
      BY <2>1
    <3>2. p[by] # None
      BY <1>9, <3>1, QueriesAssumption DEF Sortable
    <3>. QED
      BY <1>9, <3>1, <3>2
  <2>2. CASE by # "joint_revision_id"
    <3>1. /\ Rank(p, by, order) \in Int /\ Rank(q, by, order) \in Int
          /\ p[by] = None <=> Rank(p, by, order) = 100
          /\ q[by] = None <=> Rank(q, by, order) = 100
      BY <1>9, <2>2, RankIsNumber
    <3>2. q[by] # None => Rank(q, by, order) <= 7
      <4>. SUFFICES ASSUME q[by] # None
                    PROVE  Rank(q, by, order) <= 7
        OBVIOUS
      <4>1. Place(q[by]) \in 1 .. 7
        BY <1>9, <2>2, PlaceOfText DEF Sortable
      <4>. QED
        BY <2>2, <4>1 DEF Rank
    <3>3. p[by] = q[by] => Rank(p, by, order) = Rank(q, by, order)
      BY <2>2, Zenon DEF Rank
    <3>. QED
      BY <1>10, <3>1, <3>2, <3>3
  <2>. QED
    BY <2>1, <2>2
<1>. QED
  BY <1>4, <1>5, <1>8, <1>11

LEMMA ShownWas ==
  ASSUME JInv
  PROVE  ShownWasSo
<1>1. ASSUME NEW t \in Threads, At(t, "one_answered")
      PROVE  WasSo(calls[t].item)
  <2>1. CallOK(calls[t]) /\ calls[t].at = "one_answered"
    BY <1>1 DEF JInv, CallsOK, At
  <2>2. \A c \in JointCalls : c.at # "one_answered"
    BY DEF JointCalls, Creations, CreationSteps, Idle
  <2>3. \A listed, items : QueryRead(listed, items).at # "one_answered"
    BY DEF QueryRead
  <2>4. \A listed, items, query : QueryAnswered(listed, items, query).at # "one_answered"
    BY DEF QueryAnswered
  <2>5. ShowsOne(calls[t])
    BY <2>1, <2>2, <2>3, <2>4 DEF CallOK, ReadsQuery, AnswersQuery
  <2>6. PICK p : calls[t] = OneAnswered(p) /\ WasSo(p)
    BY <2>5 DEF ShowsOne
  <2>7. calls[t].item = p
    BY <2>6 DEF OneAnswered
  <2>. QED
    BY <2>6, <2>7
<1>2. ASSUME NEW t \in Threads, calls[t].at \in {"query_read", "query_answered"},
             NEW p \in Range(calls[t].items)
      PROVE  WasSo(p)
  <2>1. PICK listed, items : calls[t].items = items /\ ReadSoFar(listed, items)
    <3>1. CASE calls[t].at = "query_read"
      <4>1. PICK listed, items :
              calls[t] = QueryRead(listed, items) /\ ReadSoFar(listed, items)
        BY <3>1, ReadingCall DEF JInv, At
      <4>2. calls[t].items = items
        BY <4>1 DEF QueryRead
      <4>. QED
        BY <4>1, <4>2
    <3>2. CASE calls[t].at = "query_answered"
      <4>1. calls[t] \in Answered("query_answered")
        BY <3>2 DEF Answered, At
      <4>2. PICK listed, items : \E query \in Queries :
              calls[t] = QueryAnswered(listed, items, query) /\ ReadSoFar(listed, items)
        BY <4>1, AnsweredCall DEF JInv
      <4>3. calls[t].items = items
        BY <4>2 DEF QueryAnswered
      <4>. QED
        BY <4>2, <4>3
    <3>. QED
      BY <1>2, <3>1, <3>2
  <2>2. PICK i \in DOMAIN items : p = items[i]
    BY <2>1 DEF Range
  <2>. QED
    BY <2>1, <2>2 DEF ReadSoFar
<1>3. ASSUME NEW t \in Threads,
             NEW p \in IF At(t, "one_answered") THEN {calls[t].item}
                       ELSE IF calls[t].at \in {"query_read", "query_answered"}
                         THEN Range(calls[t].items) ELSE {}
      PROVE  WasSo(p)
  BY <1>1, <1>2, <1>3
<1>. QED
  BY <1>3 DEF ShownWasSo, WasSo

LEMMA ProjectionsTyped ==
  ASSUME JInv
  PROVE  ProjectionsTypeOK
<1>1. ASSUME NEW t \in Threads
      PROVE  \/ calls[t] \in JointCalls
             \/ At(t, "one_answered") /\ calls[t].item \in ProjectionRows \cup Missing
             \/ /\ calls[t].at \in {"query_read", "query_answered"}
                /\ Range(calls[t].items) \subseteq ProjectionRows
  <2>1. CallOK(calls[t])
    BY DEF JInv, CallsOK
  <2>2. ASSUME NEW listed, NEW items, ReadSoFar(listed, items)
        PROVE  Range(items) \subseteq ProjectionRows
    <3>1. \A i \in DOMAIN items : items[i] \in ProjectionRows
      BY <2>2, LenProperties, ElementOfSeq DEF ReadSoFar
    <3>. QED
      BY <3>1 DEF Range
  <2>3. CASE ShowsOne(calls[t])
    <3>1. PICK p \in ProjectionRows \cup Missing : calls[t] = OneAnswered(p)
      BY <2>3 DEF ShowsOne
    <3>2. calls[t].at = "one_answered" /\ calls[t].item = p
      BY <3>1 DEF OneAnswered
    <3>. QED
      BY <3>1, <3>2 DEF At
  <2>4. CASE ReadsQuery(calls[t])
    <3>1. PICK listed, items : calls[t] = QueryRead(listed, items) /\ ReadSoFar(listed, items)
      BY <2>4, Zenon DEF ReadsQuery
    <3>2. calls[t].at = "query_read" /\ calls[t].items = items
      BY <3>1 DEF QueryRead
    <3>. QED
      BY <2>2, <3>1, <3>2
  <2>5. CASE AnswersQuery(calls[t])
    <3>1. PICK listed, items : \E query \in Queries :
            calls[t] = QueryAnswered(listed, items, query) /\ ReadSoFar(listed, items)
      BY <2>5 DEF AnswersQuery
    <3>2. calls[t].at = "query_answered" /\ calls[t].items = items
      BY <3>1 DEF QueryAnswered
    <3>. QED
      BY <2>2, <3>1, <3>2
  <2>. QED
    BY <2>1, <2>3, <2>4, <2>5 DEF CallOK
<1>. QED
  BY <1>1 DEF ProjectionsTypeOK, JInv, TablesOK, TablesTypeOK, Missing, At

\* The tables keep their types, and requests hold rows of projections.
THEOREM ProjectionsTypeCorrect == ProjectionsSpec => []ProjectionsTypeOK
<1>1. InitCalls /\ JointsInit => JInv
  BY JInvInit
<1>2. JInv /\ [ProjectionsNext]_jointVars => JInv'
  BY ProjectionsNextKeepsJInv
<1>3. JInv => ProjectionsTypeOK
  BY ProjectionsTyped
<1>. QED
  BY <1>1, <1>2, <1>3, PTL DEF ProjectionsSpec

\* A listing that is read row by row while revisions are created and reviewed
\* shows each of its ids once, is partitioned by its pages, exports in order
\* and shows what was so (governance/joint_revision_query.py).
THEOREM ProjectionsAreSound == ProjectionsSpec => []ProjectionsSound
<1>1. InitCalls /\ JointsInit => JInv
  BY JInvInit
<1>2. JInv /\ [ProjectionsNext]_jointVars => JInv'
  BY ProjectionsNextKeepsJInv
<1>3. JInv => ProjectionsSound
  BY ListingComplete, PagesArePartition, ExportIsOrdered, ShownWas DEF ProjectionsSound
<1>. QED
  BY <1>1, <1>2, <1>3, PTL DEF ProjectionsSpec

\* Joints stay sound, whatever is asked of governance meanwhile.
THEOREM JointsStaySound == ProjectionsSpec => []JointsSound
<1>1. InitCalls /\ JointsInit => JInv
  BY JInvInit
<1>2. JInv /\ [ProjectionsNext]_jointVars => JInv'
  BY ProjectionsNextKeepsJInv
<1>3. JInv => JointsSound
  BY JInvIsSound
<1>. QED
  BY <1>1, <1>2, <1>3, PTL DEF ProjectionsSpec

(* ---- Document ingestion ---- *)

(* ---- The inductive invariant. ---- *)

\* What the audit log will say of a row is what the row says.
Reported(action) == IF action = "succeeded" THEN "extracted" ELSE "failed"

\* The outcome of a document is reported once at most, and as it was.
ReportsTrue ==
  \A i \in DOMAIN auditLog :
    auditLog[i].action \in {"succeeded", "failed"} /\ auditLog[i].doc # 0 =>
      /\ documents[auditLog[i].doc].status = Reported(auditLog[i].action)
      /\ \A j \in 1..(i - 1) :
           auditLog[j].doc = auditLog[i].doc => auditLog[j].action = "retrieved"

\* A row says what its file can come to, and only when it is closed.
RowTrue(d) ==
  CASE d.status = "processing" -> d.text = None /\ d.error = None
    [] d.status = "extracted" -> d.text \in Methods \cap Outcomes(d.file) /\ d.error = None
    [] d.status = "failed" -> d.error \in Errors \cap Outcomes(d.file) /\ d.text = None

RowsTrue == \A i \in DOMAIN documents : RowTrue(documents[i])

\* An upload holds its row from creating it to reporting its outcome.
Holding(c) == c.at \in Closing \/ (c.at = "doc_audit" /\ c.doc # 0)

\* No outcome of the document is reported yet.
Unreported(doc) ==
  \A j \in DOMAIN auditLog : auditLog[j].doc = doc => auditLog[j].action = "retrieved"

\* What a request knows of a row.
DocumentKnown(c) ==
  /\ c.at \in Closing => documents[c.doc].status = "processing"
  /\ c.at = "doc_close" => c.outcome \in Outcomes(documents[c.doc].file)
  /\ c.at = "doc_audit" /\ c.doc = 0 => c.action = "failed"
  /\ c.at = "doc_audit" /\ c.doc # 0 => documents[c.doc].status = Reported(c.action)
  /\ Holding(c) => Unreported(c.doc)
  /\ c.at \in {"doc_retrieved", "doc_answered"} /\ c.row.status # "processing" =>
       documents[c.doc] = c.row

\* Two requests that hold the same row.
Sharing(c, d) == Holding(c) /\ Holding(d) /\ c.doc = d.doc

DocumentTablesInv ==
  /\ documents \in Seq(DocumentRows)
  /\ auditLog \in Seq([action : {"started", "succeeded", "failed", "retrieved"},
                       doc : {0} \cup DOMAIN documents])
  /\ ReportsTrue
  /\ RowsTrue

DocumentCallsInv ==
  /\ calls \in [Threads -> DocumentCalls]
  /\ \A t \in Threads : DocumentKnown(calls[t])
  /\ \A t, u \in Threads : Sharing(calls[t], calls[u]) => t = u

DocumentsInv == DocumentTablesInv /\ DocumentCallsInv

\* What the place of a call says about its fields.
LEMMA DocumentCallFields ==
  ASSUME NEW c \in DocumentCalls
  PROVE  /\ c.at = "doc_create" => c.user \in Users /\ c.file \in DocumentFiles
         /\ c.at \in {"doc_extract", "doc_close"} => c.doc \in DOMAIN documents
         /\ c.at = "doc_close" => c.outcome \in Errors \cup Methods
         /\ c.at = "doc_audit" =>
              c.doc \in {0} \cup DOMAIN documents /\ c.action \in {"succeeded", "failed"}
         /\ c.at \in {"doc_retrieved", "doc_answered"} =>
              c.doc \in DOMAIN documents /\ c.row \in DocumentRows
         /\ Holding(c) => c.doc \in DOMAIN documents
BY DEF DocumentCalls, Holding, Closing, Idle

(* ---- What a step must keep for the requests that do not take it. ---- *)

\* Rows stay, and keep what they say once they are closed.
ClosedStay ==
  /\ DOMAIN documents \subseteq DOMAIN documents'
  /\ \A i \in DOMAIN documents :
       documents[i].status # "processing" => documents'[i] = documents[i]

\* A row that somebody other than t holds is as it was, and unreported.
HeldStay(t) ==
  \A u \in Threads \ {t} : Holding(calls[u]) =>
    /\ documents'[calls[u].doc] = documents[calls[u].doc]
    /\ \A j \in DOMAIN auditLog' :
         auditLog'[j].doc = calls[u].doc => auditLog'[j].action = "retrieved"

LEMMA DocumentCallsGrow ==
  ASSUME DOMAIN documents \subseteq DOMAIN documents', NEW c \in DocumentCalls
  PROVE  c \in DocumentCalls'
BY DEF DocumentCalls

LEMMA OneUploadMoves ==
  ASSUME DocumentCallsInv, ClosedStay,
         NEW t \in Threads, HeldStay(t),
         NEW c, Goto(t, c), c \in DocumentCalls', DocumentKnown(c)',
         \A u \in Threads \ {t} : ~Sharing(c, calls[u])
  PROVE  DocumentCallsInv'
<1>1. calls' = [calls EXCEPT ![t] = c] /\ calls \in [Threads -> DocumentCalls]
  BY DEF Goto, DocumentCallsInv
<1>2. /\ calls' \in [Threads -> DocumentCalls']
      /\ calls'[t] = c
      /\ \A u \in Threads \ {t} : calls'[u] = calls[u]
  BY <1>1, DocumentCallsGrow DEF ClosedStay
<1>3. ASSUME NEW u \in Threads
      PROVE  DocumentKnown(calls[u])'
  <2>1. CASE u = t
    BY <1>2, <2>1 DEF DocumentKnown, Unreported
  <2>2. CASE u # t
    <3>. DEFINE d == calls[u]
    <3>1. d \in DocumentCalls /\ DocumentKnown(d) /\ calls'[u] = d
      BY <1>2, <2>2 DEF DocumentCallsInv
    <3>2. Holding(d) =>
            /\ documents'[d.doc] = documents[d.doc]
            /\ \A j \in DOMAIN auditLog' :
                 auditLog'[j].doc = d.doc => auditLog'[j].action = "retrieved"
      BY <2>2 DEF HeldStay
    <3>3. d.at \in {"doc_retrieved", "doc_answered"} /\ d.row.status # "processing" =>
            documents'[d.doc] = d.row
      BY <3>1, DocumentCallFields DEF DocumentKnown, ClosedStay
    <3>. HIDE DEF d
    <3>4. /\ d.at \in Closing => documents'[d.doc].status = "processing"
          /\ d.at = "doc_close" => d.outcome \in Outcomes(documents'[d.doc].file)
      BY <3>1, <3>2 DEF DocumentKnown, Holding, Closing
    <3>5. /\ d.at = "doc_audit" /\ d.doc = 0 => d.action = "failed"
          /\ d.at = "doc_audit" /\ d.doc # 0 => documents'[d.doc].status = Reported(d.action)
      BY <3>1, <3>2 DEF DocumentKnown, Holding
    <3>. QED
      BY <3>1, <3>2, <3>3, <3>4, <3>5 DEF DocumentKnown, Unreported
  <2>. QED
    BY <2>1, <2>2
<1>4. \A u, w \in Threads : Sharing(calls'[u], calls'[w]) => u = w
  BY <1>2 DEF DocumentCallsInv, Sharing
<1>. QED
  BY <1>2, <1>3, <1>4 DEF DocumentCallsInv, Sharing, Holding

(* ---- The tables. ---- *)

LEMMA DocumentTablesStay ==
  ASSUME DocumentsInv, UNCHANGED documentTables, NEW t \in Threads
  PROVE  DocumentTablesInv' /\ ClosedStay /\ HeldStay(t)
<1>1. documents' = documents /\ auditLog' = auditLog
  BY DEF documentTables
<1>2. DocumentTablesInv'
  BY <1>1 DEF DocumentsInv, DocumentTablesInv, ReportsTrue, RowsTrue
<1>3. HeldStay(t)
  BY <1>1 DEF HeldStay, DocumentsInv, DocumentCallsInv, DocumentKnown, Unreported
<1>. QED
  BY <1>1, <1>2, <1>3 DEF ClosedStay

LEMMA EmptyHanded ==
  ASSUME NEW c, c.at \notin Closing \cup {"doc_audit"}
  PROVE  ~Holding(c) /\ \A d : ~Sharing(c, d)
BY DEF Holding, Sharing

LEMMA IdleUpload == Idle \in DocumentCalls /\ DocumentKnown(Idle) /\ \A d : ~Sharing(Idle, d)
BY EmptyHanded DEF DocumentCalls, DocumentKnown, Holding, Sharing, Closing, Idle

LEMMA IdleUploadAfter == Idle \in DocumentCalls' /\ DocumentKnown(Idle)'
BY DEF DocumentCalls, DocumentKnown, Holding, Closing, Idle

\* A step that only reads leaves a call that knows what it needs.
LEMMA DocumentReadOnly ==
  ASSUME DocumentsInv, UNCHANGED documentTables,
         NEW t \in Threads, NEW c \in DocumentCalls, Goto(t, c), DocumentKnown(c),
         \A u \in Threads \ {t} : ~Sharing(c, calls[u])
  PROVE  DocumentsInv'
<1>1. DocumentTablesInv' /\ ClosedStay /\ HeldStay(t)
  BY DocumentTablesStay
<1>2. documents' = documents /\ auditLog' = auditLog
  BY DEF documentTables
<1>3. c \in DocumentCalls' /\ DocumentKnown(c)'
  BY <1>2 DEF DocumentCalls, DocumentKnown, Unreported
<1>4. DocumentCallsInv
  BY DEF DocumentsInv
<1>. QED
  BY <1>1, <1>3, <1>4, OneUploadMoves DEF DocumentsInv

\* The last write of a request.
LEMMA DocumentLastWrite ==
  ASSUME DocumentsInv, DocumentTablesInv', ClosedStay, NEW t \in Threads, HeldStay(t), Finish(t)
  PROVE  DocumentsInv'
<1>1. Goto(t, Idle) /\ DocumentCallsInv
  BY DEF Finish, DocumentsInv
<1>2. \A u \in Threads \ {t} : ~Sharing(Idle, calls[u])
  BY IdleUpload
<1>. QED
  BY <1>1, <1>2, IdleUploadAfter, OneUploadMoves DEF DocumentsInv

\* An entry about no row, about a retrieval, or a true report of a row that
\* nobody else holds and nobody has reported.
LEMMA LogEntry ==
  ASSUME DocumentsInv, documents' = documents, NEW t \in Threads,
         NEW action \in {"started", "succeeded", "failed", "retrieved"},
         NEW doc \in {0} \cup DOMAIN documents,
         Logged(Entry(action, doc)),
         doc # 0 /\ action # "retrieved" =>
           /\ documents[doc].status = Reported(action) /\ Unreported(doc)
           /\ \A u \in Threads \ {t} : ~(Holding(calls[u]) /\ calls[u].doc = doc)
  PROVE  DocumentTablesInv' /\ ClosedStay /\ HeldStay(t)
<1>. DEFINE T == [action : {"started", "succeeded", "failed", "retrieved"},
                  doc : {0} \cup DOMAIN documents]
            e == Entry(action, doc)
<1>1. auditLog \in Seq(T) /\ e \in T /\ e.action = action /\ e.doc = doc
  BY DEF DocumentsInv, DocumentTablesInv, Entry
<1>2. auditLog' = Append(auditLog, e)
  BY DEF Logged
<1>. HIDE DEF e
<1>3. /\ auditLog' \in Seq(T) /\ Len(auditLog) \in Nat
      /\ DOMAIN auditLog = 1 .. Len(auditLog) /\ DOMAIN auditLog' = 1 .. Len(auditLog) + 1
      /\ auditLog'[Len(auditLog) + 1] = e
      /\ \A i \in DOMAIN auditLog : auditLog'[i] = auditLog[i]
  BY <1>1, <1>2, AppendedEntry
<1>4. ReportsTrue'
  <2>1. ReportsTrue
    BY DEF DocumentsInv, DocumentTablesInv
  <2>2. ASSUME NEW i \in DOMAIN auditLog',
               auditLog'[i].action \in {"succeeded", "failed"}, auditLog'[i].doc # 0
        PROVE  /\ documents[auditLog'[i].doc].status = Reported(auditLog'[i].action)
               /\ \A j \in 1..(i - 1) :
                    auditLog'[j].doc = auditLog'[i].doc => auditLog'[j].action = "retrieved"
    <3>1. CASE i \in DOMAIN auditLog
      <4>1. \A j \in 1..i : j \in DOMAIN auditLog
        BY <1>3, <3>1
      <4>. QED
        BY <1>3, <2>1, <2>2, <3>1, <4>1 DEF ReportsTrue
    <3>2. CASE i = Len(auditLog) + 1
      <4>1. \A j \in 1..(i - 1) : j \in DOMAIN auditLog
        BY <1>3, <3>2
      <4>2. auditLog'[i] = e
        BY <1>3, <3>2
      <4>. QED
        BY <1>1, <1>3, <2>2, <4>1, <4>2 DEF Unreported
    <3>. QED
      BY <1>3, <3>1, <3>2
  <2>. QED
    BY <2>2 DEF ReportsTrue
<1>5. HeldStay(t)
  <2>1. ASSUME NEW u \in Threads \ {t}, Holding(calls[u])
        PROVE  \A j \in DOMAIN auditLog' :
                 auditLog'[j].doc = calls[u].doc => auditLog'[j].action = "retrieved"
    <3>1. Unreported(calls[u].doc) /\ calls[u].doc \in DOMAIN documents
      BY <2>1, DocumentCallFields DEF DocumentsInv, DocumentCallsInv, DocumentKnown
    <3>2. calls[u].doc # 0
      BY <3>1, LenProperties DEF DocumentsInv, DocumentTablesInv
    <3>. QED
      BY <1>1, <1>3, <2>1, <3>1, <3>2 DEF Unreported
  <2>. QED
    BY <2>1 DEF HeldStay
<1>6. DocumentTablesInv'
  BY <1>3, <1>4 DEF DocumentsInv, DocumentTablesInv, RowsTrue
<1>. QED
  BY <1>5, <1>6 DEF ClosedStay

(* ---- The steps. ---- *)

LEMMA StartUploadStep ==
  ASSUME DocumentsInv, NEW t \in Threads, StartUpload(t)
  PROVE  DocumentsInv'
<1>1. PICK c : /\ Goto(t, c)
               /\ \E u \in Users, f \in DocumentFiles :
                    c = [at |-> "doc_create", user |-> u, file |-> f]
  BY DEF StartUpload
<1>2. c \in DocumentCalls /\ c.at = "doc_create"
  BY <1>1 DEF DocumentCalls
<1>3. c \in DocumentCalls' /\ DocumentKnown(c)' /\ \A d : ~Sharing(c, d)
  BY <1>2, EmptyHanded, DocumentCallsGrow
     DEF StartUpload, DocumentKnown, Holding, Sharing, Closing
<1>4. DocumentTablesInv' /\ ClosedStay /\ HeldStay(t)
  BY LogEntry DEF StartUpload
<1>5. DocumentCallsInv
  BY DEF DocumentsInv
<1>. QED
  BY <1>1, <1>3, <1>4, <1>5, OneUploadMoves DEF DocumentsInv

LEMMA CreateRowStep ==
  ASSUME DocumentsInv, NEW t \in Threads, CreateRow(t)
  PROVE  DocumentsInv'
<1>0. PICK n, c, row : /\ n = Len(documents) + 1
                       /\ c = [at |-> "doc_extract", doc |-> n]
                       /\ row = NewDocument(calls[t])
  OBVIOUS
<1>1. /\ documents \in Seq(DocumentRows) /\ DocumentCallsInv
      /\ calls[t] \in DocumentCalls /\ At(t, "doc_create")
      /\ documents' = Append(documents, row) /\ auditLog' = auditLog /\ Goto(t, c)
  BY <1>0 DEF CreateRow, DocumentsInv, DocumentTablesInv, DocumentCallsInv
<1>2. /\ row \in DocumentRows /\ row.status = "processing"
      /\ row.text = None /\ row.error = None
  BY <1>0, <1>1, DocumentCallFields DEF At, NewDocument, DocumentRows, Methods
<1>3. /\ documents' \in Seq(DocumentRows) /\ Len(documents) \in Nat
      /\ DOMAIN documents = 1 .. Len(documents) /\ DOMAIN documents' = 1 .. n
      /\ documents'[n] = row
      /\ \A i \in DOMAIN documents : i \in DOMAIN documents' /\ documents'[i] = documents[i]
  BY <1>0, <1>1, <1>2, AppendedEntry
<1>4. \A j \in DOMAIN auditLog : auditLog[j].doc \in {0} \cup DOMAIN documents
  <2>. DEFINE T == [action : {"started", "succeeded", "failed", "retrieved"},
                    doc : {0} \cup DOMAIN documents]
  <2>1. auditLog \in Seq(T)
    BY DEF DocumentsInv, DocumentTablesInv
  <2>2. \A j \in DOMAIN auditLog : auditLog[j] \in T
    BY <2>1, ElementOfSeq, LenProperties
  <2>. QED
    BY <2>2
<1>5. Unreported(n)
  BY <1>0, <1>3, <1>4 DEF Unreported
<1>6. DocumentTablesInv'
  <2>1. auditLog' \in Seq([action : {"started", "succeeded", "failed", "retrieved"},
                           doc : {0} \cup DOMAIN documents'])
    <3>. DEFINE S == [action : {"started", "succeeded", "failed", "retrieved"},
                      doc : {0} \cup DOMAIN documents]
                T == [action : {"started", "succeeded", "failed", "retrieved"},
                      doc : {0} \cup DOMAIN documents']
    <3>1. auditLog \in Seq(S)
      BY DEF DocumentsInv, DocumentTablesInv
    <3>2. S \subseteq T
      BY <1>3
    <3>. HIDE DEF S, T
    <3>3. auditLog \in Seq(T)
      BY <3>1, <3>2, SeqMonotonic
    <3>. QED
      BY <1>1, <3>3 DEF T
  <2>2. ReportsTrue'
    BY <1>1, <1>3, <1>4 DEF DocumentsInv, DocumentTablesInv, ReportsTrue
  <2>3. RowsTrue'
    <3>1. RowTrue(row)
      BY <1>2 DEF RowTrue
    <3>2. \A i \in DOMAIN documents : RowTrue(documents[i])
      BY DEF DocumentsInv, DocumentTablesInv, RowsTrue
    <3>3. \A i \in DOMAIN documents' : RowTrue(documents'[i])
      BY <1>0, <1>3, <3>1, <3>2
    <3>. QED
      BY <3>3 DEF RowsTrue, RowTrue
  <2>. QED
    BY <1>3, <2>1, <2>2, <2>3 DEF DocumentTablesInv
<1>7. ClosedStay
  BY <1>3 DEF ClosedStay
<1>8. HeldStay(t) /\ \A u \in Threads \ {t} : ~Sharing(c, calls[u])
  <2>1. ASSUME NEW u \in Threads, Holding(calls[u])
        PROVE  calls[u].doc \in DOMAIN documents /\ Unreported(calls[u].doc)
    BY <2>1, DocumentCallFields DEF DocumentsInv, DocumentCallsInv, DocumentKnown
  <2>2. HeldStay(t)
    BY <1>1, <1>3, <2>1 DEF HeldStay, Unreported
  <2>. QED
    BY <1>0, <1>3, <2>1, <2>2 DEF Sharing
<1>9. c \in DocumentCalls' /\ DocumentKnown(c)'
  <2>1. c \in DocumentCalls'
    BY <1>0, <1>3 DEF DocumentCalls
  <2>2. c.at = "doc_extract" /\ c.doc = n /\ documents'[n].status = "processing"
    BY <1>0, <1>2, <1>3
  <2>3. Unreported(n)'
    BY <1>1, <1>5 DEF Unreported
  <2>. QED
    BY <2>1, <2>2, <2>3 DEF DocumentKnown
<1>. QED
  BY <1>1, <1>6, <1>7, <1>8, <1>9, OneUploadMoves DEF DocumentsInv

LEMMA ExtractStep ==
  ASSUME DocumentsInv, NEW t \in Threads, Extract(t)
  PROVE  DocumentsInv'
<1>1. /\ calls[t] \in DocumentCalls /\ DocumentKnown(calls[t]) /\ DocumentCallsInv
      /\ calls[t].at = "doc_extract" /\ UNCHANGED documentTables
  BY DEF Extract, At, DocumentsInv, DocumentCallsInv
<1>2. /\ calls[t].doc \in DOMAIN documents /\ Holding(calls[t])
      /\ documents[calls[t].doc].status = "processing" /\ Unreported(calls[t].doc)
  BY <1>1, DocumentCallFields DEF DocumentKnown, Holding, Closing
<1>3. PICK outcome \in Outcomes(documents[calls[t].doc].file) :
        Goto(t, [at |-> "doc_close", doc |-> calls[t].doc, outcome |-> outcome])
  BY DEF Extract
<1>4. PICK c : Goto(t, c) /\ c = [at |-> "doc_close", doc |-> calls[t].doc, outcome |-> outcome]
  BY <1>3
<1>5. outcome \in Errors \cup Methods
  BY <1>3 DEF Outcomes, Rejection, Errors, Methods, ConverterErrors, OcrErrors, OcrOutcomes
<1>6. c \in DocumentCalls /\ c.at = "doc_close" /\ c.doc = calls[t].doc /\ c.outcome = outcome
  BY <1>2, <1>4, <1>5 DEF DocumentCalls
<1>7. DocumentKnown(c)
  BY <1>2, <1>3, <1>6 DEF DocumentKnown
<1>8. \A u \in Threads \ {t} : ~Sharing(c, calls[u])
  BY <1>1, <1>2, <1>6 DEF DocumentCallsInv, Sharing
<1>. QED
  BY <1>1, <1>4, <1>6, <1>7, <1>8, DocumentReadOnly

\* Closing a row of the type that is in it says what its file has come to.
LEMMA ClosingTells ==
  ASSUME NEW d \in DocumentRows, d.status = "processing", RowTrue(d),
         NEW outcome \in Outcomes(d.file) \cap (Errors \cup Methods)
  PROVE  /\ Closed(d, outcome) \in DocumentRows /\ RowTrue(Closed(d, outcome))
         /\ Closed(d, outcome).status =
              Reported(IF outcome \in Methods THEN "succeeded" ELSE "failed")
<1>1. d.text = None /\ d.error = None
  BY DEF RowTrue
<1>2. CASE outcome \in Methods
  <2>1. Closed(d, outcome) = [d EXCEPT !.status = "extracted", !.text = outcome]
    BY <1>2 DEF Closed
  <2>. QED
    BY <1>1, <1>2, <2>1 DEF DocumentRows, RowTrue, Reported
<1>3. CASE outcome \notin Methods
  <2>1. Closed(d, outcome) = [d EXCEPT !.status = "failed", !.error = outcome]
    BY <1>3 DEF Closed
  <2>. QED
    BY <1>1, <1>3, <2>1 DEF DocumentRows, RowTrue, Reported
<1>. QED
  BY <1>2, <1>3

LEMMA CloseRowStep ==
  ASSUME DocumentsInv, NEW t \in Threads, CloseRow(t)
  PROVE  DocumentsInv'
<1>0. PICK i, outcome, row, action, c :
        /\ i = calls[t].doc /\ outcome = calls[t].outcome
        /\ row = Closed(documents[i], outcome)
        /\ action = IF outcome \in Methods THEN "succeeded" ELSE "failed"
        /\ c = [at |-> "doc_audit", doc |-> i, action |-> action]
  OBVIOUS
<1>1. /\ documents \in Seq(DocumentRows) /\ DocumentCallsInv
      /\ calls[t] \in DocumentCalls /\ DocumentKnown(calls[t]) /\ calls[t].at = "doc_close"
      /\ documents[i].status = "processing"
      /\ documents' = [documents EXCEPT ![i] = row] /\ auditLog' = auditLog /\ Goto(t, c)
  BY <1>0 DEF CloseRow, At, DocumentsInv, DocumentTablesInv, DocumentCallsInv
<1>2. /\ i \in DOMAIN documents /\ outcome \in Errors \cup Methods
      /\ outcome \in Outcomes(documents[i].file) /\ Unreported(i) /\ Holding(calls[t])
  BY <1>0, <1>1, DocumentCallFields DEF DocumentKnown, Holding, Closing
<1>3. documents[i] \in DocumentRows /\ RowTrue(documents[i])
  BY <1>1, <1>2, ElementOfSeq, LenProperties DEF DocumentsInv, DocumentTablesInv, RowsTrue
<1>4. row \in DocumentRows /\ RowTrue(row) /\ row.status = Reported(action)
  BY <1>0, <1>1, <1>2, <1>3, ClosingTells
<1>5. /\ documents' \in Seq(DocumentRows) /\ DOMAIN documents' = DOMAIN documents
      /\ documents'[i] = row
      /\ \A j \in DOMAIN documents : j # i => documents'[j] = documents[j]
  <2>1. DOMAIN documents = 1 .. Len(documents)
    BY <1>1, LenProperties
  <2>2. documents' \in Seq(DocumentRows)
    BY <1>1, <1>2, <1>4, <2>1, ExceptSeq
  <2>. QED
    BY <1>1, <1>2, <2>2
<1>6. i # 0 /\ \A u \in Threads \ {t} : ~(Holding(calls[u]) /\ calls[u].doc = i)
  <2>1. i # 0
    BY <1>1, <1>2, LenProperties
  <2>. QED
    BY <1>0, <1>1, <1>2, <2>1 DEF DocumentCallsInv, Sharing
<1>7. DocumentTablesInv'
  <2>1. ReportsTrue'
    <3>1. ReportsTrue
      BY DEF DocumentsInv, DocumentTablesInv
    <3>2. \A k \in DOMAIN auditLog :
            auditLog[k].action \in {"succeeded", "failed"} => auditLog[k].doc # i
      BY <1>2 DEF Unreported
    <3>3. \A k \in DOMAIN auditLog : auditLog[k].doc \in {0} \cup DOMAIN documents
      <4>. DEFINE T == [action : {"started", "succeeded", "failed", "retrieved"},
                        doc : {0} \cup DOMAIN documents]
      <4>1. auditLog \in Seq(T)
        BY DEF DocumentsInv, DocumentTablesInv
      <4>2. \A k \in DOMAIN auditLog : auditLog[k] \in T
        BY <4>1, ElementOfSeq, LenProperties
      <4>. QED
        BY <4>2
    <3>4. \A k \in DOMAIN auditLog :
            auditLog[k].action \in {"succeeded", "failed"} /\ auditLog[k].doc # 0 =>
              documents'[auditLog[k].doc] = documents[auditLog[k].doc]
      BY <1>5, <3>2, <3>3
    <3>. QED
      BY <1>1, <3>1, <3>4 DEF ReportsTrue
  <2>2. RowsTrue'
    <3>1. \A j \in DOMAIN documents' : RowTrue(documents'[j])
      BY <1>4, <1>5 DEF DocumentsInv, DocumentTablesInv, RowsTrue
    <3>. QED
      BY <3>1 DEF RowsTrue, RowTrue
  <2>3. auditLog' \in Seq([action : {"started", "succeeded", "failed", "retrieved"},
                           doc : {0} \cup DOMAIN documents'])
    BY <1>1, <1>5 DEF DocumentsInv, DocumentTablesInv
  <2>. QED
    BY <1>5, <2>1, <2>2, <2>3 DEF DocumentTablesInv
<1>8. ClosedStay
  BY <1>1, <1>5 DEF ClosedStay
<1>9. HeldStay(t) /\ \A u \in Threads \ {t} : ~Sharing(c, calls[u])
  <2>1. ASSUME NEW u \in Threads, Holding(calls[u])
        PROVE  calls[u].doc \in DOMAIN documents /\ Unreported(calls[u].doc)
    BY <2>1, DocumentCallFields DEF DocumentsInv, DocumentCallsInv, DocumentKnown
  <2>2. HeldStay(t)
    BY <1>1, <1>5, <1>6, <2>1 DEF HeldStay, Unreported
  <2>. QED
    BY <1>0, <1>6, <2>2 DEF Sharing
<1>10. c \in DocumentCalls' /\ DocumentKnown(c)'
  <2>1. c \in DocumentCalls'
    BY <1>0, <1>2, <1>5 DEF DocumentCalls
  <2>2. c.at = "doc_audit" /\ c.doc = i /\ c.action = action
    BY <1>0
  <2>3. Unreported(i)' /\ documents'[i].status = Reported(action)
    BY <1>1, <1>2, <1>4, <1>5 DEF Unreported
  <2>. QED
    BY <1>6, <2>1, <2>2, <2>3 DEF DocumentKnown, Closing
<1>. QED
  BY <1>1, <1>7, <1>8, <1>9, <1>10, OneUploadMoves DEF DocumentsInv

LEMMA FailToStoreStep ==
  ASSUME DocumentsInv, NEW t \in Threads, FailToStore(t)
  PROVE  DocumentsInv'
<1>1. PICK c : Goto(t, c) /\ c = [at |-> "doc_audit", doc |-> 0, action |-> "failed"]
  BY DEF FailToStore
<1>2. c \in DocumentCalls /\ c.at = "doc_audit" /\ c.doc = 0 /\ c.action = "failed"
  BY <1>1 DEF DocumentCalls
<1>3. DocumentKnown(c) /\ \A d : ~Sharing(c, d)
  BY <1>2 DEF DocumentKnown, Holding, Sharing, Closing
<1>. QED
  BY <1>1, <1>2, <1>3, DocumentReadOnly DEF FailToStore

LEMMA AuditOutcomeStep ==
  ASSUME DocumentsInv, NEW t \in Threads, AuditOutcome(t)
  PROVE  DocumentsInv'
<1>0. PICK doc, action : doc = calls[t].doc /\ action = calls[t].action
  OBVIOUS
<1>1. /\ documents \in Seq(DocumentRows) /\ DocumentCallsInv
      /\ calls[t] \in DocumentCalls /\ DocumentKnown(calls[t]) /\ calls[t].at = "doc_audit"
      /\ Logged(Entry(action, doc)) /\ documents' = documents
  BY <1>0 DEF AuditOutcome, At, DocumentsInv, DocumentTablesInv, DocumentCallsInv
<1>2. /\ doc \in {0} \cup DOMAIN documents /\ action \in {"succeeded", "failed"}
      /\ action = "succeeded" => doc # 0
      /\ doc # 0 => Holding(calls[t]) /\ Unreported(doc) /\ documents[doc].status = Reported(action)
  BY <1>0, <1>1, DocumentCallFields DEF DocumentKnown, Holding
<1>3. doc # 0 => \A u \in Threads \ {t} : ~(Holding(calls[u]) /\ calls[u].doc = doc)
  BY <1>0, <1>1, <1>2 DEF DocumentCallsInv, Sharing
<1>4. DocumentTablesInv' /\ ClosedStay /\ HeldStay(t)
  BY <1>1, <1>2, <1>3, LogEntry
<1>5. CASE action = "succeeded"
  <2>1. PICK c : /\ Goto(t, c)
                 /\ c = [at |-> "doc_answered", doc |-> doc, row |-> documents[doc]]
    BY <1>0, <1>5 DEF AuditOutcome
  <2>2. doc \in DOMAIN documents /\ documents[doc] \in DocumentRows
    BY <1>1, <1>2, <1>5, ElementOfSeq, LenProperties
  <2>3. c \in DocumentCalls /\ c.at = "doc_answered" /\ c.doc = doc /\ c.row = documents[doc]
    BY <2>1, <2>2 DEF DocumentCalls
  <2>4. c \in DocumentCalls' /\ DocumentKnown(c)' /\ \A d : ~Sharing(c, d)
    BY <1>1, <2>3, EmptyHanded, DocumentCallsGrow DEF DocumentKnown, Holding, Sharing, Closing
  <2>. QED
    BY <1>1, <1>4, <2>1, <2>4, OneUploadMoves DEF DocumentsInv
<1>6. CASE action # "succeeded"
  <2>1. Finish(t)
    BY <1>0, <1>6 DEF AuditOutcome
  <2>. QED
    BY <1>4, <2>1, DocumentLastWrite
<1>. QED
  BY <1>5, <1>6

LEMMA RetrievalSteps ==
  ASSUME DocumentsInv, NEW t \in Threads, GetOwned(t) \/ AuditRetrieval(t)
  PROVE  DocumentsInv'
<1>1. CASE GetOwned(t)
  <2>1. PICK i \in DOMAIN documents :
          Goto(t, [at |-> "doc_retrieved", doc |-> i, row |-> documents[i]])
    BY <1>1 DEF GetOwned
  <2>2. PICK c : Goto(t, c) /\ c = [at |-> "doc_retrieved", doc |-> i, row |-> documents[i]]
    BY <2>1
  <2>3. documents[i] \in DocumentRows
    BY ElementOfSeq, LenProperties DEF DocumentsInv, DocumentTablesInv
  <2>4. c \in DocumentCalls /\ c.at = "doc_retrieved" /\ c.doc = i /\ c.row = documents[i]
    BY <2>2, <2>3 DEF DocumentCalls
  <2>5. DocumentKnown(c) /\ \A d : ~Sharing(c, d)
    BY <2>4, EmptyHanded DEF DocumentKnown, Closing
  <2>. QED
    BY <1>1, <2>2, <2>4, <2>5, DocumentReadOnly DEF GetOwned
<1>2. CASE AuditRetrieval(t)
  <2>1. /\ calls[t] \in DocumentCalls /\ DocumentKnown(calls[t]) /\ DocumentCallsInv
        /\ calls[t].at = "doc_retrieved" /\ documents' = documents
        /\ Logged(Entry("retrieved", calls[t].doc))
    BY <1>2 DEF AuditRetrieval, At, DocumentsInv, DocumentCallsInv
  <2>2. /\ calls[t].doc \in DOMAIN documents /\ calls[t].row \in DocumentRows
        /\ calls[t].row.status # "processing" => documents[calls[t].doc] = calls[t].row
    BY <2>1, DocumentCallFields DEF DocumentKnown
  <2>3. DocumentTablesInv' /\ ClosedStay /\ HeldStay(t)
    BY <2>1, <2>2, LogEntry
  <2>4. PICK c : Goto(t, c) /\ c = [calls[t] EXCEPT !.at = "doc_answered"]
    BY <1>2 DEF AuditRetrieval, Continue
  <2>5. /\ c \in DocumentCalls /\ c.at = "doc_answered"
        /\ c.doc = calls[t].doc /\ c.row = calls[t].row
    BY <2>1, <2>4 DEF DocumentCalls, Idle
  <2>6. c \in DocumentCalls' /\ DocumentKnown(c)' /\ \A d : ~Sharing(c, d)
    BY <2>1, <2>2, <2>5, EmptyHanded, DocumentCallsGrow
       DEF DocumentKnown, Holding, Sharing, Closing
  <2>. QED
    BY <2>1, <2>3, <2>4, <2>6, OneUploadMoves DEF DocumentsInv
<1>. QED
  BY <1>1, <1>2

LEMMA DocumentsNextKeeps ==
  ASSUME DocumentsInv, [DocumentsNext]_documentVars
  PROVE  DocumentsInv'
<1>1. CASE UNCHANGED documentVars
  BY <1>1 DEF documentVars, documentTables, DocumentsInv, DocumentTablesInv, DocumentCallsInv,
              ReportsTrue, RowsTrue, DocumentCalls, DocumentKnown, Unreported
<1>2. ASSUME NEW t \in Threads, DocumentStep(t)
      PROVE  DocumentsInv'
  BY <1>2, StartUploadStep, CreateRowStep, ExtractStep, CloseRowStep, FailToStoreStep,
     AuditOutcomeStep, RetrievalSteps DEF DocumentStep
<1>3. ASSUME NEW t \in Threads, Leave(t), UNCHANGED documentTables
      PROVE  DocumentsInv'
  BY <1>3, DocumentTablesStay, DocumentLastWrite DEF Leave
<1>. QED
  BY <1>1, <1>2, <1>3 DEF DocumentsNext

LEMMA DocumentsInitially ==
  ASSUME InitCalls, DocumentsInit
  PROVE  DocumentsInv
<1>1. documents = <<>> /\ auditLog = <<>> /\ DOMAIN documents = {} /\ DOMAIN auditLog = {}
  BY DEF DocumentsInit
<1>2. DocumentTablesInv
  BY <1>1 DEF DocumentTablesInv, ReportsTrue, RowsTrue
<1>3. \A t \in Threads : calls[t] = Idle
  BY DEF InitCalls
<1>4. calls \in [Threads -> DocumentCalls]
  BY IdleUpload DEF InitCalls
<1>. QED
  BY <1>2, <1>3, <1>4, IdleUpload DEF DocumentsInv, DocumentCallsInv

\* Every row, log entry and request of the document component has its type, for
\* any files, users and threads.
THEOREM DocumentsTypeCorrect == DocumentsSpec => []DocumentsTypeOK
<1>1. InitCalls /\ DocumentsInit => DocumentsInv
  BY DocumentsInitially
<1>2. DocumentsInv /\ [DocumentsNext]_documentVars => DocumentsInv'
  BY DocumentsNextKeeps
<1>3. DocumentsInv => DocumentsTypeOK
  BY DEF DocumentsInv, DocumentTablesInv, DocumentCallsInv, DocumentsTypeOK
<1>. QED
  BY <1>1, <1>2, <1>3, PTL DEF DocumentsSpec

\* The log reports of a document once at most, and what its row says; a closed
\* row says what its file can come to; one upload at most is at work on a row,
\* while it is processing; and whoever was answered with a closed row was
\* answered with what it says ever after (ingest_document, mark_extracted).
THEOREM DocumentsAlwaysSound == DocumentsSpec => []DocumentsSound
<1>1. InitCalls /\ DocumentsInit => DocumentsInv
  BY DocumentsInitially
<1>2. DocumentsInv /\ [DocumentsNext]_documentVars => DocumentsInv'
  BY DocumentsNextKeeps
<1>3. DocumentsInv => DocumentsSound
  <2>. SUFFICES ASSUME DocumentsInv
                PROVE  DocumentsSound
    OBVIOUS
  <2>1. \A i \in DOMAIN auditLog :
          LET e == auditLog[i] IN e.action \in {"succeeded", "failed"} /\ e.doc # 0 =>
            /\ documents[e.doc].status =
                 IF e.action = "succeeded" THEN "extracted" ELSE "failed"
            /\ \A j \in 1..(i - 1) :
                 auditLog[j].doc = e.doc => auditLog[j].action = "retrieved"
    BY DEF DocumentsInv, DocumentTablesInv, ReportsTrue, Reported
  <2>2. \A t \in Threads : calls[t].at \in Closing =>
          /\ documents[calls[t].doc].status = "processing"
          /\ \A u \in Threads \ {t} :
               calls[u].at \in Closing => calls[u].doc # calls[t].doc
    BY DEF DocumentsInv, DocumentCallsInv, DocumentKnown, Sharing, Holding
  <2>3. \A i \in DOMAIN documents : RowTrue(documents[i])
    BY DEF DocumentsInv, DocumentTablesInv, RowsTrue
  <2>4. \A t \in Threads :
          At(t, "doc_answered") /\ calls[t].row.status # "processing" =>
            documents[calls[t].doc] = calls[t].row
    BY DEF DocumentsInv, DocumentCallsInv, DocumentKnown, At
  <2>. QED
    BY <2>1, <2>2, <2>3, <2>4, Zenon DEF DocumentsSound, RowTrue
<1>. QED
  BY <1>1, <1>2, <1>3, PTL DEF DocumentsSpec

(* ---- Validation studies ---- *)

(* ---- Sequence numbers. ---- *)

\* Finitely many numbers have a bound.
LEMMA NumbersBounded ==
  ASSUME NEW n \in Nat, NEW f, \A i \in 1 .. n : f[i] \in Nat
  PROVE  \E b \in Nat : \A i \in 1 .. n : f[i] <= b
<1>. DEFINE Bounds(k, b) == \A i \in 1 .. k : f[i] <= b
            S == {k \in 0 .. n : ~ \E b \in Nat : Bounds(k, b)}
<1>1. CASE S = {}
  <2>1. n \in 0 .. n
    OBVIOUS
  <2>. QED
    BY <1>1, <2>1
<1>2. CASE S # {}
  <2>1. Min(S) \in S /\ \A k \in S : Min(S) <= k
    <3>1. S \in SUBSET Nat /\ S # {}
      BY <1>2
    <3>. HIDE DEF S
    <3>. QED
      BY <3>1, MinMember
  <2>2. PICK k : k = Min(S)
    OBVIOUS
  <2>3. k \in 0 .. n /\ ~ (\E b \in Nat : Bounds(k, b))
    BY <2>1, <2>2
  <2>5. k # 0
    <3>. SUFFICES ASSUME k = 0
                  PROVE  FALSE
      OBVIOUS
    <3>1. Bounds(k, 0)
      OBVIOUS
    <3>. HIDE DEF Bounds
    <3>. QED
      BY <2>3, <3>1
  <2>6. k - 1 \in 0 .. n /\ k - 1 \notin S
    <3>1. k - 1 \in 0 .. n /\ ~(k <= k - 1)
      BY <2>3, <2>5
    <3>. HIDE DEF S
    <3>. QED
      BY <2>1, <2>2, <3>1
  <2>7. PICK b \in Nat : Bounds(k - 1, b)
    <3>. HIDE DEF Bounds
    <3>. QED
      BY <2>6
  <2>8. PICK m \in Nat : b <= m /\ f[k] <= m
    <3>1. f[k] \in Nat
      BY <2>3, <2>5
    <3>2. CASE b <= f[k]
      BY <3>1, <3>2
    <3>3. CASE f[k] <= b
      BY <3>3
    <3>. QED
      BY <3>1, <3>2, <3>3
  <2>9. Bounds(k, m)
    <3>1. ASSUME NEW i \in 1 .. k
          PROVE  f[i] <= m
      <4>1. CASE i = k
        BY <2>8, <4>1
      <4>2. CASE i # k
        <5>1. i \in 1 .. (k - 1) /\ i \in 1 .. n
          BY <2>3, <4>2
        <5>2. f[i] <= b /\ f[i] \in Nat
          BY <2>7, <5>1
        <5>. QED
          BY <2>8, <5>2
      <4>. QED
        BY <4>1, <4>2
    <3>. QED
      BY <3>1
  <2>. QED
    BY <2>3, <2>9
<1>. QED
  BY <1>1, <1>2

\* The number after a bounded set of numbers is a number.
LEMMA NextNumberIsNumber ==
  ASSUME NEW used \in SUBSET Nat, NEW b \in Nat, \A m \in used : m <= b
  PROVE  NextNumber(used) \in Nat
<1>1. PICK S : S = {0} \cup used
  OBVIOUS
<1>2. S \in SUBSET (0 .. b) /\ S # {}
  BY <1>1
<1>3. Max(S) \in S
  BY <1>2, MaxMember
<1>4. \A m \in S : m \in Nat /\ 1 + m \in Nat
  BY <1>2
<1>5. NextNumber(used) = 1 + Max(S)
  BY <1>1, Zenon DEF NextNumber
<1>. QED
  BY <1>3, <1>4, <1>5, Zenon

MeasurementRows == [dataset : Datasets, no : Nat, valid : BOOLEAN, corrects : Nat]

\* The numbers of a dataset are bounded.
LEMMA DatasetNumbers ==
  ASSUME measurements \in Seq(MeasurementRows), NEW d
  PROVE  /\ Numbers(d) \in SUBSET Nat
         /\ \E b \in Nat : \A m \in Numbers(d) : m <= b
<1>1. /\ Len(measurements) \in Nat /\ DOMAIN measurements = 1 .. Len(measurements)
      /\ \A i \in 1 .. Len(measurements) : measurements[i] \in MeasurementRows
  BY LenProperties, ElementOfSeq
<1>2. \A i \in 1 .. Len(measurements) : measurements[i].no \in Nat
  BY <1>1 DEF MeasurementRows
<1>. DEFINE f == [i \in 1 .. Len(measurements) |-> measurements[i].no]
<1>3. \A i \in 1 .. Len(measurements) : f[i] = measurements[i].no
  OBVIOUS
<1>4. PICK b \in Nat : \A i \in 1 .. Len(measurements) : f[i] <= b
  <2>1. \A i \in 1 .. Len(measurements) : f[i] \in Nat
    BY <1>2, <1>3
  <2>. HIDE DEF f
  <2>. QED
    BY <1>1, <2>1, NumbersBounded
<1>5. \A m \in Numbers(d) : m \in Nat /\ m <= b
  BY <1>1, <1>2, <1>3, <1>4 DEF Numbers, RecordsOf
<1>. QED
  BY <1>5

\* The number of row i of a file, when no numbers the rows before it.
RowNumber(file, first, used, no, i) ==
  IF i = 1 THEN first
  ELSE IF file[i] # 0 THEN file[i]
  ELSE NextNumber(used \cup {no[j] : j \in 1..(i - 1)})

LEMMA RowNumberAgrees ==
  ASSUME NEW file, NEW first, NEW used, NEW i, NEW f, NEW g,
         \A j \in 1..(i - 1) : f[j] = g[j]
  PROVE  RowNumber(file, first, used, f, i) = RowNumber(file, first, used, g, i)
<1>1. {f[j] : j \in 1..(i - 1)} = {g[j] : j \in 1..(i - 1)}
  OBVIOUS
<1>. QED
  BY <1>1, Zenon DEF RowNumber

\* The rows can be numbered one after the other.
LEMMA RowsCanBeNumbered ==
  ASSUME NEW file, NEW first, NEW used, NEW n \in Nat
  PROVE  \E f : \A i \in 1 .. n : f[i] = RowNumber(file, first, used, f, i)
<1>. DEFINE Numbered(k, f) == \A i \in 1 .. k : f[i] = RowNumber(file, first, used, f, i)
            S == {k \in 0 .. n : ~ \E f : Numbered(k, f)}
<1>1. CASE S = {}
  <2>1. n \in 0 .. n
    OBVIOUS
  <2>. QED
    BY <1>1, <2>1
<1>2. CASE S # {}
  <2>1. PICK k : k \in S /\ \A m \in S : k <= m
    <3>1. S \in SUBSET Nat /\ S # {}
      BY <1>2
    <3>. HIDE DEF S
    <3>. QED
      BY <3>1, MinMember
  <2>2. k \in 0 .. n /\ ~ (\E f : Numbered(k, f))
    BY <2>1
  <2>3. k # 0
    <3>. SUFFICES ASSUME k = 0
                  PROVE  FALSE
      OBVIOUS
    <3>1. Numbered(k, <<>>)
      OBVIOUS
    <3>. HIDE DEF Numbered
    <3>. QED
      BY <2>2, <3>1
  <2>4. k - 1 \in 0 .. n /\ k - 1 \notin S
    <3>1. k - 1 \in 0 .. n /\ ~(k <= k - 1)
      BY <2>2, <2>3
    <3>. HIDE DEF S
    <3>. QED
      BY <2>1, <3>1
  <2>5. PICK f : Numbered(k - 1, f)
    <3>. HIDE DEF Numbered
    <3>. QED
      BY <2>4
  <2>6. PICK g : g = [i \in 1 .. k |-> IF i = k THEN RowNumber(file, first, used, f, k) ELSE f[i]]
    OBVIOUS
  <2>7. g[k] = RowNumber(file, first, used, f, k) /\ \A i \in 1 .. (k - 1) : g[i] = f[i]
    <3>1. k \in 1 .. k /\ \A i \in 1 .. (k - 1) : i \in 1 .. k /\ i # k
      BY <2>2, <2>3
    <3>. QED
      BY <2>6, <3>1
  <2>8. ASSUME NEW i \in 1 .. k
        PROVE  g[i] = RowNumber(file, first, used, g, i)
    <3>1. \A j \in 1..(i - 1) : f[j] = g[j]
      <4>1. \A j \in 1..(i - 1) : j \in 1 .. (k - 1)
        BY <2>2, <2>8
      <4>. QED
        BY <2>7, <4>1
    <3>2. RowNumber(file, first, used, f, i) = RowNumber(file, first, used, g, i)
      BY <3>1, RowNumberAgrees
    <3>3. CASE i = k
      BY <2>7, <3>2, <3>3
    <3>4. CASE i # k
      <4>1. i \in 1 .. (k - 1)
        BY <2>2, <2>8, <3>4
      <4>. QED
        BY <2>5, <2>7, <3>2, <4>1
    <3>. QED
      BY <3>3, <3>4
  <2>9. Numbered(k, g)
    BY <2>8
  <2>. QED
    BY <2>2, <2>9
<1>. QED
  BY <1>1, <1>2

\* What the numbers of a file's rows are.
LEMMA RowNumbersAre ==
  ASSUME NEW file \in Seq(Nat), NEW first, NEW used, NEW no, no = RowNumbers(file, first, used)
  PROVE  no = [i \in DOMAIN file |-> RowNumber(file, first, used, no, i)]
<1>1. Len(file) \in Nat /\ DOMAIN file = 1 .. Len(file)
  BY LenProperties
<1>2. PICK f : \A i \in 1 .. Len(file) : f[i] = RowNumber(file, first, used, f, i)
  BY <1>1, RowsCanBeNumbered
<1>3. PICK g : g = [i \in DOMAIN file |-> f[i]]
  OBVIOUS
<1>4. ASSUME NEW i \in DOMAIN file
      PROVE  g[i] = RowNumber(file, first, used, g, i)
  <2>1. \A j \in 1..(i - 1) : f[j] = g[j]
    <3>1. \A j \in 1..(i - 1) : j \in DOMAIN file
      BY <1>1
    <3>. QED
      BY <1>3, <3>1
  <2>2. RowNumber(file, first, used, f, i) = RowNumber(file, first, used, g, i)
    BY <2>1, RowNumberAgrees
  <2>. QED
    BY <1>1, <1>2, <1>3, <1>4, <2>2
<1>5. g = [i \in DOMAIN file |-> RowNumber(file, first, used, g, i)]
  <2>. DEFINE h == [i \in DOMAIN file |-> RowNumber(file, first, used, g, i)]
  <2>1. h = [i \in DOMAIN file |-> f[i]]
    BY <1>3, <1>4
  <2>. QED
    BY <1>3, <2>1
<1>6. no = CHOOSE h : h = [i \in DOMAIN file |-> RowNumber(file, first, used, h, i)]
  BY DEF RowNumbers, RowNumber
<1>. QED
  BY <1>5, <1>6

\* The numbers of a file's rows are numbers.
LEMMA RowNumbersTyped ==
  ASSUME NEW file \in Seq(Nat), NEW first \in Nat,
         NEW used \in SUBSET Nat, NEW b \in Nat, \A m \in used : m <= b,
         NEW no, no = RowNumbers(file, first, used)
  PROVE  DOMAIN no = DOMAIN file /\ \A i \in DOMAIN file : no[i] \in Nat
<1>1. no = [i \in DOMAIN file |-> RowNumber(file, first, used, no, i)]
  BY RowNumbersAre
<1>2. /\ Len(file) \in Nat /\ DOMAIN file = 1 .. Len(file)
      /\ \A i \in DOMAIN file : file[i] \in Nat
  BY LenProperties, ElementOfSeq
<1>3. DOMAIN no = DOMAIN file /\ \A i \in DOMAIN file : no[i] = RowNumber(file, first, used, no, i)
  BY <1>1
<1>. DEFINE S == {i \in DOMAIN file : no[i] \notin Nat}
<1>4. CASE S = {}
  BY <1>3, <1>4
<1>5. CASE S # {}
  <2>1. PICK k : k \in S /\ \A i \in S : k <= i
    <3>1. S \in SUBSET Nat /\ S # {}
      BY <1>2, <1>5
    <3>. HIDE DEF S
    <3>. QED
      BY <3>1, MinMember
  <2>2. k \in 1 .. Len(file) /\ no[k] \notin Nat
    BY <1>2, <2>1
  <2>3. \A j \in 1 .. (k - 1) : no[j] \in Nat
    <3>1. \A j \in 1 .. (k - 1) : j \in DOMAIN file /\ ~(k <= j)
      BY <1>2, <2>2
    <3>2. \A j \in 1 .. (k - 1) : j \notin S
      <4>. HIDE DEF S
      <4>. QED
        BY <2>1, <3>1
    <3>. QED
      BY <3>1, <3>2
  <2>4. k - 1 \in Nat
    BY <1>2, <2>2
  <2>5. PICK d \in Nat : \A j \in 1 .. (k - 1) : no[j] <= d
    BY <2>3, <2>4, NumbersBounded
  <2>6. PICK e \in Nat : b <= e /\ d <= e
    <3>1. b <= d \/ d <= b
      OBVIOUS
    <3>. QED
      BY <3>1
  <2>7. PICK before : before = used \cup {no[j] : j \in 1..(k - 1)}
    OBVIOUS
  <2>8. before \in SUBSET Nat
    BY <2>3, <2>7
  <2>9. \A m \in before : m <= e
    BY <2>3, <2>5, <2>6, <2>7
  <2>10. NextNumber(before) \in Nat
    BY <2>8, <2>9, NextNumberIsNumber
  <2>11. RowNumber(file, first, used, no, k) \in {first, file[k], NextNumber(before)}
    BY <2>7, Zenon DEF RowNumber
  <2>. QED
    BY <1>2, <1>3, <2>2, <2>10, <2>11
<1>. QED
  BY <1>4, <1>5

(* ---- The inductive invariant. ---- *)

\* Statuses that rest on measurements.
ReviewStatuses == {"completed", "under_review", "approved", "rejected"}

\* A study that was never written was never approved.
AbsentUnapproved ==
  \A s \in Studies : studies[s].status = "absent" => studies[s].approver = None

StudySteps == {"study_list", "study_count", "study_write"}

\* What a request knows between its reads and its write.
StudyKnown(c) ==
  /\ c.at \in StudySteps =>
       /\ studies[c.study].status # "absent" /\ c.new # "absent"
       /\ c.new = "approved" => c.user # None /\ c.user # studies[c.study].creator
  /\ c.at \in {"study_list", "study_count"} =>
       /\ c.new = "completed"
       /\ c.valid => Measured(c.study)
       /\ \A d \in c.left : d[1] = c.study
  /\ c.at = "study_write" /\ c.new \in ReviewStatuses => Measured(c.study)
  /\ c.at = "record_insert" /\ c.corrects # 0 =>
       measurements[c.corrects].dataset = c.dataset

StudyTablesInv ==
  /\ studies \in [Studies -> StudyRows]
  /\ datasets \in [Datasets -> DatasetRows]
  /\ measurements \in Seq(MeasurementRows)
  /\ Len(measurements) <= MaxRecords
  /\ StudiesSound
  /\ AbsentUnapproved

StudyCallsInv ==
  /\ calls \in [Threads -> StudyCalls]
  /\ \A t \in Threads : StudyKnown(calls[t])

StudiesInv == StudyTablesInv /\ StudyCallsInv

\* What the place of a call says about its fields.
LEMMA StudyCallFields ==
  ASSUME NEW c \in StudyCalls
  PROVE  /\ c.at = "study_create" => c.study \in Studies /\ c.user \in Users
         /\ c.at \in StudySteps =>
              /\ c.study \in Studies /\ c.new \in StudyStatuses /\ c.user \in Users \cup {None}
              /\ c.left \in SUBSET Datasets /\ c.valid \in BOOLEAN
         /\ c.at = "study_patch" => c.study \in Studies /\ c.notes \in Notes
         /\ c.at \in {"set_check", "set_create"} => c.dataset \in Datasets /\ c.draft \in BOOLEAN
         /\ c.at = "set_lock" => c.dataset \in Datasets
         /\ c.at = "set_patch" => c.dataset \in Datasets /\ c.notes \in Notes
         /\ c.at \in {"record_study", "record_number", "record_insert"} =>
              c.dataset \in Datasets /\ c.no \in Nat /\ c.corrects \in {0} \cup MeasurementIds
         /\ c.at \in {"import_study", "import_number", "import_insert"} =>
              c.dataset \in Datasets /\ c.file \in CsvFiles /\ c.no \in Nat
         /\ c.at \in {"invalid_study", "invalid_write"} =>
              c.dataset \in Datasets /\ c.row \in MeasurementIds
BY DEF StudyCalls, StudySteps, Idle

LEMMA DatasetFields ==
  ASSUME NEW d \in Datasets
  PROVE  d[1] \in Studies
BY DEF Datasets

(* ---- What a step must keep for the requests that do not take it. ---- *)

\* Studies stay, with their authors, and measurements, with their datasets.
StudyRowsStay ==
  /\ \A s \in Studies : studies[s].status # "absent" =>
       studies'[s].status # "absent" /\ studies'[s].creator = studies[s].creator
  /\ DOMAIN measurements \subseteq DOMAIN measurements'
  /\ \A i \in DOMAIN measurements : measurements'[i].dataset = measurements[i].dataset

LEMMA MeasuredStays ==
  ASSUME StudyRowsStay, NEW s, Measured(s)
  PROVE  Measured(s)'
BY DEF StudyRowsStay, Measured, MeasurementIds

LEMMA StudyCallsGrow ==
  ASSUME DOMAIN measurements \subseteq DOMAIN measurements', NEW c \in StudyCalls
  PROVE  c \in StudyCalls'
BY DEF StudyCalls, MeasurementIds

LEMMA StudyKnownStays ==
  ASSUME StudyRowsStay, NEW c \in StudyCalls, StudyKnown(c)
  PROVE  StudyKnown(c)'
<1>1. c.at \in StudySteps =>
        /\ studies'[c.study].status # "absent" /\ c.new # "absent"
        /\ c.new = "approved" => c.user # None /\ c.user # studies'[c.study].creator
  BY StudyCallFields DEF StudyKnown, StudyRowsStay
<1>2. c.at \in {"study_list", "study_count"} =>
        /\ c.new = "completed"
        /\ c.valid => Measured(c.study)'
        /\ \A d \in c.left : d[1] = c.study
  BY MeasuredStays DEF StudyKnown
<1>3. c.at = "study_write" /\ c.new \in ReviewStatuses => Measured(c.study)'
  BY MeasuredStays DEF StudyKnown
<1>4. c.at = "record_insert" /\ c.corrects # 0 =>
        measurements'[c.corrects].dataset = c.dataset
  BY StudyCallFields DEF StudyKnown, StudyRowsStay, MeasurementIds
<1>. QED
  BY <1>1, <1>2, <1>3, <1>4 DEF StudyKnown

LEMMA OneStudyCallMoves ==
  ASSUME StudyCallsInv, StudyRowsStay,
         NEW t \in Threads, NEW c, Goto(t, c), c \in StudyCalls', StudyKnown(c)'
  PROVE  StudyCallsInv'
<1>1. calls' = [calls EXCEPT ![t] = c] /\ calls \in [Threads -> StudyCalls]
  BY DEF Goto, StudyCallsInv
<1>2. /\ calls' \in [Threads -> StudyCalls']
      /\ calls'[t] = c
      /\ \A u \in Threads \ {t} : calls'[u] = calls[u]
  BY <1>1, StudyCallsGrow DEF StudyRowsStay
<1>3. ASSUME NEW u \in Threads
      PROVE  StudyKnown(calls[u])'
  <2>1. PICK d : d = calls'[u]
    OBVIOUS
  <2>2. StudyKnown(d)'
    <3>1. CASE u = t
      BY <1>2, <2>1, <3>1
    <3>2. CASE u # t
      BY <1>2, <2>1, <3>2, StudyKnownStays DEF StudyCallsInv
    <3>. QED
      BY <3>1, <3>2
  <2>. QED
    BY <2>1, <2>2 DEF StudyKnown, Measured, MeasurementIds
<1>. QED
  BY <1>2, <1>3 DEF StudyCallsInv

LEMMA StudyTablesStay ==
  ASSUME StudiesInv, UNCHANGED studyTables
  PROVE  StudyTablesInv' /\ StudyRowsStay
<1>1. studies' = studies /\ datasets' = datasets /\ measurements' = measurements
  BY DEF studyTables
<1>2. StudiesSound'
  BY <1>1 DEF StudiesInv, StudyTablesInv, StudiesSound, ReviewedMeasured, ApprovedByAnother,
              CorrectedInvalid, NumbersUnique, Measured, MeasurementIds
<1>3. AbsentUnapproved'
  BY <1>1 DEF StudiesInv, StudyTablesInv, AbsentUnapproved
<1>. QED
  BY <1>1, <1>2, <1>3 DEF StudiesInv, StudyTablesInv, StudyRowsStay

\* A step that only reads leaves a call that knows what it needs.
LEMMA StudyReadOnly ==
  ASSUME StudiesInv, UNCHANGED studyTables,
         NEW t \in Threads, NEW c \in StudyCalls, Goto(t, c), StudyKnown(c)
  PROVE  StudiesInv'
<1>1. StudyTablesInv' /\ StudyRowsStay /\ StudyCallsInv
  BY StudyTablesStay DEF StudiesInv
<1>2. c \in StudyCalls' /\ StudyKnown(c)'
  BY <1>1, StudyCallsGrow, StudyKnownStays DEF StudyRowsStay
<1>. QED
  BY <1>1, <1>2, OneStudyCallMoves DEF StudiesInv

LEMMA IdleStudyCall == Idle \in StudyCalls /\ StudyKnown(Idle)
BY DEF StudyCalls, StudyKnown, StudySteps, Idle

LEMMA IdleStudyCallAfter == Idle \in StudyCalls' /\ StudyKnown(Idle)'
BY DEF StudyCalls, StudyKnown, StudySteps, Idle

\* The last write of a request.
LEMMA StudyLastWrite ==
  ASSUME StudiesInv, StudyTablesInv', StudyRowsStay, NEW t \in Threads, Finish(t)
  PROVE  StudiesInv'
BY IdleStudyCallAfter, OneStudyCallMoves DEF StudiesInv, Finish

\* A call at a step that rests on nothing that was read.
PlainSteps ==
  {"study_create", "study_patch", "set_check", "set_create", "set_lock", "set_patch",
   "record_study", "record_number", "import_study", "import_number", "import_insert",
   "invalid_study", "invalid_write"}

LEMMA PlainRead ==
  ASSUME StudiesInv, UNCHANGED studyTables,
         NEW t \in Threads, NEW c \in StudyCalls, c.at \in PlainSteps, Goto(t, c)
  PROVE  StudiesInv'
<1>1. StudyKnown(c)
  BY DEF StudyKnown, StudySteps, PlainSteps
<1>. QED
  BY <1>1, StudyReadOnly

(* ---- Steps that read. ---- *)

LEMMA StudyTransitionsAre ==
  ASSUME NEW old \in StudyStatuses, NEW new \in StudyTransitions[old]
  PROVE  /\ old # "absent" /\ new \in StudyStatuses /\ new # "absent"
         /\ new = "under_review" => old = "completed"
         /\ new \in {"approved", "rejected"} => old = "under_review"
<1>1. old \in {"absent", "draft", "data_collection", "completed", "under_review", "approved",
               "rejected", "archived"}
  BY DEF StudyStatuses, StudyTransitions
<1>2. /\ old = "absent" => StudyTransitions[old] = {}
      /\ old = "draft" => StudyTransitions[old] = {"data_collection", "archived"}
      /\ old = "data_collection" => StudyTransitions[old] = {"completed", "archived"}
      /\ old = "completed" => StudyTransitions[old] = {"under_review", "archived"}
      /\ old = "under_review" => StudyTransitions[old] = {"approved", "rejected", "archived"}
      /\ old = "approved" => StudyTransitions[old] = {"archived"}
      /\ old = "rejected" => StudyTransitions[old] = {"data_collection", "archived"}
      /\ old = "archived" => StudyTransitions[old] = {}
  BY DEF StudyTransitions
<1>3. new \in {"data_collection", "archived", "completed", "under_review", "approved",
               "rejected"}
  BY <1>1, <1>2
<1>4. new \in StudyStatuses
  BY <1>3 DEF StudyStatuses, StudyTransitions
<1>. QED
  BY <1>1, <1>2, <1>3, <1>4

LEMMA ReadStudyStep ==
  ASSUME StudiesInv, NEW t \in Threads, ReadStudy(t)
  PROVE  StudiesInv'
<1>1. PICK s \in Studies, new \in StudyStatuses, u \in Users \cup {None} :
        /\ new \in StudyTransitions[studies[s].status] \ {"data_collection"}
        /\ IF new = "approved" THEN u \notin {None, studies[s].creator} ELSE u = None
        /\ Goto(t, [at |-> IF new = "completed" THEN "study_list" ELSE "study_write",
                    study |-> s, new |-> new, user |-> u, left |-> {}, valid |-> FALSE])
  BY DEF ReadStudy
<1>2. PICK c : /\ Goto(t, c)
               /\ c = [at |-> IF new = "completed" THEN "study_list" ELSE "study_write",
                       study |-> s, new |-> new, user |-> u, left |-> {}, valid |-> FALSE]
  BY <1>1
<1>3. studies[s].status \in StudyStatuses
  BY DEF StudiesInv, StudyTablesInv, StudyRows
<1>4. /\ studies[s].status # "absent" /\ new # "absent"
      /\ new = "under_review" => studies[s].status = "completed"
      /\ new \in {"approved", "rejected"} => studies[s].status = "under_review"
  BY <1>1, <1>3, StudyTransitionsAre
<1>5. /\ c.at = IF new = "completed" THEN "study_list" ELSE "study_write"
      /\ c.study = s /\ c.new = new /\ c.user = u /\ c.left = {} /\ c.valid = FALSE
  BY <1>2
<1>6. c \in StudyCalls
  BY <1>2 DEF StudyCalls
<1>7. new \in ReviewStatuses /\ new # "completed" => Measured(s)
  BY <1>4 DEF StudiesInv, StudyTablesInv, StudiesSound, ReviewedMeasured, ReviewStatuses
<1>8. StudyKnown(c)
  BY <1>1, <1>4, <1>5, <1>7 DEF StudyKnown, StudySteps
<1>. QED
  BY <1>2, <1>6, <1>8, StudyReadOnly DEF ReadStudy

LEMMA CompleteSteps ==
  ASSUME StudiesInv, NEW t \in Threads, ListDatasets(t) \/ CountDataset(t)
  PROVE  StudiesInv'
<1>1. /\ calls[t] \in StudyCalls /\ StudyKnown(calls[t])
      /\ calls[t].at \in {"study_list", "study_count"} /\ UNCHANGED studyTables
  BY DEF StudiesInv, StudyCallsInv, ListDatasets, CountDataset, At
<1>2. /\ calls[t].left \in SUBSET Datasets /\ calls[t].valid \in BOOLEAN
      /\ calls[t].study \in Studies /\ calls[t].new \in StudyStatuses
      /\ calls[t].user \in Users \cup {None}
  BY <1>1, StudyCallFields DEF StudySteps
<1>3. calls[t] \in [at : StudySteps, study : Studies, new : StudyStatuses,
                    user : Users \cup {None}, left : SUBSET Datasets, valid : BOOLEAN]
  BY <1>1 DEF StudyCalls, StudySteps, Idle
<1>4. /\ studies[calls[t].study].status # "absent" /\ calls[t].new = "completed"
      /\ calls[t].valid => Measured(calls[t].study)
      /\ \A d \in calls[t].left : d[1] = calls[t].study
  BY <1>1 DEF StudyKnown, StudySteps
<1>5. ASSUME NEW c \in StudyCalls, Goto(t, c), c.at = "study_count",
             c.study = calls[t].study, c.new = calls[t].new,
             \A d \in c.left : d[1] = calls[t].study,
             c.valid => Measured(calls[t].study)
      PROVE  StudiesInv'
  <2>1. StudyKnown(c)
    BY <1>4, <1>5 DEF StudyKnown, StudySteps
  <2>. QED
    BY <1>1, <1>5, <2>1, StudyReadOnly
<1>6. CASE ListDatasets(t)
  <2>1. PICK left : left = {d \in Datasets : /\ d[1] = calls[t].study
                                             /\ datasets[d].state # "absent"}
    OBVIOUS
  <2>2. PICK c : Goto(t, c) /\ c = [calls[t] EXCEPT !.at = "study_count", !.left = left]
    BY <1>6, <2>1 DEF ListDatasets
  <2>3. left \in SUBSET Datasets /\ \A d \in left : d[1] = calls[t].study
    BY <2>1
  <2>4. /\ c \in [at : {"study_count"}, study : Studies, new : StudyStatuses,
                  user : Users \cup {None}, left : SUBSET Datasets, valid : BOOLEAN]
        /\ c.at = "study_count" /\ c.study = calls[t].study /\ c.new = calls[t].new
        /\ c.left = left /\ c.valid = calls[t].valid
    BY <1>3, <2>2, <2>3
  <2>5. c \in StudyCalls
    BY <2>4 DEF StudyCalls
  <2>. QED
    BY <1>4, <1>5, <2>2, <2>3, <2>4, <2>5
<1>7. CASE CountDataset(t)
  <2>1. PICK d \in calls[t].left :
          Goto(t, [calls[t] EXCEPT !.left = @ \ {d},
                     !.valid = @ \/ \E i \in RecordsOf(d) : measurements[i].valid])
    BY <1>7 DEF CountDataset
  <2>2. PICK left, valid :
          /\ left = calls[t].left \ {d}
          /\ valid = (calls[t].valid \/ \E i \in RecordsOf(d) : measurements[i].valid)
    OBVIOUS
  <2>3. PICK c : Goto(t, c) /\ c = [calls[t] EXCEPT !.left = left, !.valid = valid]
    BY <2>1, <2>2
  <2>4. calls[t].at = "study_count"
    BY <1>7 DEF CountDataset, At
  <2>5. left \in SUBSET Datasets /\ \A e \in left : e[1] = calls[t].study
    BY <1>2, <1>4, <2>2
  <2>6. valid \in BOOLEAN
    BY <2>2, Zenon
  <2>7. valid => Measured(calls[t].study)
    BY <1>4, <2>1, <2>2 DEF RecordsOf, Measured, MeasurementIds
  <2>8. /\ c \in [at : {"study_count"}, study : Studies, new : StudyStatuses,
                  user : Users \cup {None}, left : SUBSET Datasets, valid : BOOLEAN]
        /\ c.at = "study_count" /\ c.study = calls[t].study /\ c.new = calls[t].new
        /\ c.left = left /\ c.valid = valid
    BY <1>3, <2>3, <2>4, <2>5, <2>6
  <2>9. c \in StudyCalls
    BY <2>8 DEF StudyCalls
  <2>. QED
    BY <1>5, <2>3, <2>5, <2>7, <2>8, <2>9
<1>. QED
  BY <1>6, <1>7

LEMMA NumberRecordStep ==
  ASSUME StudiesInv, NEW t \in Threads, NumberRecord(t)
  PROVE  StudiesInv'
<1>1. /\ calls[t] \in StudyCalls /\ calls[t].at = "record_number" /\ UNCHANGED studyTables
  BY DEF StudiesInv, StudyCallsInv, NumberRecord, At
<1>2. calls[t].dataset \in Datasets
  BY <1>1, StudyCallFields
<1>3. PICK d, no : d = calls[t].dataset /\ no = NextNumber(Numbers(d))
  OBVIOUS
<1>4. no \in Nat
  BY <1>3, DatasetNumbers, NextNumberIsNumber DEF StudiesInv, StudyTablesInv
<1>5. PICK i \in {0} \cup RecordsOf(d) :
        Goto(t, [calls[t] EXCEPT !.at = "record_insert", !.corrects = i, !.no = no])
  BY <1>3 DEF NumberRecord
<1>6. calls[t] \in [at : {"record_number"}, dataset : Datasets, no : Nat,
                    corrects : {0} \cup MeasurementIds]
  BY <1>1 DEF StudyCalls, Idle
<1>7. PICK c : /\ Goto(t, c)
               /\ c = [calls[t] EXCEPT !.at = "record_insert", !.corrects = i, !.no = no]
  BY <1>5
<1>8. i # 0 => i \in MeasurementIds /\ measurements[i].dataset = d
  BY <1>5 DEF RecordsOf, MeasurementIds
<1>9. /\ c \in [at : {"record_insert"}, dataset : Datasets, no : Nat,
                corrects : {0} \cup MeasurementIds]
      /\ c.at = "record_insert" /\ c.corrects = i /\ c.dataset = d
  BY <1>3, <1>4, <1>6, <1>7, <1>8
<1>10. c \in StudyCalls /\ StudyKnown(c)
  BY <1>8, <1>9 DEF StudyCalls, StudyKnown, StudySteps
<1>. QED
  BY <1>1, <1>7, <1>10, StudyReadOnly

LEMMA StudyRefused ==
  ASSUME StudiesInv, UNCHANGED studyTables, NEW t \in Threads, Finish(t)
  PROVE  StudiesInv'
BY StudyTablesStay, StudyLastWrite

LEMMA FirstReads ==
  ASSUME StudiesInv, NEW t \in Threads,
         CheckStudyCode(t) \/ ReadForPatch(t) \/ ReadForDataset(t)
  PROVE  StudiesInv'
<1>1. UNCHANGED studyTables
  BY DEF CheckStudyCode, ReadForPatch, ReadForDataset
<1>2. CASE CheckStudyCode(t)
  <2>1. PICK s \in Studies, u \in Users :
          Goto(t, [at |-> "study_create", study |-> s, user |-> u])
    BY <1>2 DEF CheckStudyCode
  <2>2. PICK c : Goto(t, c) /\ c = [at |-> "study_create", study |-> s, user |-> u]
    BY <2>1
  <2>3. c \in StudyCalls /\ c.at = "study_create"
    BY <2>2 DEF StudyCalls
  <2>. QED
    BY <1>1, <2>2, <2>3, PlainRead DEF PlainSteps
<1>3. CASE ReadForPatch(t)
  <2>1. PICK s \in Studies, n \in Notes :
          Goto(t, [at |-> "study_patch", study |-> s, notes |-> n])
    BY <1>3 DEF ReadForPatch
  <2>2. PICK c : Goto(t, c) /\ c = [at |-> "study_patch", study |-> s, notes |-> n]
    BY <2>1
  <2>3. c \in StudyCalls /\ c.at = "study_patch"
    BY <2>2 DEF StudyCalls
  <2>. QED
    BY <1>1, <2>2, <2>3, PlainRead DEF PlainSteps
<1>4. CASE ReadForDataset(t)
  <2>1. PICK d \in Datasets :
          Goto(t, [at |-> "set_check", dataset |-> d, draft |-> studies[d[1]].status = "draft"])
    BY <1>4 DEF ReadForDataset
  <2>2. PICK draft : draft = (studies[d[1]].status = "draft")
    OBVIOUS
  <2>3. PICK c : Goto(t, c) /\ c = [at |-> "set_check", dataset |-> d, draft |-> draft]
    BY <2>1, <2>2
  <2>4. draft \in BOOLEAN
    BY <2>2
  <2>5. c \in StudyCalls /\ c.at = "set_check"
    BY <2>3, <2>4 DEF StudyCalls
  <2>. QED
    BY <1>1, <2>3, <2>5, PlainRead DEF PlainSteps
<1>. QED
  BY <1>2, <1>3, <1>4

LEMMA ReadDatasetStep ==
  ASSUME StudiesInv, NEW t \in Threads, ReadDataset(t)
  PROVE  StudiesInv'
<1>1. UNCHANGED studyTables
  BY DEF ReadDataset
<1>2. PICK d \in Datasets :
        \/ Goto(t, [at |-> "set_lock", dataset |-> d])
        \/ \E n \in Notes : Goto(t, [at |-> "set_patch", dataset |-> d, notes |-> n])
        \/ Goto(t, [at |-> "record_study", dataset |-> d, no |-> 0, corrects |-> 0])
        \/ \E f \in CsvFiles \ {datasets[d].checksum} :
             Goto(t, [at |-> "import_study", dataset |-> d, file |-> f, no |-> 0])
        \/ \E i \in RecordsOf(d) :
             Goto(t, [at |-> "invalid_study", dataset |-> d, row |-> i])
  BY DEF ReadDataset
<1>3. PICK c :
        /\ Goto(t, c)
        /\ \/ c = [at |-> "set_lock", dataset |-> d]
           \/ \E n \in Notes : c = [at |-> "set_patch", dataset |-> d, notes |-> n]
           \/ c = [at |-> "record_study", dataset |-> d, no |-> 0, corrects |-> 0]
           \/ \E f \in CsvFiles :
                c = [at |-> "import_study", dataset |-> d, file |-> f, no |-> 0]
           \/ \E i \in RecordsOf(d) : c = [at |-> "invalid_study", dataset |-> d, row |-> i]
  BY <1>2, Zenon
<1>4. c \in StudyCalls /\ c.at \in PlainSteps
  BY <1>3 DEF StudyCalls, PlainSteps, RecordsOf, MeasurementIds
<1>. QED
  BY <1>1, <1>3, <1>4, PlainRead

\* A call that goes on as it is, to a step that rests on nothing that was read.
LEMMA PlainContinues ==
  ASSUME StudiesInv, UNCHANGED studyTables, NEW t \in Threads,
         NEW step, NEW next, At(t, step), Continue(t, next),
         \/ step = "set_check" /\ next = "set_create"
         \/ step = "record_study" /\ next = "record_number"
         \/ step = "import_study" /\ next = "import_number"
         \/ step = "invalid_study" /\ next = "invalid_write"
  PROVE  StudiesInv'
<1>1. calls[t] \in StudyCalls /\ calls[t].at = step
  BY DEF StudiesInv, StudyCallsInv, At
<1>2. PICK c : Goto(t, c) /\ c = [calls[t] EXCEPT !.at = next]
  BY DEF Continue
<1>3. c.at = next
  BY <1>1, <1>2 DEF StudyCalls, Idle
<1>4. CASE step = "set_check" /\ next = "set_create"
  <2>1. calls[t] \in [at : {"set_check", "set_create"}, dataset : Datasets, draft : BOOLEAN]
    BY <1>1, <1>4 DEF StudyCalls, Idle
  <2>2. c \in [at : {"set_check", "set_create"}, dataset : Datasets, draft : BOOLEAN]
    BY <1>2, <1>4, <2>1
  <2>. QED
    BY <1>2, <1>3, <1>4, <2>2, PlainRead DEF PlainSteps, StudyCalls
<1>5. CASE step = "record_study" /\ next = "record_number"
  <2>1. calls[t] \in [at : {"record_study", "record_number", "record_insert"},
                      dataset : Datasets, no : Nat, corrects : {0} \cup MeasurementIds]
    BY <1>1, <1>5 DEF StudyCalls, Idle
  <2>2. c \in [at : {"record_study", "record_number", "record_insert"},
               dataset : Datasets, no : Nat, corrects : {0} \cup MeasurementIds]
    BY <1>2, <1>5, <2>1
  <2>. QED
    BY <1>2, <1>3, <1>5, <2>2, PlainRead DEF PlainSteps, StudyCalls
<1>6. CASE step = "import_study" /\ next = "import_number"
  <2>1. calls[t] \in [at : {"import_study", "import_number", "import_insert"},
                      dataset : Datasets, file : CsvFiles, no : Nat]
    BY <1>1, <1>6 DEF StudyCalls, Idle
  <2>2. c \in [at : {"import_study", "import_number", "import_insert"},
               dataset : Datasets, file : CsvFiles, no : Nat]
    BY <1>2, <1>6, <2>1
  <2>. QED
    BY <1>2, <1>3, <1>6, <2>2, PlainRead DEF PlainSteps, StudyCalls
<1>7. CASE step = "invalid_study" /\ next = "invalid_write"
  <2>1. calls[t] \in [at : {"invalid_study", "invalid_write"}, dataset : Datasets,
                      row : MeasurementIds]
    BY <1>1, <1>7 DEF StudyCalls, Idle
  <2>2. c \in [at : {"invalid_study", "invalid_write"}, dataset : Datasets,
               row : MeasurementIds]
    BY <1>2, <1>7, <2>1
  <2>. QED
    BY <1>2, <1>3, <1>7, <2>2, PlainRead DEF PlainSteps, StudyCalls
<1>. QED
  BY <1>4, <1>5, <1>6, <1>7

LEMMA SecondReads ==
  ASSUME StudiesInv, NEW t \in Threads, CheckDatasetCode(t) \/ AssertStudyEditable(t)
  PROVE  StudiesInv'
<1>1. UNCHANGED studyTables
  BY DEF CheckDatasetCode, AssertStudyEditable, StudyEditable
<1>2. PICK step, next :
        /\ At(t, step)
        /\ Continue(t, next) \/ Finish(t)
        /\ \/ step = "set_check" /\ next = "set_create"
           \/ step = "record_study" /\ next = "record_number"
           \/ step = "import_study" /\ next = "import_number"
           \/ step = "invalid_study" /\ next = "invalid_write"
  BY DEF CheckDatasetCode, AssertStudyEditable, StudyEditable
<1>. QED
  BY <1>1, <1>2, PlainContinues, StudyRefused

LEMMA NumberImportStep ==
  ASSUME StudiesInv, NEW t \in Threads, NumberImport(t)
  PROVE  StudiesInv'
<1>1. /\ calls[t] \in StudyCalls /\ calls[t].at = "import_number" /\ UNCHANGED studyTables
  BY DEF StudiesInv, StudyCallsInv, NumberImport, At
<1>2. PICK file, next, no :
        /\ file = calls[t].file /\ next = NextNumber(Numbers(calls[t].dataset))
        /\ no = IF file = <<>> THEN 0 ELSE IF file[1] # 0 THEN file[1] ELSE next
  OBVIOUS
<1>3. Finish(t) \/ Goto(t, [calls[t] EXCEPT !.at = "import_insert", !.no = no])
  BY <1>2 DEF NumberImport
<1>4. CASE Finish(t)
  BY <1>1, <1>4, StudyRefused
<1>5. ASSUME Goto(t, [calls[t] EXCEPT !.at = "import_insert", !.no = no])
      PROVE  StudiesInv'
  <2>1. calls[t] \in [at : {"import_number"}, dataset : Datasets, file : CsvFiles, no : Nat]
    BY <1>1 DEF StudyCalls, Idle
  <2>2. next \in Nat
    BY <1>2, DatasetNumbers, NextNumberIsNumber DEF StudiesInv, StudyTablesInv
  <2>3. file \in Seq(Nat)
    BY <1>2, <2>1, StudiesAssumption
  <2>4. no \in Nat
    <3>1. CASE file = <<>>
      BY <1>2, <3>1
    <3>2. CASE file # <<>>
      <4>1. 1 \in 1 .. Len(file)
        BY <2>3, <3>2, EmptySeq, LenProperties
      <4>2. file[1] \in Nat
        BY <2>3, <4>1, ElementOfSeq
      <4>. QED
        BY <1>2, <2>2, <3>2, <4>2
    <3>. QED
      BY <3>1, <3>2
  <2>5. PICK c : Goto(t, c) /\ c = [calls[t] EXCEPT !.at = "import_insert", !.no = no]
    BY <1>5
  <2>6. /\ c \in [at : {"import_insert"}, dataset : Datasets, file : CsvFiles, no : Nat]
        /\ c.at = "import_insert"
    BY <2>1, <2>4, <2>5
  <2>. QED
    BY <1>1, <2>5, <2>6, PlainRead DEF PlainSteps, StudyCalls
<1>. QED
  BY <1>3, <1>4, <1>5

(* ---- Steps that write studies and datasets. ---- *)

\* One study, or none, is written.
LEMMA StudyWritten ==
  ASSUME StudiesInv, NEW t \in Threads, Finish(t), measurements' = measurements,
         datasets' \in [Datasets -> DatasetRows],
         studies' \in [Studies -> StudyRows],
         NEW s \in Studies, \A r \in Studies \ {s} : studies'[r] = studies[r],
         studies'[s].status # "absent",
         studies'[s].status \in ReviewStatuses => Measured(s),
         studies[s].status # "absent" => studies'[s].creator = studies[s].creator,
         studies'[s].status = "approved" => studies'[s].approver # None,
         studies'[s].approver # None => studies'[s].approver # studies'[s].creator
  PROVE  StudiesInv'
<1>1. StudyRowsStay
  BY DEF StudyRowsStay
<1>2. ReviewedMeasured'
  BY DEF StudiesInv, StudyTablesInv, StudiesSound, ReviewedMeasured, ReviewStatuses, Measured,
         MeasurementIds
<1>3. ApprovedByAnother'
  BY DEF StudiesInv, StudyTablesInv, StudiesSound, ApprovedByAnother
<1>4. CorrectedInvalid' /\ NumbersUnique'
  BY DEF StudiesInv, StudyTablesInv, StudiesSound, CorrectedInvalid, NumbersUnique,
         MeasurementIds
<1>5. AbsentUnapproved'
  BY DEF StudiesInv, StudyTablesInv, AbsentUnapproved
<1>6. StudyTablesInv'
  BY <1>2, <1>3, <1>4, <1>5 DEF StudiesInv, StudyTablesInv, StudiesSound
<1>. QED
  BY <1>1, <1>6, StudyLastWrite

\* Only datasets are written.
LEMMA DatasetWritten ==
  ASSUME StudiesInv, NEW t \in Threads, Finish(t), UNCHANGED <<studies, measurements>>,
         datasets' \in [Datasets -> DatasetRows]
  PROVE  StudiesInv'
<1>1. StudyRowsStay
  BY DEF StudyRowsStay
<1>2. StudiesSound'
  BY DEF StudiesInv, StudyTablesInv, StudiesSound, ReviewedMeasured, ApprovedByAnother,
         CorrectedInvalid, NumbersUnique, Measured, MeasurementIds
<1>3. AbsentUnapproved'
  BY DEF StudiesInv, StudyTablesInv, AbsentUnapproved
<1>4. StudyTablesInv'
  BY <1>2, <1>3 DEF StudiesInv, StudyTablesInv
<1>. QED
  BY <1>1, <1>4, StudyLastWrite

LEMMA InsertStudyStep ==
  ASSUME StudiesInv, NEW t \in Threads, InsertStudy(t)
  PROVE  StudiesInv'
<1>1. PICK s, u : s = calls[t].study /\ u = calls[t].user
  OBVIOUS
<1>2. s \in Studies /\ u \in Users
  BY <1>1, StudyCallFields DEF StudiesInv, StudyCallsInv, InsertStudy, At
<1>3. /\ Finish(t) /\ datasets' = datasets /\ measurements' = measurements
      /\ studies' = IF studies[s].status = "absent"
                      THEN [studies EXCEPT ![s].status = "draft", ![s].creator = u]
                      ELSE studies
  BY <1>1 DEF InsertStudy
<1>4. studies \in [Studies -> StudyRows] /\ datasets \in [Datasets -> DatasetRows]
  BY DEF StudiesInv, StudyTablesInv
<1>5. CASE studies[s].status = "absent"
  <2>1. studies' = [studies EXCEPT ![s].status = "draft", ![s].creator = u]
    BY <1>3, <1>5
  <2>2. /\ studies'[s].status = "draft" /\ studies'[s].creator = u
        /\ studies'[s].approver = studies[s].approver
        /\ \A r \in Studies \ {s} : studies'[r] = studies[r]
    BY <1>2, <1>4, <2>1 DEF StudyRows
  <2>3. studies' \in [Studies -> StudyRows]
    <3>1. "draft" \in StudyStatuses /\ u \in Users \cup {None}
      BY <1>2 DEF StudyStatuses, StudyTransitions
    <3>2. studies[s] \in StudyRows
      BY <1>2, <1>4
    <3>3. [studies[s] EXCEPT !.status = "draft", !.creator = u] \in StudyRows
      BY <3>1, <3>2 DEF StudyRows
    <3>4. studies' = [studies EXCEPT ![s] = [studies[s] EXCEPT !.status = "draft", !.creator = u]]
      BY <1>2, <1>4, <2>1
    <3>. QED
      BY <1>4, <3>3, <3>4
  <2>4. studies[s].approver = None
    BY <1>2, <1>5 DEF StudiesInv, StudyTablesInv, AbsentUnapproved
  <2>. QED
    BY <1>2, <1>3, <1>4, <1>5, <2>2, <2>3, <2>4, StudyWritten DEF ReviewStatuses
<1>6. CASE studies[s].status # "absent"
  BY <1>3, <1>4, <1>6, DatasetWritten
<1>. QED
  BY <1>5, <1>6

LEMMA WriteStudyStep ==
  ASSUME StudiesInv, NEW t \in Threads, WriteStudy(t)
  PROVE  StudiesInv'
<1>1. PICK s, u, new : s = calls[t].study /\ u = calls[t].user /\ new = calls[t].new
  OBVIOUS
<1>2. /\ calls[t] \in StudyCalls /\ StudyKnown(calls[t]) /\ calls[t].at \in StudySteps
      /\ calls[t].at = "study_write" \/ (calls[t].at = "study_count" /\ calls[t].valid)
  BY DEF StudiesInv, StudyCallsInv, WriteStudy, StudySteps
<1>3. /\ s \in Studies /\ u \in Users \cup {None} /\ new \in StudyStatuses /\ new # "absent"
      /\ studies[s].status # "absent"
      /\ new = "approved" => u # None /\ u # studies[s].creator
      /\ new \in ReviewStatuses => Measured(s)
  BY <1>1, <1>2, StudyCallFields DEF StudyKnown
<1>4. /\ Finish(t) /\ datasets' = datasets /\ measurements' = measurements
      /\ studies' = [studies EXCEPT ![s].status = new,
                                    ![s].approver = IF new = "approved" THEN u ELSE @]
  BY <1>1 DEF WriteStudy
<1>5. studies \in [Studies -> StudyRows] /\ datasets \in [Datasets -> DatasetRows]
  BY DEF StudiesInv, StudyTablesInv
<1>6. PICK approver : approver = IF new = "approved" THEN u ELSE studies[s].approver
  OBVIOUS
<1>7. studies' = [studies EXCEPT ![s].status = new, ![s].approver = approver]
  BY <1>4, <1>6
<1>8. /\ studies'[s].status = new /\ studies'[s].approver = approver
      /\ studies'[s].creator = studies[s].creator
      /\ \A r \in Studies \ {s} : studies'[r] = studies[r]
  BY <1>3, <1>5, <1>7 DEF StudyRows
<1>9. studies[s].approver \in Users \cup {None}
  BY <1>3, <1>5 DEF StudyRows
<1>10. approver \in Users \cup {None}
  BY <1>3, <1>6, <1>9
<1>11. studies' \in [Studies -> StudyRows]
  BY <1>3, <1>5, <1>7, <1>10 DEF StudyRows
<1>12. approver # None => approver # studies[s].creator
  BY <1>3, <1>6 DEF StudiesInv, StudyTablesInv, StudiesSound, ApprovedByAnother
<1>. QED
  BY <1>3, <1>4, <1>5, <1>6, <1>8, <1>11, <1>12, StudyWritten

LEMMA PatchSteps ==
  ASSUME StudiesInv, NEW t \in Threads, PatchStudy(t) \/ LockDataset(t) \/ PatchDataset(t)
  PROVE  StudiesInv'
<1>1. /\ studies \in [Studies -> StudyRows] /\ datasets \in [Datasets -> DatasetRows]
      /\ calls[t] \in StudyCalls /\ Finish(t)
  BY DEF StudiesInv, StudyTablesInv, StudyCallsInv, PatchStudy, LockDataset, PatchDataset
<1>2. CASE PatchStudy(t)
  <2>1. PICK s, n : s = calls[t].study /\ n = calls[t].notes
    OBVIOUS
  <2>2. s \in Studies /\ n \in Notes
    BY <1>1, <1>2, <2>1, StudyCallFields DEF PatchStudy, At
  <2>3. /\ datasets' = datasets /\ measurements' = measurements
        /\ studies' = [studies EXCEPT ![s].notes = n]
    BY <1>2, <2>1 DEF PatchStudy
  <2>4. studies' \in [Studies -> StudyRows]
    BY <1>1, <2>2, <2>3 DEF StudyRows
  <2>5. \A r \in Studies : /\ studies'[r].status = studies[r].status
                           /\ studies'[r].creator = studies[r].creator
                           /\ studies'[r].approver = studies[r].approver
    BY <1>1, <2>2, <2>3 DEF StudyRows
  <2>6. StudyRowsStay
    BY <2>3, <2>5 DEF StudyRowsStay
  <2>7. ReviewedMeasured' /\ ApprovedByAnother' /\ AbsentUnapproved'
    BY <2>3, <2>5 DEF StudiesInv, StudyTablesInv, StudiesSound, ReviewedMeasured,
                      ApprovedByAnother, AbsentUnapproved, Measured, MeasurementIds
  <2>8. CorrectedInvalid' /\ NumbersUnique'
    BY <2>3 DEF StudiesInv, StudyTablesInv, StudiesSound, CorrectedInvalid, NumbersUnique,
                MeasurementIds
  <2>9. StudyTablesInv'
    BY <2>3, <2>4, <2>7, <2>8 DEF StudiesInv, StudyTablesInv, StudiesSound
  <2>. QED
    BY <1>1, <2>6, <2>9, StudyLastWrite
<1>3. CASE LockDataset(t)
  <2>1. PICK d : d = calls[t].dataset
    OBVIOUS
  <2>2. d \in Datasets
    BY <1>1, <1>3, <2>1, StudyCallFields DEF LockDataset, At
  <2>3. /\ UNCHANGED <<studies, measurements>>
        /\ datasets' = [datasets EXCEPT ![d].state = "locked"]
    BY <1>3, <2>1 DEF LockDataset
  <2>4. datasets' \in [Datasets -> DatasetRows]
    BY <1>1, <2>2, <2>3 DEF DatasetRows
  <2>. QED
    BY <1>1, <2>3, <2>4, DatasetWritten
<1>4. CASE PatchDataset(t)
  <2>1. PICK d, n : d = calls[t].dataset /\ n = calls[t].notes
    OBVIOUS
  <2>2. d \in Datasets /\ n \in Notes
    BY <1>1, <1>4, <2>1, StudyCallFields DEF PatchDataset, At
  <2>3. /\ UNCHANGED <<studies, measurements>>
        /\ datasets' = [datasets EXCEPT ![d].notes = n]
    BY <1>4, <2>1 DEF PatchDataset
  <2>4. datasets' \in [Datasets -> DatasetRows]
    BY <1>1, <2>2, <2>3 DEF DatasetRows
  <2>. QED
    BY <1>1, <2>3, <2>4, DatasetWritten
<1>. QED
  BY <1>2, <1>3, <1>4

LEMMA InsertDatasetStep ==
  ASSUME StudiesInv, NEW t \in Threads, InsertDataset(t)
  PROVE  StudiesInv'
<1>1. PICK d, draft : d = calls[t].dataset /\ draft = calls[t].draft
  OBVIOUS
<1>2. /\ studies \in [Studies -> StudyRows] /\ datasets \in [Datasets -> DatasetRows]
      /\ calls[t] \in StudyCalls /\ Finish(t) /\ measurements' = measurements
      /\ IF datasets[d].state = "absent"
           THEN /\ datasets' = [datasets EXCEPT ![d].state = "open", ![d].version = 1]
                /\ studies' = IF draft
                                THEN [studies EXCEPT ![d[1]].status = "data_collection"]
                                ELSE studies
           ELSE UNCHANGED <<studies, datasets>>
  BY <1>1 DEF StudiesInv, StudyTablesInv, StudyCallsInv, InsertDataset
<1>3. d \in Datasets
  BY <1>1, <1>2, StudyCallFields DEF InsertDataset, At
<1>4. datasets' \in [Datasets -> DatasetRows]
  <2>1. CASE datasets[d].state = "absent"
    <3>1. datasets' = [datasets EXCEPT ![d].state = "open", ![d].version = 1]
      BY <1>2, <2>1
    <3>. QED
      BY <1>2, <1>3, <3>1, ZenonT(60) DEF DatasetRows
  <2>2. CASE datasets[d].state # "absent"
    BY <1>2, <2>2
  <2>. QED
    BY <2>1, <2>2
<1>5. CASE studies' = studies
  BY <1>2, <1>4, <1>5, DatasetWritten
<1>6. CASE studies' # studies
  <2>1. PICK s : s = d[1]
    OBVIOUS
  <2>2. s \in Studies
    BY <1>3, <2>1, DatasetFields
  <2>3. studies' = [studies EXCEPT ![s].status = "data_collection"]
    BY <1>2, <1>6, <2>1
  <2>4. /\ studies'[s].status = "data_collection" /\ studies'[s].approver = studies[s].approver
        /\ studies'[s].creator = studies[s].creator
        /\ \A r \in Studies \ {s} : studies'[r] = studies[r]
    BY <1>2, <2>2, <2>3 DEF StudyRows
  <2>5. studies' \in [Studies -> StudyRows]
    BY <1>2, <2>2, <2>3 DEF StudyRows, StudyStatuses, StudyTransitions
  <2>6. studies[s].approver # None => studies[s].approver # studies[s].creator
    BY <2>2 DEF StudiesInv, StudyTablesInv, StudiesSound, ApprovedByAnother
  <2>. QED
    BY <1>2, <1>4, <2>2, <2>4, <2>5, <2>6, StudyWritten DEF ReviewStatuses
<1>. QED
  BY <1>5, <1>6

(* ---- Steps that write measurements. ---- *)

LEMMA MeasurementsTyped ==
  ASSUME StudiesInv
  PROVE  /\ measurements \in Seq(MeasurementRows)
         /\ Len(measurements) \in Nat /\ DOMAIN measurements = 1 .. Len(measurements)
         /\ \A i \in DOMAIN measurements : measurements[i] \in MeasurementRows
BY LenProperties, ElementOfSeq DEF StudiesInv, StudyTablesInv

LEMMA MeasurementsWritten ==
  ASSUME StudiesInv, NEW t \in Threads, Finish(t), studies' = studies,
         datasets' \in [Datasets -> DatasetRows],
         measurements' \in Seq(MeasurementRows), Len(measurements') <= MaxRecords,
         DOMAIN measurements \subseteq DOMAIN measurements',
         \A i \in DOMAIN measurements : measurements'[i].dataset = measurements[i].dataset,
         CorrectedInvalid', NumbersUnique'
  PROVE  StudiesInv'
<1>1. StudyRowsStay
  BY DEF StudyRowsStay
<1>2. ReviewedMeasured'
  BY DEF StudiesInv, StudyTablesInv, StudiesSound, ReviewedMeasured, Measured, MeasurementIds
<1>3. ApprovedByAnother' /\ AbsentUnapproved'
  BY DEF StudiesInv, StudyTablesInv, StudiesSound, ApprovedByAnother, AbsentUnapproved
<1>4. StudyTablesInv'
  BY <1>2, <1>3 DEF StudiesInv, StudyTablesInv, StudiesSound
<1>. QED
  BY <1>1, <1>4, StudyLastWrite

\* A superseded row is as it was, but not valid.
LEMMA SupersededIs ==
  ASSUME StudiesInv, NEW k \in MeasurementIds, NEW new, new = Superseded(k)
  PROVE  /\ new \in Seq(MeasurementRows) /\ Len(new) = Len(measurements)
         /\ DOMAIN new = DOMAIN measurements
         /\ ~new[k].valid
         /\ \A i \in DOMAIN measurements :
              /\ new[i] \in MeasurementRows
              /\ new[i].dataset = measurements[i].dataset
              /\ new[i].no = measurements[i].no
              /\ new[i].corrects = measurements[i].corrects
              /\ ~measurements[i].valid => ~new[i].valid
<1>1. PICK row : row = [measurements[k] EXCEPT !.valid = FALSE]
  OBVIOUS
<1>2. k \in 1 .. Len(measurements) /\ measurements[k] \in MeasurementRows
  BY MeasurementsTyped DEF MeasurementIds
<1>3. /\ row \in MeasurementRows /\ row.valid = FALSE /\ row.no = measurements[k].no
      /\ row.dataset = measurements[k].dataset /\ row.corrects = measurements[k].corrects
  BY <1>1, <1>2 DEF MeasurementRows
<1>4. new = [measurements EXCEPT ![k] = row]
  BY <1>1 DEF Superseded
<1>5. new \in Seq(MeasurementRows) /\ Len(new) = Len(measurements)
  BY <1>2, <1>3, <1>4, ExceptSeq, MeasurementsTyped
<1>6. /\ DOMAIN new = DOMAIN measurements /\ new[k] = row
      /\ \A i \in DOMAIN measurements : i # k => new[i] = measurements[i]
  BY <1>2, <1>4, MeasurementsTyped
<1>. QED
  BY <1>3, <1>5, <1>6, MeasurementsTyped

LEMMA InvalidateRecordStep ==
  ASSUME StudiesInv, NEW t \in Threads, InvalidateRecord(t)
  PROVE  StudiesInv'
<1>1. PICK k : k = calls[t].row
  OBVIOUS
<1>2. k \in MeasurementIds
  BY <1>1, StudyCallFields DEF StudiesInv, StudyCallsInv, InvalidateRecord, At
<1>3. Finish(t) /\ studies' = studies /\ datasets' = datasets /\ measurements' = Superseded(k)
  BY <1>1 DEF InvalidateRecord
<1>4. /\ measurements' \in Seq(MeasurementRows) /\ Len(measurements') = Len(measurements)
      /\ DOMAIN measurements' = DOMAIN measurements
      /\ \A i \in DOMAIN measurements :
           /\ measurements'[i].dataset = measurements[i].dataset
           /\ measurements'[i].no = measurements[i].no
           /\ measurements'[i].corrects = measurements[i].corrects
           /\ ~measurements[i].valid => ~measurements'[i].valid
  BY <1>2, <1>3, SupersededIs
<1>5. NumbersUnique'
  BY <1>4 DEF StudiesInv, StudyTablesInv, StudiesSound, NumbersUnique, MeasurementIds
<1>6. CorrectedInvalid'
  <2>1. ASSUME NEW i \in DOMAIN measurements, measurements'[i].corrects # 0
        PROVE  /\ measurements'[i].corrects \in 1..(i - 1)
               /\ ~measurements'[measurements'[i].corrects].valid
               /\ measurements'[measurements'[i].corrects].dataset = measurements'[i].dataset
    <3>1. PICK m : m = measurements[i].corrects
      OBVIOUS
    <3>2. /\ m \in 1..(i - 1) /\ ~measurements[m].valid
          /\ measurements[m].dataset = measurements[i].dataset
      BY <1>4, <2>1, <3>1
         DEF StudiesInv, StudyTablesInv, StudiesSound, CorrectedInvalid, MeasurementIds
    <3>3. m \in DOMAIN measurements
      BY <3>2, MeasurementsTyped
    <3>. QED
      BY <1>4, <2>1, <3>1, <3>2, <3>3
  <2>. QED
    BY <1>4, <2>1 DEF CorrectedInvalid, MeasurementIds
<1>7. Len(measurements') <= MaxRecords /\ datasets' \in [Datasets -> DatasetRows]
  BY <1>3, <1>4 DEF StudiesInv, StudyTablesInv
<1>. QED
  BY <1>3, <1>4, <1>5, <1>6, <1>7, MeasurementsWritten

LEMMA InsertRecordStep ==
  ASSUME StudiesInv, NEW t \in Threads, InsertRecord(t)
  PROVE  StudiesInv'
<1>1. PICK d, no, k : d = calls[t].dataset /\ no = calls[t].no /\ k = calls[t].corrects
  OBVIOUS
<1>2. /\ d \in Datasets /\ no \in Nat /\ k \in {0} \cup MeasurementIds
      /\ k # 0 => measurements[k].dataset = d
  BY <1>1, StudyCallFields DEF StudiesInv, StudyCallsInv, InsertRecord, At, StudyKnown
<1>3. PICK base, row : /\ base = IF k = 0 THEN measurements ELSE Superseded(k)
                       /\ row = RecordRow(d, no, k)
  OBVIOUS
<1>4. /\ Finish(t) /\ studies' = studies /\ datasets' = datasets
      /\ Len(measurements) < MaxRecords
      /\ measurements' = IF no \in Numbers(d) THEN measurements ELSE Append(base, row)
  BY <1>1, <1>3 DEF InsertRecord
<1>5. CASE no \in Numbers(d)
  <2>1. measurements' = measurements
    BY <1>4, <1>5
  <2>2. UNCHANGED studyTables
    BY <1>4, <2>1 DEF studyTables
  <2>. QED
    BY <1>4, <2>2, StudyRefused
<1>6. CASE no \notin Numbers(d)
  <2>1. /\ base \in Seq(MeasurementRows) /\ Len(base) = Len(measurements)
        /\ DOMAIN base = DOMAIN measurements
        /\ k # 0 => ~base[k].valid
        /\ \A i \in DOMAIN measurements :
             /\ base[i].dataset = measurements[i].dataset
             /\ base[i].no = measurements[i].no
             /\ base[i].corrects = measurements[i].corrects
             /\ ~measurements[i].valid => ~base[i].valid
    <3>1. CASE k = 0
      BY <1>3, <3>1, MeasurementsTyped
    <3>2. CASE k # 0
      BY <1>2, <1>3, <3>2, SupersededIs
    <3>. QED
      BY <3>1, <3>2
  <2>2. Len(measurements) \in Nat /\ DOMAIN measurements = 1 .. Len(measurements)
    BY MeasurementsTyped
  <2>3. /\ row \in MeasurementRows
        /\ row.dataset = d /\ row.no = no /\ row.corrects = k
    BY <1>2, <1>3, <2>2 DEF RecordRow, MeasurementRows, MeasurementIds
  <2>4. PICK n : n = Len(measurements) + 1
    OBVIOUS
  <2>5. measurements' = Append(base, row)
    BY <1>4, <1>6
  <2>6. /\ measurements' \in Seq(MeasurementRows) /\ Len(measurements') = n
        /\ DOMAIN measurements' = 1 .. n /\ measurements'[n] = row
        /\ \A i \in DOMAIN measurements : measurements'[i] = base[i]
    BY <2>1, <2>2, <2>3, <2>4, <2>5, AppendedEntry
  <2>7. \A i \in DOMAIN measurements' : i = n \/ i \in DOMAIN measurements
    BY <2>2, <2>4, <2>6
  <2>8. \A i \in DOMAIN measurements :
          /\ measurements'[i].dataset = measurements[i].dataset
          /\ measurements'[i].no = measurements[i].no
          /\ measurements'[i].corrects = measurements[i].corrects
          /\ ~measurements[i].valid => ~measurements'[i].valid
    BY <2>1, <2>6
  <2>9. NumbersUnique'
    <3>1. \A i \in DOMAIN measurements : measurements[i].dataset = d => measurements[i].no # no
      BY <1>6 DEF Numbers, RecordsOf
    <3>2. NumbersUnique
      BY DEF StudiesInv, StudyTablesInv, StudiesSound
    <3>. QED
      BY <2>3, <2>6, <2>7, <2>8, <3>1, <3>2 DEF NumbersUnique, MeasurementIds
  <2>10. CorrectedInvalid'
    <3>1. ASSUME NEW i \in DOMAIN measurements', measurements'[i].corrects # 0
          PROVE  /\ measurements'[i].corrects \in 1..(i - 1)
                 /\ ~measurements'[measurements'[i].corrects].valid
                 /\ measurements'[measurements'[i].corrects].dataset = measurements'[i].dataset
      <4>1. CASE i = n
        <5>1. k # 0 /\ k \in DOMAIN measurements
          BY <1>2, <2>3, <2>6, <3>1, <4>1 DEF MeasurementIds
        <5>. QED
          BY <1>2, <2>1, <2>2, <2>3, <2>4, <2>6, <2>8, <4>1, <5>1
      <4>2. CASE i \in DOMAIN measurements
        <5>1. PICK m : m = measurements[i].corrects
          OBVIOUS
        <5>2. /\ m \in 1..(i - 1) /\ ~measurements[m].valid
              /\ measurements[m].dataset = measurements[i].dataset
          BY <2>8, <3>1, <4>2, <5>1
             DEF StudiesInv, StudyTablesInv, StudiesSound, CorrectedInvalid, MeasurementIds
        <5>3. m \in DOMAIN measurements
          BY <2>2, <4>2, <5>2
        <5>. QED
          BY <2>8, <3>1, <4>2, <5>1, <5>2, <5>3
      <4>. QED
        BY <2>7, <4>1, <4>2
    <3>. QED
      BY <3>1 DEF CorrectedInvalid, MeasurementIds
  <2>11. Len(measurements') <= MaxRecords /\ datasets' \in [Datasets -> DatasetRows]
    BY <1>4, <2>2, <2>4, <2>6, StudiesAssumption DEF StudiesInv, StudyTablesInv
  <2>12. DOMAIN measurements \subseteq DOMAIN measurements'
    BY <2>2, <2>4, <2>6
  <2>. QED
    BY <1>4, <2>6, <2>8, <2>9, <2>10, <2>11, <2>12, MeasurementsWritten
<1>. QED
  BY <1>5, <1>6

LEMMA ImportRowsStep ==
  ASSUME StudiesInv, NEW t \in Threads, ImportRows(t)
  PROVE  StudiesInv'
<1>. DEFINE d == calls[t].dataset
            file == calls[t].file
            first == calls[t].no
            no == RowNumbers(file, first, Numbers(d))
            rows == [i \in DOMAIN no |-> RecordRow(d, no[i], 0)]
<1>1. no = RowNumbers(file, first, Numbers(d))
  OBVIOUS
<1>2. d \in Datasets /\ file \in CsvFiles /\ first \in Nat
  BY StudyCallFields DEF StudiesInv, StudyCallsInv, ImportRows, At
<1>3. rows = [i \in DOMAIN no |-> RecordRow(d, no[i], 0)]
  OBVIOUS
<1>4. /\ Finish(t) /\ studies' = studies
      /\ IF \E i \in DOMAIN no : no[i] \in Numbers(d) \cup {no[j] : j \in 1..(i - 1)}
           THEN UNCHANGED <<datasets, measurements>>
           ELSE /\ Len(measurements) + Len(file) <= MaxRecords
                /\ measurements' = measurements \o rows
                /\ datasets' = [datasets EXCEPT ![d].checksum = file, ![d].version = @ + 1]
  BY Zenon DEF ImportRows
<1>. HIDE DEF d, file, first, no, rows
<1>5. CASE \E i \in DOMAIN no : no[i] \in Numbers(d) \cup {no[j] : j \in 1..(i - 1)}
  <2>1. UNCHANGED studyTables
    BY <1>4, <1>5 DEF studyTables
  <2>. QED
    BY <1>4, <2>1, StudyRefused
<1>6. CASE ~ \E i \in DOMAIN no : no[i] \in Numbers(d) \cup {no[j] : j \in 1..(i - 1)}
  <2>1. PICK old, n : old = Len(measurements) /\ n = Len(file)
    OBVIOUS
  <2>2. /\ old \in Nat /\ DOMAIN measurements = 1 .. old
        /\ measurements \in Seq(MeasurementRows)
    BY <2>1, MeasurementsTyped
  <2>3. file \in Seq(Nat) /\ n \in Nat /\ DOMAIN file = 1 .. n
    BY <1>2, <2>1, StudiesAssumption, LenProperties
  <2>4. DOMAIN no = 1 .. n /\ \A i \in 1 .. n : no[i] \in Nat
    <3>1. PICK used : used = Numbers(d)
      OBVIOUS
    <3>2. measurements \in Seq(MeasurementRows)
      BY MeasurementsTyped
    <3>3. used \in SUBSET Nat /\ \E b \in Nat : \A m \in used : m <= b
      BY <3>1, <3>2, DatasetNumbers
    <3>4. no = RowNumbers(file, first, used)
      BY <1>1, <3>1
    <3>5. DOMAIN no = DOMAIN file /\ \A i \in DOMAIN file : no[i] \in Nat
      BY <1>2, <2>3, <3>3, <3>4, RowNumbersTyped
    <3>. QED
      BY <2>3, <3>5
  <2>5. \A i \in 1 .. n : /\ rows[i] \in MeasurementRows /\ rows[i].dataset = d
                          /\ rows[i].no = no[i] /\ rows[i].corrects = 0
    BY <1>2, <1>3, <2>4 DEF RecordRow, MeasurementRows
  <2>6. rows \in Seq(MeasurementRows) /\ Len(rows) = n
    <3>1. rows = [i \in 1 .. n |-> rows[i]]
      BY <1>3, <2>4
    <3>2. rows \in [1 .. n -> MeasurementRows]
      BY <2>5, <3>1
    <3>. QED
      BY <2>3, <3>2, IsASeq, LenProperties
  <2>7. /\ measurements' = measurements \o rows /\ old + n <= MaxRecords
        /\ datasets' = [datasets EXCEPT ![d].checksum = file, ![d].version = @ + 1]
    BY <1>4, <1>6, <2>1
  <2>8. /\ measurements' \in Seq(MeasurementRows) /\ Len(measurements') = old + n
        /\ \A i \in 1 .. old + n :
             measurements'[i] = IF i <= old THEN measurements[i] ELSE rows[i - old]
    <3>1. /\ measurements \o rows \in Seq(MeasurementRows)
          /\ Len(measurements \o rows) = Len(measurements) + Len(rows)
          /\ \A i \in 1 .. Len(measurements) + Len(rows) :
               (measurements \o rows)[i] =
                 IF i <= Len(measurements) THEN measurements[i] ELSE rows[i - Len(measurements)]
      BY <2>2, <2>6, ConcatProperties
    <3>. QED
      BY <2>1, <2>6, <2>7, <3>1
  <2>9. DOMAIN measurements' = 1 .. old + n
    BY <2>8, LenProperties
  <2>10. \A i \in 1 .. old : i \in 1 .. old + n /\ measurements'[i] = measurements[i]
    BY <2>2, <2>3, <2>8
  <2>11. \A i \in 1 .. old + n :
           i \in 1 .. old \/ (i - old \in 1 .. n /\ measurements'[i] = rows[i - old])
    BY <2>2, <2>3, <2>8
  <2>12. NumbersUnique'
    <3>1. \A m \in 1 .. n : no[m] \notin Numbers(d) /\ \A j \in 1 .. (m - 1) : no[m] # no[j]
      BY <1>6, <2>4
    <3>2. \A i \in 1 .. old : measurements[i].dataset = d => measurements[i].no \in Numbers(d)
      BY <2>2 DEF Numbers, RecordsOf
    <3>3. \A i, k \in 1 .. old : /\ measurements[i].dataset = measurements[k].dataset
                                 /\ measurements[i].no = measurements[k].no
                                 => i = k
      BY <2>2 DEF StudiesInv, StudyTablesInv, StudiesSound, NumbersUnique, MeasurementIds
    <3>4. \A m, l \in 1 .. n : no[m] = no[l] => m = l
      <4>1. \A m, l \in 1 .. n : m = l \/ l \in 1 .. (m - 1) \/ m \in 1 .. (l - 1)
        BY <2>3
      <4>. QED
        BY <3>1, <4>1
    <3>5. ASSUME NEW i \in 1 .. old + n, NEW k \in 1 .. old + n,
                 measurements'[i].dataset = measurements'[k].dataset,
                 measurements'[i].no = measurements'[k].no
          PROVE  i = k
      <4>1. CASE i \in 1 .. old /\ k \in 1 .. old
        BY <2>10, <3>3, <3>5, <4>1
      <4>2. CASE i \in 1 .. old /\ k \notin 1 .. old
        <5>1. k - old \in 1 .. n /\ measurements'[k] = rows[k - old]
          BY <2>11, <4>2
        <5>2. measurements[i].dataset = d /\ measurements[i].no = no[k - old]
          BY <2>5, <2>10, <3>5, <4>2, <5>1
        <5>. QED
          BY <3>1, <3>2, <4>2, <5>1, <5>2
      <4>3. CASE i \notin 1 .. old /\ k \in 1 .. old
        <5>1. i - old \in 1 .. n /\ measurements'[i] = rows[i - old]
          BY <2>11, <4>3
        <5>2. measurements[k].dataset = d /\ measurements[k].no = no[i - old]
          BY <2>5, <2>10, <3>5, <4>3, <5>1
        <5>. QED
          BY <3>1, <3>2, <4>3, <5>1, <5>2
      <4>4. CASE i \notin 1 .. old /\ k \notin 1 .. old
        <5>1. /\ i - old \in 1 .. n /\ measurements'[i] = rows[i - old]
              /\ k - old \in 1 .. n /\ measurements'[k] = rows[k - old]
          BY <2>11, <4>4
        <5>2. i - old = k - old
          BY <2>5, <3>4, <3>5, <5>1
        <5>. QED
          BY <2>2, <2>3, <5>2
      <4>. QED
        BY <4>1, <4>2, <4>3, <4>4
    <3>. QED
      BY <2>9, <3>5 DEF NumbersUnique, MeasurementIds
  <2>13. CorrectedInvalid'
    <3>1. ASSUME NEW i \in 1 .. old + n, measurements'[i].corrects # 0
          PROVE  /\ measurements'[i].corrects \in 1..(i - 1)
                 /\ ~measurements'[measurements'[i].corrects].valid
                 /\ measurements'[measurements'[i].corrects].dataset = measurements'[i].dataset
      <4>1. i \in 1 .. old
        BY <2>5, <2>11, <3>1
      <4>2. PICK m : m = measurements[i].corrects
        OBVIOUS
      <4>3. /\ m \in 1..(i - 1) /\ ~measurements[m].valid
            /\ measurements[m].dataset = measurements[i].dataset
        BY <2>2, <2>10, <3>1, <4>1, <4>2
           DEF StudiesInv, StudyTablesInv, StudiesSound, CorrectedInvalid, MeasurementIds
      <4>4. m \in 1 .. old
        BY <2>2, <4>1, <4>3
      <4>. QED
        BY <2>10, <4>1, <4>2, <4>3, <4>4
    <3>. QED
      BY <2>9, <3>1 DEF CorrectedInvalid, MeasurementIds
  <2>14. datasets' \in [Datasets -> DatasetRows]
    <3>1. datasets \in [Datasets -> DatasetRows]
      BY DEF StudiesInv, StudyTablesInv
    <3>2. [datasets[d] EXCEPT !.checksum = file, !.version = @ + 1] \in DatasetRows
      <4>1. datasets[d] \in DatasetRows
        BY <1>2, <3>1
      <4>2. PICK version \in Nat : version = datasets[d].version + 1
        BY <4>1 DEF DatasetRows
      <4>3. [datasets[d] EXCEPT !.checksum = file, !.version = version] \in DatasetRows
        BY <1>2, <4>1 DEF DatasetRows
      <4>. QED
        BY <4>2, <4>3
    <3>3. datasets' = [datasets EXCEPT
            ![d] = [datasets[d] EXCEPT !.checksum = file, !.version = @ + 1]]
      BY <1>2, <2>7, <3>1 DEF DatasetRows
    <3>. QED
      BY <3>1, <3>2, <3>3
  <2>15. Len(measurements') <= MaxRecords /\ DOMAIN measurements \subseteq DOMAIN measurements'
    BY <2>2, <2>3, <2>7, <2>8, <2>9
  <2>16. \A i \in DOMAIN measurements : measurements'[i].dataset = measurements[i].dataset
    BY <2>2, <2>10
  <2>. QED
    BY <1>4, <2>8, <2>12, <2>13, <2>14, <2>15, <2>16, MeasurementsWritten
<1>. QED
  BY <1>5, <1>6

LEMMA StudiesNextKeeps ==
  ASSUME StudiesInv, [StudiesNext]_studyVars
  PROVE  StudiesInv'
<1>1. CASE UNCHANGED studyVars
  <2>1. UNCHANGED studyTables /\ calls' = calls
    BY <1>1 DEF studyVars, studyTables
  <2>2. StudyTablesInv'
    BY <2>1, StudyTablesStay
  <2>3. \A u \in Threads : StudyKnown(calls[u])'
    BY <2>1 DEF StudiesInv, StudyCallsInv, StudyKnown, Measured, MeasurementIds, studyTables
  <2>4. calls' \in [Threads -> StudyCalls']
    BY <2>1 DEF StudiesInv, StudyCallsInv, StudyCalls, MeasurementIds, studyTables
  <2>. QED
    BY <2>2, <2>3, <2>4 DEF StudiesInv, StudyCallsInv
<1>2. ASSUME NEW t \in Threads, StudyStep(t)
      PROVE  StudiesInv'
  BY <1>2, FirstReads, ReadStudyStep, CompleteSteps, ReadDatasetStep, SecondReads,
     NumberRecordStep, NumberImportStep, InsertStudyStep, WriteStudyStep, PatchSteps,
     InsertDatasetStep, InsertRecordStep, InvalidateRecordStep, ImportRowsStep DEF StudyStep
<1>3. ASSUME NEW t \in Threads, Leave(t), UNCHANGED studyTables
      PROVE  StudiesInv'
  BY <1>3, StudyRefused DEF Leave
<1>. QED
  BY <1>1, <1>2, <1>3 DEF StudiesNext

LEMMA StudiesInitially ==
  ASSUME InitCalls, StudiesInit
  PROVE  StudiesInv
<1>1. measurements = <<>> /\ DOMAIN measurements = {} /\ Len(measurements) = 0
  BY DEF StudiesInit
<1>2. \A s \in Studies : studies[s] = [status |-> "absent", creator |-> None,
                                       approver |-> None, notes |-> None]
  BY DEF StudiesInit
<1>3. studies \in [Studies -> StudyRows] /\ datasets \in [Datasets -> DatasetRows]
  <2>1. "absent" \in StudyStatuses
    BY DEF StudyStatuses, StudyTransitions
  <2>. QED
    BY <2>1 DEF StudiesInit, StudyRows, DatasetRows
<1>4. StudiesSound /\ AbsentUnapproved
  BY <1>1, <1>2 DEF StudiesSound, ReviewedMeasured, ApprovedByAnother, CorrectedInvalid,
                    NumbersUnique, AbsentUnapproved, MeasurementIds
<1>5. StudyTablesInv
  BY <1>1, <1>3, <1>4, StudiesAssumption, EmptySeq DEF StudyTablesInv
<1>6. calls \in [Threads -> StudyCalls] /\ \A t \in Threads : StudyKnown(calls[t])
  BY IdleStudyCall DEF InitCalls
<1>. QED
  BY <1>5, <1>6 DEF StudiesInv, StudyCallsInv

\* Every row of the validation studies and every request has its type, for any
\* studies, files, users and threads.
THEOREM StudiesTypeCorrect == StudiesSpec => []StudiesTypeOK
<1>1. InitCalls /\ StudiesInit => StudiesInv
  BY StudiesInitially
<1>2. StudiesInv /\ [StudiesNext]_studyVars => StudiesInv'
  BY StudiesNextKeeps
<1>3. StudiesInv => StudiesTypeOK
  BY DEF StudiesInv, StudyTablesInv, StudyCallsInv, StudiesTypeOK, MeasurementRows
<1>. QED
  BY <1>1, <1>2, <1>3, PTL DEF StudiesSpec

\* A study is completed, reviewed and approved on measurements, and approved by
\* another than its author; a corrected measurement never counts again; and no two
\* measurements of a dataset share a number - although every handler checks on one
\* connection and writes on another (production_validation/service.py).
THEOREM StudiesAlwaysSound == StudiesSpec => []StudiesSound
<1>1. InitCalls /\ StudiesInit => StudiesInv
  BY StudiesInitially
<1>2. StudiesInv /\ [StudiesNext]_studyVars => StudiesInv'
  BY StudiesNextKeeps
<1>3. StudiesInv => StudiesSound
  BY DEF StudiesInv, StudyTablesInv
<1>. QED
  BY <1>1, <1>2, <1>3, PTL DEF StudiesSpec

(* ---- Data releases and calculation records ---- *)

(* ---- The inductive invariant. ---- *)

\* What a set of versions has to be, for a certificate that names it.
OnePerDataset(vs) == \A v, w \in vs : DatasetOf(v) = DatasetOf(w) => v = w

ValidOnly(vs) == \A v \in vs : packages[versions[v].package].content \in ValidContents

AllPassed(n) == \A g \in 1 .. n : golden[g]

\* Only packages of the highest confidence have versions.
VersionsConfident ==
  \A v \in DOMAIN versions : packages[versions[v].package].confidence = 4

\* The cases a certificate counted are still there.
CertifiedCasesKept == \A c \in DOMAIN certificates : certificates[c].total <= Len(golden)

ReleaseTablesInv ==
  /\ packages \in Seq(PackageRows)
  /\ versions \in Seq(VersionRows)
  /\ golden \in Seq(BOOLEAN)
  /\ certificates \in Seq(CertificateRows)
  /\ VersionsConfident
  /\ ApprovedHaveVersions
  /\ OneActivePerDataset
  /\ CertifiedCasesKept
  /\ CertificatesSound

\* An item that says its revision is approved rests on a locked one.
ItemTrue(x) ==
  x.approved =>
    /\ x.revision \in DOMAIN calcRevisions
    /\ calcRevisions[x.revision].calc = x.calc
    /\ calcRevisions[x.revision].locked

ApprovedLocked ==
  \A i \in DOMAIN calcRevisions :
    calcRevisions[i].status = "approved" => calcRevisions[i].locked

ReadyItemsTrue ==
  \A r \in DOMAIN releases : releases[r].ready =>
    \A x \in releases[r].items : x.approved /\ ItemTrue(x)

CalculationTablesInv ==
  /\ owner \in [CalcIds -> Users \cup {None}]
  /\ traces \subseteq CalcIds \X DOMAIN versions
  /\ calcRevisions \in Seq(CalcRevisionRows)
  /\ releases \in Seq([items : SUBSET Items, ready : BOOLEAN])
  /\ LockedWasReviewed
  /\ ApprovedLocked
  /\ ReadyItemsTrue

RecordCalls == CalculationCalls \cup ReleaseCalls

\* What a request still knows of rows it has read.
RecordKnown(c) ==
  /\ c.at \in {"cert_packages", "cert_golden", "cert_insert"} => OnePerDataset(c.active)
  /\ c.at \in {"cert_golden", "cert_insert"} => (c.quality => ValidOnly(c.active))
  /\ c.at = "cert_insert" =>
       c.total <= Len(golden) /\ (c.passed = c.total => AllPassed(c.total))
  /\ c.at = "release_read" => \A x \in c.items : ItemTrue(x)

RecordCallsInv ==
  /\ calls \in [Threads -> RecordCalls]
  /\ \A t \in Threads : RecordKnown(calls[t])

RecordsInv == ReleaseTablesInv /\ CalculationTablesInv /\ RecordCallsInv

CertificateSteps == {"cert_packages", "cert_golden", "cert_insert"}

\* What the place of a call says about its fields.
LEMMA RecordCallFields ==
  ASSUME NEW c \in RecordCalls
  PROVE  /\ c.at = "package_insert" => c.upload \in Uploads
         /\ c.at = "version_activate" => c.version \in DOMAIN versions
         /\ c.at \in CertificateSteps => c.active \in SUBSET DOMAIN versions
         /\ c.at \in {"cert_golden", "cert_insert"} => c.quality \in BOOLEAN
         /\ c.at = "cert_insert" => c.total \in Nat /\ c.passed \in Nat
         /\ c.at \in {"trace_read", "trace_insert"} => c.calc \in CalcIds
         /\ c.at = "trace_insert" => c.active \in SUBSET DOMAIN versions
         /\ c.at \in {"crev_locked", "crev_number", "crev_insert"} =>
              c.calc \in CalcIds /\ c.user \in Users /\ c.no \in Nat
         /\ c.at = "crev_submit" => c.row \in DOMAIN calcRevisions
         /\ c.at = "release_read" => c.left \in SUBSET CalcIds /\ c.items \in SUBSET Items
BY DEF RecordCalls, CalculationCalls, ReleaseCalls, CertificateSteps, Idle

(* ---- What a step must keep for the requests that do not take it. ---- *)

PackagesStay ==
  /\ DOMAIN packages \subseteq DOMAIN packages'
  /\ \A p \in DOMAIN packages : /\ packages'[p].dataset = packages[p].dataset
                                /\ packages'[p].content = packages[p].content
                                /\ packages'[p].confidence = packages[p].confidence

VersionsStay ==
  /\ DOMAIN versions \subseteq DOMAIN versions'
  /\ \A v \in DOMAIN versions : versions'[v].package = versions[v].package

GoldenStay ==
  /\ Len(golden') \in Nat /\ Len(golden) <= Len(golden')
  /\ \A g \in DOMAIN golden : golden'[g] = golden[g]

RevisionsStay ==
  /\ Len(calcRevisions') \in Nat /\ Len(calcRevisions) <= Len(calcRevisions')
  /\ DOMAIN calcRevisions \subseteq DOMAIN calcRevisions'
  /\ \A i \in DOMAIN calcRevisions :
       /\ calcRevisions'[i].calc = calcRevisions[i].calc
       /\ calcRevisions[i].locked => calcRevisions'[i].locked

RecordsStay == PackagesStay /\ VersionsStay /\ GoldenStay /\ RevisionsStay

\* The tables, position by position.
LEMMA ReleaseRows ==
  ASSUME ReleaseTablesInv
  PROVE  /\ Len(packages) \in Nat /\ DOMAIN packages = 1 .. Len(packages)
         /\ \A p \in DOMAIN packages : packages[p] \in PackageRows
         /\ Len(versions) \in Nat /\ DOMAIN versions = 1 .. Len(versions)
         /\ \A v \in DOMAIN versions : /\ versions[v] \in VersionRows
                                       /\ versions[v].package \in DOMAIN packages
                                       /\ DatasetOf(v) \in Required
         /\ Len(golden) \in Nat /\ DOMAIN golden = 1 .. Len(golden)
         /\ \A g \in DOMAIN golden : golden[g] \in BOOLEAN
         /\ Len(certificates) \in Nat /\ DOMAIN certificates = 1 .. Len(certificates)
         /\ \A c \in DOMAIN certificates : certificates[c] \in CertificateRows
<1>1. /\ Len(packages) \in Nat /\ DOMAIN packages = 1 .. Len(packages)
      /\ \A p \in DOMAIN packages : packages[p] \in PackageRows
  BY LenProperties, ElementOfSeq DEF ReleaseTablesInv
<1>2. /\ Len(versions) \in Nat /\ DOMAIN versions = 1 .. Len(versions)
      /\ \A v \in DOMAIN versions : versions[v] \in VersionRows
  BY LenProperties, ElementOfSeq DEF ReleaseTablesInv
<1>3. \A v \in DOMAIN versions : versions[v].package \in DOMAIN packages
  BY <1>2 DEF VersionRows
<1>4. \A v \in DOMAIN versions : DatasetOf(v) \in Required
  BY <1>1, <1>3 DEF PackageRows, DatasetOf
<1>5. /\ Len(golden) \in Nat /\ DOMAIN golden = 1 .. Len(golden)
      /\ \A g \in DOMAIN golden : golden[g] \in BOOLEAN
  BY LenProperties, ElementOfSeq DEF ReleaseTablesInv
<1>6. /\ Len(certificates) \in Nat /\ DOMAIN certificates = 1 .. Len(certificates)
      /\ \A c \in DOMAIN certificates : certificates[c] \in CertificateRows
  BY LenProperties, ElementOfSeq DEF ReleaseTablesInv
<1>. QED
  BY <1>1, <1>2, <1>3, <1>4, <1>5, <1>6

LEMMA CalculationRows ==
  ASSUME CalculationTablesInv
  PROVE  /\ Len(calcRevisions) \in Nat /\ DOMAIN calcRevisions = 1 .. Len(calcRevisions)
         /\ \A i \in DOMAIN calcRevisions : calcRevisions[i] \in CalcRevisionRows
BY LenProperties, ElementOfSeq DEF CalculationTablesInv

\* The data set and the content of a version never change.
LEMMA VersionFactsStay ==
  ASSUME ReleaseTablesInv, PackagesStay, VersionsStay, NEW v \in DOMAIN versions
  PROVE  /\ v \in DOMAIN versions' /\ DatasetOf(v)' = DatasetOf(v)
         /\ packages'[versions'[v].package].content = packages[versions[v].package].content
         /\ packages'[versions'[v].package].confidence
              = packages[versions[v].package].confidence
<1>1. versions'[v].package = versions[v].package /\ versions[v].package \in DOMAIN packages
  BY ReleaseRows DEF VersionsStay
<1>. QED
  BY <1>1 DEF PackagesStay, VersionsStay, DatasetOf

LEMMA ItemsStay ==
  ASSUME RevisionsStay, NEW x, ItemTrue(x)
  PROVE  ItemTrue(x)'
BY DEF ItemTrue, RevisionsStay

LEMMA RecordCallsGrow ==
  ASSUME CalculationTablesInv, RecordsStay, NEW c \in RecordCalls
  PROVE  c \in RecordCalls'
<1>1. DOMAIN versions \subseteq DOMAIN versions' /\ DOMAIN calcRevisions \subseteq DOMAIN calcRevisions'
  BY DEF RecordsStay, VersionsStay, RevisionsStay
<1>2. 0..Len(calcRevisions) \subseteq 0..Len(calcRevisions')
  BY CalculationRows DEF RecordsStay, RevisionsStay
<1>3. Items \subseteq Items'
  BY <1>1, <1>2 DEF Items
<1>4. ReleaseCalls \subseteq ReleaseCalls'
  BY <1>1 DEF ReleaseCalls
<1>5. CalculationCalls \subseteq CalculationCalls'
  BY <1>1, <1>3 DEF CalculationCalls
<1>. QED
  BY <1>4, <1>5 DEF RecordCalls

LEMMA RecordKnownStays ==
  ASSUME ReleaseTablesInv, RecordsStay, NEW c \in RecordCalls, RecordKnown(c)
  PROVE  RecordKnown(c)'
<1>1. ASSUME c.at \in CertificateSteps
      PROVE  /\ OnePerDataset(c.active)'
             /\ ValidOnly(c.active) => ValidOnly(c.active)'
  <2>1. OnePerDataset(c.active) /\ c.active \in SUBSET DOMAIN versions
    BY <1>1, RecordCallFields DEF RecordKnown, CertificateSteps
  <2>2. \A v \in c.active :
          /\ DatasetOf(v)' = DatasetOf(v)
          /\ packages'[versions'[v].package].content = packages[versions[v].package].content
    BY <2>1, VersionFactsStay DEF RecordsStay
  <2>3. OnePerDataset(c.active)'
    BY <2>1, <2>2 DEF OnePerDataset
  <2>. QED
    BY <2>2, <2>3 DEF ValidOnly
<1>2. ASSUME c.at = "cert_insert"
      PROVE  c.total <= Len(golden') /\ (c.passed = c.total => AllPassed(c.total)')
  <2>1. /\ c.total \in Nat /\ c.total <= Len(golden) /\ (c.passed = c.total => AllPassed(c.total))
        /\ Len(golden) \in Nat /\ DOMAIN golden = 1 .. Len(golden)
    BY <1>2, RecordCallFields, ReleaseRows DEF RecordKnown
  <2>2. \A g \in 1 .. c.total : golden'[g] = golden[g]
    BY <2>1 DEF RecordsStay, GoldenStay
  <2>3. c.total <= Len(golden')
    <3>1. Len(golden') \in Nat /\ Len(golden) <= Len(golden')
      BY DEF RecordsStay, GoldenStay
    <3>. QED
      BY <2>1, <3>1
  <2>. QED
    BY <2>1, <2>2, <2>3 DEF AllPassed
<1>3. c.at = "release_read" => \A x \in c.items : ItemTrue(x)'
  BY ItemsStay DEF RecordKnown, RecordsStay
<1>. QED
  BY <1>1, <1>2, <1>3 DEF RecordKnown, CertificateSteps

LEMMA OneRecordCallMoves ==
  ASSUME ReleaseTablesInv, CalculationTablesInv, RecordCallsInv, RecordsStay,
         NEW t \in Threads, NEW c, Goto(t, c), c \in RecordCalls', RecordKnown(c)'
  PROVE  RecordCallsInv'
<1>1. calls' = [calls EXCEPT ![t] = c] /\ calls \in [Threads -> RecordCalls]
  BY DEF Goto, RecordCallsInv
<1>2. /\ calls' \in [Threads -> RecordCalls']
      /\ calls'[t] = c
      /\ \A u \in Threads \ {t} : calls'[u] = calls[u]
  BY <1>1, RecordCallsGrow
<1>3. ASSUME NEW u \in Threads
      PROVE  RecordKnown(calls[u])'
  <2>1. PICK d : d = calls'[u]
    OBVIOUS
  <2>2. RecordKnown(d)'
    <3>1. CASE u = t
      BY <1>2, <2>1, <3>1
    <3>2. CASE u # t
      BY <1>2, <2>1, <3>2, RecordKnownStays DEF RecordCallsInv
    <3>. QED
      BY <3>1, <3>2
  <2>. QED
    BY <2>1, <2>2 DEF RecordKnown, OnePerDataset, ValidOnly, AllPassed, ItemTrue, DatasetOf
<1>. QED
  BY <1>2, <1>3 DEF RecordCallsInv

LEMMA RecordCallsUntouched ==
  ASSUME ReleaseTablesInv, CalculationTablesInv, RecordCallsInv, RecordsStay, calls' = calls
  PROVE  RecordCallsInv'
<1>1. calls \in [Threads -> RecordCalls]
  BY DEF RecordCallsInv
<1>2. calls' \in [Threads -> RecordCalls']
  BY <1>1, RecordCallsGrow
<1>3. ASSUME NEW u \in Threads
      PROVE  RecordKnown(calls[u])'
  <2>1. PICK d : d = calls[u]
    OBVIOUS
  <2>2. RecordKnown(d)'
    BY <1>1, <2>1, RecordKnownStays DEF RecordCallsInv
  <2>. QED
    BY <2>1, <2>2 DEF RecordKnown, OnePerDataset, ValidOnly, AllPassed, ItemTrue, DatasetOf
<1>. QED
  BY <1>2, <1>3 DEF RecordCallsInv

LEMMA IdleRecordCall == Idle \in RecordCalls /\ RecordKnown(Idle)
BY DEF RecordCalls, CalculationCalls, RecordKnown, Idle

LEMMA IdleRecordCallAfter == Idle \in RecordCalls' /\ RecordKnown(Idle)'
BY DEF RecordCalls, CalculationCalls, RecordKnown, Idle

\* A step that nothing of the other tables sees.
LEMMA ReleaseTablesUntouched ==
  ASSUME ReleaseTablesInv, UNCHANGED releaseTables
  PROVE  ReleaseTablesInv' /\ PackagesStay /\ VersionsStay /\ GoldenStay
<1>1. /\ packages' = packages /\ versions' = versions
      /\ golden' = golden /\ certificates' = certificates
  BY DEF releaseTables
<1>2. PackagesStay /\ VersionsStay /\ GoldenStay
  BY <1>1, ReleaseRows DEF PackagesStay, VersionsStay, GoldenStay
<1>3. ApprovedHaveVersions' /\ OneActivePerDataset'
  BY <1>1 DEF ReleaseTablesInv, ApprovedHaveVersions, OneActivePerDataset, VersionsOf,
              ActiveVersions, DatasetOf
<1>4. CertificatesSound' /\ CertifiedCasesKept' /\ VersionsConfident'
  BY <1>1 DEF ReleaseTablesInv, CertificatesSound, CertifiedCasesKept, VersionsConfident,
              DatasetOf
<1>5. /\ packages' \in Seq(PackageRows) /\ versions' \in Seq(VersionRows')
      /\ golden' \in Seq(BOOLEAN) /\ certificates' \in Seq(CertificateRows')
  BY <1>1 DEF ReleaseTablesInv, VersionRows, CertificateRows
<1>. QED
  BY <1>2, <1>3, <1>4, <1>5 DEF ReleaseTablesInv

LEMMA ItemsGrow ==
  ASSUME DOMAIN versions \subseteq DOMAIN versions', Len(calcRevisions) \in Nat,
         Len(calcRevisions') \in Nat, Len(calcRevisions) <= Len(calcRevisions')
  PROVE  Items \subseteq Items'
BY DEF Items

LEMMA CalculationTablesUntouched ==
  ASSUME CalculationTablesInv, UNCHANGED calculationTables,
         DOMAIN versions \subseteq DOMAIN versions'
  PROVE  CalculationTablesInv' /\ RevisionsStay
<1>1. /\ owner' = owner /\ traces' = traces
      /\ calcRevisions' = calcRevisions /\ releases' = releases
  BY DEF calculationTables
<1>2. RevisionsStay
  BY <1>1, CalculationRows DEF RevisionsStay
<1>3. LockedWasReviewed' /\ ApprovedLocked' /\ ReadyItemsTrue'
  BY <1>1 DEF CalculationTablesInv, LockedWasReviewed, ApprovedLocked, ReadyItemsTrue, ItemTrue
<1>4. releases' \in Seq([items : SUBSET Items', ready : BOOLEAN])
  <2>. DEFINE S == [items : SUBSET Items, ready : BOOLEAN]
              T == [items : SUBSET Items', ready : BOOLEAN]
  <2>1. releases \in Seq(S)
    BY DEF CalculationTablesInv
  <2>2. Items \subseteq Items'
    BY <1>1, CalculationRows, ItemsGrow
  <2>3. S \subseteq T
    BY <2>2
  <2>. HIDE DEF S, T
  <2>4. releases \in Seq(T)
    BY <2>1, <2>3, SeqMonotonic
  <2>. QED
    BY <1>1, <2>4 DEF T
<1>5. /\ owner' \in [CalcIds -> Users \cup {None}]
      /\ traces' \subseteq CalcIds \X DOMAIN versions'
      /\ calcRevisions' \in Seq(CalcRevisionRows)
  BY <1>1 DEF CalculationTablesInv
<1>. QED
  BY <1>2, <1>3, <1>4, <1>5 DEF CalculationTablesInv

LEMMA RecordTablesUntouched ==
  ASSUME RecordsInv, UNCHANGED <<releaseTables, calculationTables>>
  PROVE  ReleaseTablesInv' /\ CalculationTablesInv' /\ RecordsStay
<1>1. UNCHANGED releaseTables /\ UNCHANGED calculationTables
  OBVIOUS
<1>2. DOMAIN versions \subseteq DOMAIN versions'
  BY <1>1 DEF releaseTables
<1>. QED
  BY <1>1, <1>2, ReleaseTablesUntouched, CalculationTablesUntouched DEF RecordsInv, RecordsStay

\* A step that only reads leaves a call that knows what it needs.
LEMMA RecordReadOnly ==
  ASSUME RecordsInv, UNCHANGED releaseTables, UNCHANGED calculationTables,
         NEW t \in Threads, NEW c \in RecordCalls, Goto(t, c), RecordKnown(c)
  PROVE  RecordsInv'
<1>1. ReleaseTablesInv' /\ CalculationTablesInv' /\ RecordsStay
  BY RecordTablesUntouched
<1>2. c \in RecordCalls' /\ RecordKnown(c)'
  BY <1>1, RecordCallsGrow, RecordKnownStays DEF RecordsInv
<1>. QED
  BY <1>1, <1>2, OneRecordCallMoves DEF RecordsInv

\* A write to the release tables after which the request is over, or that no
\* request had to read anything for.
LEMMA ReleaseWrite ==
  ASSUME RecordsInv, UNCHANGED calculationTables, ReleaseTablesInv',
         PackagesStay, VersionsStay, GoldenStay,
         NEW t \in Threads, Finish(t) \/ calls' = calls
  PROVE  RecordsInv'
<1>1. CalculationTablesInv' /\ RevisionsStay
  BY CalculationTablesUntouched DEF RecordsInv, VersionsStay
<1>2. RecordsStay
  BY <1>1 DEF RecordsStay
<1>3. RecordCallsInv'
  BY <1>2, IdleRecordCallAfter, OneRecordCallMoves, RecordCallsUntouched DEF RecordsInv, Finish
<1>. QED
  BY <1>1, <1>3 DEF RecordsInv

\* The same for the calculation tables.
LEMMA CalculationWrite ==
  ASSUME RecordsInv, UNCHANGED releaseTables, CalculationTablesInv', RevisionsStay,
         NEW t \in Threads, Finish(t) \/ calls' = calls
  PROVE  RecordsInv'
<1>1. ReleaseTablesInv' /\ PackagesStay /\ VersionsStay /\ GoldenStay
  BY ReleaseTablesUntouched DEF RecordsInv
<1>2. RecordsStay
  BY <1>1 DEF RecordsStay
<1>3. RecordCallsInv'
  BY <1>2, IdleRecordCallAfter, OneRecordCallMoves, RecordCallsUntouched DEF RecordsInv, Finish
<1>. QED
  BY <1>1, <1>3 DEF RecordsInv

\* A call at a step that rests on nothing that was read.
PlainRecordSteps ==
  {"package_insert", "version_activate", "trace_read", "trace_insert", "crev_locked",
   "crev_number", "crev_insert", "crev_submit"}

LEMMA PlainRecordRead ==
  ASSUME RecordsInv, UNCHANGED releaseTables, UNCHANGED calculationTables,
         NEW t \in Threads, NEW c \in RecordCalls, c.at \in PlainRecordSteps, Goto(t, c)
  PROVE  RecordsInv'
<1>1. RecordKnown(c)
  BY DEF RecordKnown, PlainRecordSteps
<1>. QED
  BY <1>1, RecordReadOnly

(* ---- Release steps that only read. ---- *)

LEMMA ReleaseFirstReads ==
  ASSUME RecordsInv, NEW t \in Threads, CheckContent(t) \/ CheckApproved(t),
         UNCHANGED calculationTables
  PROVE  RecordsInv'
<1>1. CASE CheckContent(t)
  <2>1. PICK x \in Uploads : Goto(t, [at |-> "package_insert", upload |-> x])
    BY <1>1 DEF CheckContent
  <2>2. [at |-> "package_insert", upload |-> x] \in RecordCalls
    BY DEF RecordCalls, ReleaseCalls
  <2>3. UNCHANGED releaseTables
    BY <1>1 DEF CheckContent
  <2>. QED
    BY <2>1, <2>2, <2>3, PlainRecordRead DEF PlainRecordSteps
<1>2. CASE CheckApproved(t)
  <2>1. PICK v \in DOMAIN versions : Goto(t, [at |-> "version_activate", version |-> v])
    BY <1>2 DEF CheckApproved
  <2>2. [at |-> "version_activate", version |-> v] \in RecordCalls
    BY DEF RecordCalls, ReleaseCalls
  <2>3. UNCHANGED releaseTables
    BY <1>2 DEF CheckApproved
  <2>. QED
    BY <2>1, <2>2, <2>3, PlainRecordRead DEF PlainRecordSteps
<1>. QED
  BY <1>1, <1>2

\* What is active names every data set at most once.
LEMMA ReadActiveStep ==
  ASSUME RecordsInv, NEW t \in Threads, ReadActive(t), UNCHANGED calculationTables
  PROVE  RecordsInv'
<1>1. PICK c : c = [at |-> "cert_packages", active |-> ActiveVersions]
  OBVIOUS
<1>2. Goto(t, c) /\ UNCHANGED releaseTables
  BY <1>1 DEF ReadActive
<1>3. c \in RecordCalls
  BY <1>1 DEF RecordCalls, ReleaseCalls, ActiveVersions
<1>4. OnePerDataset(ActiveVersions)
  BY DEF RecordsInv, ReleaseTablesInv, OneActivePerDataset, OnePerDataset
<1>5. RecordKnown(c)
  BY <1>1, <1>4 DEF RecordKnown
<1>. QED
  BY <1>2, <1>3, <1>5, RecordReadOnly

\* When every package validates, those of the versions read do.
LEMMA ReadPackagesStep ==
  ASSUME RecordsInv, NEW t \in Threads, ReadPackages(t), UNCHANGED calculationTables
  PROVE  RecordsInv'
<1>1. PICK a : a = calls[t].active
  OBVIOUS
<1>2. PICK q \in BOOLEAN : q = \A p \in DOMAIN packages : packages[p].content \in ValidContents
  BY Zenon
<1>3. a \in SUBSET DOMAIN versions /\ OnePerDataset(a)
  BY <1>1, RecordCallFields
    DEF ReadPackages, At, RecordsInv, RecordCallsInv, RecordKnown, CertificateSteps
<1>4. PICK c : c = [at |-> "cert_golden", active |-> a, quality |-> q]
  OBVIOUS
<1>5. Goto(t, c) /\ UNCHANGED releaseTables
  BY <1>1, <1>2, <1>4, Zenon DEF ReadPackages
<1>6. c \in RecordCalls
  BY <1>2, <1>3, <1>4 DEF RecordCalls, ReleaseCalls
<1>7. q => ValidOnly(a)
  BY <1>2, <1>3, ReleaseRows DEF RecordsInv, ValidOnly
<1>8. RecordKnown(c)
  BY <1>3, <1>4, <1>7 DEF RecordKnown
<1>. QED
  BY <1>5, <1>6, <1>8, RecordReadOnly

\* There are n numbers from 1 to n.
LEMMA FirstNumbers ==
  ASSUME NEW n \in Nat
  PROVE  IsFiniteSet(1 .. n) /\ Cardinality(1 .. n) = n
<1>1. 1 \in Int /\ n \in Int /\ (IF 1 > n THEN 0 ELSE n - 1 + 1) = n
  OBVIOUS
<1>2. IsFiniteSet(1 .. n) /\ Cardinality(1 .. n) = IF 1 > n THEN 0 ELSE n - 1 + 1
  BY <1>1, FS_Interval, Zenon
<1>. QED
  BY <1>1, <1>2

\* When as many cases passed as there are, each of them did.
LEMMA AllCasesPassed ==
  ASSUME ReleaseTablesInv
  PROVE  /\ Cardinality(PassedCases) \in Nat
         /\ Cardinality(PassedCases) = Len(golden) => AllPassed(Len(golden))
<1>1. Len(golden) \in Nat /\ DOMAIN golden = 1 .. Len(golden)
  BY ReleaseRows
<1>2. IsFiniteSet(1 .. Len(golden)) /\ Cardinality(1 .. Len(golden)) = Len(golden)
  BY <1>1, FirstNumbers
<1>3. PassedCases \subseteq 1 .. Len(golden)
  BY <1>1 DEF PassedCases
<1>4. IsFiniteSet(PassedCases)
  BY <1>2, <1>3, FS_Subset
<1>5. Cardinality(PassedCases) \in Nat
  BY <1>4, FS_CardinalityType
<1>6. ASSUME Cardinality(PassedCases) = Len(golden)
      PROVE  AllPassed(Len(golden))
  <2>1. PassedCases = 1 .. Len(golden)
    BY <1>2, <1>3, <1>6, FS_Subset
  <2>. QED
    BY <2>1 DEF PassedCases, AllPassed
<1>. QED
  BY <1>5, <1>6

LEMMA ReadGoldenStep ==
  ASSUME RecordsInv, NEW t \in Threads, ReadGolden(t), UNCHANGED calculationTables
  PROVE  RecordsInv'
<1>1. PICK d : d = calls[t]
  OBVIOUS
<1>2. d \in RecordCalls /\ RecordKnown(d) /\ d.at = "cert_golden"
  BY <1>1 DEF RecordsInv, RecordCallsInv, ReadGolden, At
<1>3. /\ d.active \in SUBSET DOMAIN versions /\ d.quality \in BOOLEAN
      /\ OnePerDataset(d.active) /\ (d.quality => ValidOnly(d.active))
  BY <1>2, RecordCallFields DEF RecordKnown, CertificateSteps
<1>4. PICK c : c = [at |-> "cert_insert", active |-> d.active, quality |-> d.quality,
                    total |-> Len(golden), passed |-> Cardinality(PassedCases)]
  OBVIOUS
<1>5. Goto(t, c) /\ UNCHANGED releaseTables
  BY <1>1, <1>4, Zenon DEF ReadGolden
<1>6. Len(golden) \in Nat
  BY ReleaseRows DEF RecordsInv
<1>7. c \in RecordCalls
  BY <1>3, <1>4, <1>6, AllCasesPassed DEF RecordsInv, RecordCalls, ReleaseCalls
<1>8. RecordKnown(c)
  BY <1>3, <1>4, <1>6, AllCasesPassed DEF RecordsInv, RecordKnown
<1>. QED
  BY <1>5, <1>7, <1>8, RecordReadOnly

(* ---- Release steps that write. ---- *)

\* Certificates stay true while rows are added and none loses what it says.
LEMMA CertificatesStay ==
  ASSUME ReleaseTablesInv, PackagesStay, VersionsStay, GoldenStay, UNCHANGED certificates
  PROVE  certificates' \in Seq(CertificateRows') /\ CertifiedCasesKept' /\ CertificatesSound'
<1>1. \A c \in DOMAIN certificates :
        /\ certificates[c].signature \in SUBSET DOMAIN versions
        /\ certificates[c].total \in Nat /\ certificates[c].total <= Len(golden)
  BY ReleaseRows DEF CertificateRows, ReleaseTablesInv, CertifiedCasesKept
<1>2. certificates' \in Seq(CertificateRows')
  <2>1. CertificateRows \subseteq CertificateRows'
    BY DEF CertificateRows, VersionsStay
  <2>2. certificates \in Seq(CertificateRows')
    BY <2>1, SeqMonotonic DEF ReleaseTablesInv
  <2>. QED
    BY <2>2
<1>3. CertifiedCasesKept'
  <2>1. Len(golden) \in Nat /\ Len(golden') \in Nat /\ Len(golden) <= Len(golden')
    BY ReleaseRows DEF GoldenStay
  <2>. QED
    BY <1>1, <2>1 DEF CertifiedCasesKept
<1>4. ASSUME NEW c \in DOMAIN certificates, certificates[c].ready
      PROVE  /\ \A d \in Required :
                  Cardinality({v \in certificates[c].signature : DatasetOf(v) = d}') = 1
             /\ \A v \in certificates[c].signature :
                  packages'[versions'[v].package].content \in ValidContents
             /\ certificates[c].total > 0
             /\ \A g \in 1..certificates[c].total : golden'[g]
  <2>1. PICK names : names = certificates[c].signature
    OBVIOUS
  <2>2. /\ \A d \in Required : Cardinality({v \in names : DatasetOf(v) = d}) = 1
        /\ \A v \in names : packages[versions[v].package].content \in ValidContents
        /\ certificates[c].total > 0
        /\ \A g \in 1..certificates[c].total : golden[g]
    BY <1>4, <2>1 DEF ReleaseTablesInv, CertificatesSound
  <2>3. \A v \in names :
          /\ DatasetOf(v)' = DatasetOf(v)
          /\ packages'[versions'[v].package].content = packages[versions[v].package].content
    BY <1>1, <2>1, VersionFactsStay
  <2>4. \A d \in Required :
          {v \in names : DatasetOf(v)' = d} = {v \in names : DatasetOf(v) = d}
    BY <2>3
  <2>5. \A g \in 1 .. certificates[c].total : golden'[g] = golden[g]
    <3>1. \A g \in 1 .. certificates[c].total : g \in DOMAIN golden
      BY <1>1, ReleaseRows
    <3>. QED
      BY <3>1 DEF GoldenStay
  <2>6. \A d \in Required : Cardinality({v \in names : DatasetOf(v)' = d}) = 1
    BY <2>2, <2>4
  <2>7. certificates'[c].signature = names
    BY <2>1
  <2>. QED
    BY <2>1, <2>2, <2>3, <2>5, <2>6, <2>7
<1>5. CertificatesSound'
  BY <1>4 DEF CertificatesSound
<1>. QED
  BY <1>2, <1>3, <1>5

\* So do the versions while packages are added or change their status.
LEMMA VersionsUntouched ==
  ASSUME ReleaseTablesInv, PackagesStay, UNCHANGED versions
  PROVE  /\ versions' \in Seq(VersionRows') /\ VersionsConfident' /\ OneActivePerDataset'
         /\ VersionsStay
         /\ \A d \in Required : VersionsOf(d)' = VersionsOf(d)
<1>1. VersionsStay
  BY DEF VersionsStay
<1>2. \A v \in DOMAIN versions :
        /\ DatasetOf(v)' = DatasetOf(v)
        /\ packages'[versions'[v].package].confidence = packages[versions[v].package].confidence
  BY <1>1, VersionFactsStay
<1>3. versions' \in Seq(VersionRows')
  <2>1. VersionRows \subseteq VersionRows'
    BY DEF VersionRows, PackagesStay
  <2>2. versions \in Seq(VersionRows')
    BY <2>1, SeqMonotonic DEF ReleaseTablesInv
  <2>. QED
    BY <2>2
<1>4. VersionsConfident'
  BY <1>2 DEF VersionsConfident, ReleaseTablesInv
<1>5. OneActivePerDataset'
  <2>1. ActiveVersions' = ActiveVersions /\ ActiveVersions \subseteq DOMAIN versions
    BY DEF ActiveVersions
  <2>2. \A v, w \in ActiveVersions : DatasetOf(v) = DatasetOf(w) => v = w
    BY DEF OneActivePerDataset, ReleaseTablesInv
  <2>3. \A v \in ActiveVersions : packages[versions[v].package].confidence = 4
    BY DEF OneActivePerDataset, ReleaseTablesInv
  <2>4. \A v \in ActiveVersions : DatasetOf(v)' = DatasetOf(v)
    BY <1>2, <2>1
  <2>5. ASSUME NEW v \in ActiveVersions, NEW w \in ActiveVersions,
               DatasetOf(v)' = DatasetOf(w)'
        PROVE  v = w
    <3>1. DatasetOf(v)' = DatasetOf(v) /\ DatasetOf(w)' = DatasetOf(w)
      BY <2>4
    <3>. QED
      BY <2>2, <2>5, <3>1
  <2>6. \A v \in ActiveVersions' : packages'[versions'[v].package].confidence = 4
    BY <1>2, <2>1, <2>3
  <2>. QED
    BY <2>1, <2>5, <2>6 DEF OneActivePerDataset
<1>6. \A d \in Required : VersionsOf(d)' = VersionsOf(d)
  BY <1>2 DEF VersionsOf, DatasetOf
<1>. QED
  BY <1>1, <1>3, <1>4, <1>5, <1>6

\* A package is added, or a status other than "approved" is set.
LEMMA PackagesWritten ==
  ASSUME RecordsInv, UNCHANGED calculationTables, UNCHANGED <<versions, golden, certificates>>,
         NEW t \in Threads, Finish(t) \/ calls' = calls,
         PackagesStay, packages' \in Seq(PackageRows),
         \A p \in DOMAIN packages' : packages'[p].status = "approved" =>
           p \in DOMAIN packages /\ packages[p].status = "approved"
  PROVE  RecordsInv'
<1>1. GoldenStay /\ golden' \in Seq(BOOLEAN)
  BY ReleaseRows DEF GoldenStay, RecordsInv, ReleaseTablesInv
<1>2. /\ versions' \in Seq(VersionRows') /\ VersionsConfident' /\ OneActivePerDataset'
      /\ VersionsStay
      /\ \A d \in Required : VersionsOf(d)' = VersionsOf(d)
  BY VersionsUntouched DEF RecordsInv
<1>3. certificates' \in Seq(CertificateRows') /\ CertifiedCasesKept' /\ CertificatesSound'
  BY <1>1, <1>2, CertificatesStay DEF RecordsInv
<1>4. ApprovedHaveVersions'
  <2>1. \A p \in DOMAIN packages' : packages'[p].status = "approved" =>
          \E v \in DOMAIN versions' : versions'[v].package = p
    BY DEF RecordsInv, ReleaseTablesInv, ApprovedHaveVersions
  <2>2. \A d \in Required :
          {versions[v].no : v \in VersionsOf(d)}' = 1..Cardinality(VersionsOf(d)')
    BY <1>2 DEF RecordsInv, ReleaseTablesInv, ApprovedHaveVersions
  <2>. QED
    BY <2>1, <2>2 DEF ApprovedHaveVersions
<1>5. ReleaseTablesInv'
  BY <1>1, <1>2, <1>3, <1>4 DEF ReleaseTablesInv
<1>. QED
  BY <1>1, <1>2, <1>5, ReleaseWrite

LEMMA InsertPackageStep ==
  ASSUME RecordsInv, NEW t \in Threads, InsertPackage(t), UNCHANGED calculationTables
  PROVE  RecordsInv'
<1>1. PICK x : x = calls[t].upload
  OBVIOUS
<1>2. x \in Uploads
  BY <1>1, RecordCallFields DEF InsertPackage, At, RecordsInv, RecordCallsInv
<1>3. PICK row : row = [dataset |-> x.dataset, content |-> x.content,
                        confidence |-> x.confidence, status |-> "open"]
  OBVIOUS
<1>4. row \in PackageRows /\ row.status = "open"
  BY <1>2, <1>3, ReleasesAssumption DEF PackageRows, Contents, PackageStatuses
<1>5. packages' = Append(packages, row)
  BY <1>1, <1>3, Zenon DEF InsertPackage
<1>6. packages \in Seq(PackageRows)
  BY DEF RecordsInv, ReleaseTablesInv
<1>7. /\ packages' \in Seq(PackageRows)
      /\ Len(packages) \in Nat /\ Len(packages') = Len(packages) + 1
      /\ DOMAIN packages = 1 .. Len(packages) /\ DOMAIN packages' = 1 .. Len(packages) + 1
      /\ packages'[Len(packages) + 1] = row
      /\ \A i \in DOMAIN packages : i \in DOMAIN packages' /\ packages'[i] = packages[i]
  BY <1>4, <1>5, <1>6, AppendedEntry
<1>8. PackagesStay
  BY <1>7 DEF PackagesStay
<1>9. \A p \in DOMAIN packages' : packages'[p].status = "approved" =>
           p \in DOMAIN packages /\ packages[p].status = "approved"
  <2>1. \A p \in DOMAIN packages' : p = Len(packages) + 1 \/ p \in DOMAIN packages
    BY <1>7
  <2>. QED
    BY <1>4, <1>7, <2>1
<1>. QED
  BY <1>7, <1>8, <1>9, PackagesWritten DEF InsertPackage

\* A version whose number nobody has is added to a data set: the numbers of
\* its versions have no gap, and the new one is not active.
LEMMA VersionAdded ==
  ASSUME ReleaseTablesInv, PackagesStay, NEW p \in DOMAIN packages,
         packages[p].confidence = 4, AddVersion(p)
  PROVE  /\ versions' \in Seq(VersionRows') /\ VersionsConfident' /\ OneActivePerDataset'
         /\ VersionsStay
         /\ \E v \in DOMAIN versions' : versions'[v].package = p
         /\ \A d \in Required :
              {versions[v].no : v \in VersionsOf(d)}' = 1..Cardinality(VersionsOf(d)')
<1>1. PICK d : d = packages[p].dataset
  OBVIOUS
<1>2. d \in Required
  BY <1>1, ReleaseRows DEF PackageRows
<1>3. PICK n : n = Cardinality(VersionsOf(d))
  OBVIOUS
<1>4. n \in Nat /\ IsFiniteSet(VersionsOf(d))
  <2>1. Len(versions) \in Nat /\ VersionsOf(d) \subseteq 1 .. Len(versions)
    BY ReleaseRows DEF VersionsOf
  <2>2. IsFiniteSet(1 .. Len(versions))
    BY <2>1, FirstNumbers
  <2>3. IsFiniteSet(VersionsOf(d))
    BY <2>1, <2>2, FS_Subset
  <2>. QED
    BY <1>3, <2>3, FS_CardinalityType
<1>5. {versions[v].no : v \in VersionsOf(d)} = 1 .. n
  BY <1>2, <1>3 DEF ReleaseTablesInv, ApprovedHaveVersions
<1>6. VersionNo(d) = n + 1
  BY <1>3 DEF VersionNo
<1>7. ~ \E v \in VersionsOf(d) : versions[v].no = VersionNo(d)
  <2>1. \A v \in VersionsOf(d) : versions[v].no \in 1 .. n
    BY <1>5
  <2>. QED
    BY <1>4, <1>6, <2>1
<1>8. PICK row : row = [package |-> p, no |-> n + 1, active |-> FALSE]
  OBVIOUS
<1>9. versions' = Append(versions, row)
  BY <1>1, <1>6, <1>7, <1>8, Zenon DEF AddVersion
<1>10. row \in VersionRows'
  BY <1>4, <1>8 DEF VersionRows, PackagesStay
<1>11. versions \in Seq(VersionRows')
  <2>1. VersionRows \subseteq VersionRows'
    BY DEF VersionRows, PackagesStay
  <2>. QED
    BY <2>1, SeqMonotonic DEF ReleaseTablesInv
<1>12. PICK k : k = Len(versions) + 1
  OBVIOUS
<1>13. /\ versions' \in Seq(VersionRows')
       /\ Len(versions) \in Nat /\ DOMAIN versions = 1 .. Len(versions)
       /\ DOMAIN versions' = 1 .. k
       /\ versions'[k] = row
       /\ \A v \in DOMAIN versions : v \in DOMAIN versions' /\ versions'[v] = versions[v]
  BY <1>9, <1>10, <1>11, <1>12, AppendedEntry
<1>14. k \in Nat /\ k \notin DOMAIN versions /\ k \in DOMAIN versions'
       /\ \A v \in DOMAIN versions' : v = k \/ v \in DOMAIN versions
  BY <1>12, <1>13
<1>15. VersionsStay
  BY <1>13 DEF VersionsStay
<1>16. versions'[k].package = p /\ versions'[k].no = n + 1 /\ ~versions'[k].active
  BY <1>8, <1>13
<1>17. \A v \in DOMAIN versions :
         /\ DatasetOf(v)' = DatasetOf(v)
         /\ packages'[versions'[v].package].confidence = packages[versions[v].package].confidence
  BY <1>15, VersionFactsStay
<1>18. DatasetOf(k)' = d /\ packages'[versions'[k].package].confidence = 4
  BY <1>1, <1>16 DEF DatasetOf, PackagesStay
<1>19. VersionsConfident'
  BY <1>14, <1>17, <1>18 DEF VersionsConfident, ReleaseTablesInv
<1>20. OneActivePerDataset'
  <2>1. ActiveVersions' = ActiveVersions /\ ActiveVersions \subseteq DOMAIN versions
    BY <1>13, <1>14, <1>16 DEF ActiveVersions
  <2>2. \A v, w \in ActiveVersions : DatasetOf(v) = DatasetOf(w) => v = w
    BY DEF OneActivePerDataset, ReleaseTablesInv
  <2>3. \A v \in ActiveVersions : packages[versions[v].package].confidence = 4
    BY DEF OneActivePerDataset, ReleaseTablesInv
  <2>4. \A v \in ActiveVersions : DatasetOf(v)' = DatasetOf(v)
    BY <1>17, <2>1
  <2>5. ASSUME NEW v \in ActiveVersions, NEW w \in ActiveVersions,
               DatasetOf(v)' = DatasetOf(w)'
        PROVE  v = w
    <3>1. DatasetOf(v)' = DatasetOf(v) /\ DatasetOf(w)' = DatasetOf(w)
      BY <2>4
    <3>. QED
      BY <2>2, <2>5, <3>1
  <2>6. \A v \in ActiveVersions' : packages'[versions'[v].package].confidence = 4
    BY <1>17, <2>1, <2>3
  <2>. QED
    BY <2>1, <2>5, <2>6 DEF OneActivePerDataset
<1>21. VersionsOf(d)' = VersionsOf(d) \cup {k} /\ k \notin VersionsOf(d)
  BY <1>13, <1>14, <1>17, <1>18 DEF VersionsOf, DatasetOf
<1>22. {versions[v].no : v \in VersionsOf(d)}' = 1..Cardinality(VersionsOf(d)')
  <2>1. Cardinality(VersionsOf(d)') = n + 1
    BY <1>3, <1>4, <1>21, FS_AddElement
  <2>2. VersionsOf(d) \subseteq DOMAIN versions
    BY DEF VersionsOf
  <2>3. {versions[v].no : v \in VersionsOf(d)}' = (1 .. n) \cup {n + 1}
    BY <1>5, <1>13, <1>16, <1>21, <2>2
  <2>. QED
    BY <1>4, <2>1, <2>3
<1>23. ASSUME NEW e \in Required \ {d}
       PROVE  {versions[v].no : v \in VersionsOf(e)}' = 1..Cardinality(VersionsOf(e)')
  <2>1. VersionsOf(e)' = VersionsOf(e) /\ VersionsOf(e) \subseteq DOMAIN versions
    BY <1>13, <1>14, <1>17, <1>18 DEF VersionsOf, DatasetOf
  <2>2. {versions[v].no : v \in VersionsOf(e)}' = {versions[v].no : v \in VersionsOf(e)}
    BY <1>13, <2>1
  <2>. QED
    BY <2>1, <2>2 DEF ReleaseTablesInv, ApprovedHaveVersions
<1>. QED
  BY <1>13, <1>14, <1>15, <1>16, <1>19, <1>20, <1>22, <1>23

LEMMA SetPackageStatusStep ==
  ASSUME RecordsInv, NEW t \in Threads, SetPackageStatus(t), UNCHANGED calculationTables
  PROVE  RecordsInv'
<1>1. PICK p \in DOMAIN packages, s \in PackageStatuses :
        /\ s = "approved" => packages[p].confidence = 4 /\ Len(versions) < MaxVersions
        /\ packages' = [packages EXCEPT ![p].status = s]
        /\ IF s = "approved" THEN AddVersion(p) ELSE UNCHANGED versions
  BY DEF SetPackageStatus
<1>2. UNCHANGED <<golden, certificates, calls>>
  BY DEF SetPackageStatus
<1>3. packages \in Seq(PackageRows) /\ packages[p] \in PackageRows
  BY ReleaseRows DEF RecordsInv, ReleaseTablesInv
<1>4. PICK row : row = [packages[p] EXCEPT !.status = s]
  OBVIOUS
<1>5. /\ row \in PackageRows /\ row.status = s /\ row.dataset = packages[p].dataset
      /\ row.content = packages[p].content /\ row.confidence = packages[p].confidence
  BY <1>3, <1>4 DEF PackageRows
<1>6. packages' = [packages EXCEPT ![p] = row]
  BY <1>1, <1>4
<1>7. /\ packages' \in Seq(PackageRows) /\ DOMAIN packages' = DOMAIN packages
      /\ packages'[p] = row
      /\ \A q \in DOMAIN packages \ {p} : packages'[q] = packages[q]
  BY <1>3, <1>5, <1>6, ExceptSeq
<1>8. PackagesStay
  BY <1>5, <1>7 DEF PackagesStay
<1>9. CASE s # "approved"
  <2>1. \A q \in DOMAIN packages' : packages'[q].status = "approved" =>
          q \in DOMAIN packages /\ packages[q].status = "approved"
    BY <1>5, <1>7, <1>9
  <2>. QED
    BY <1>1, <1>2, <1>7, <1>8, <1>9, <2>1, PackagesWritten
<1>10. CASE s = "approved"
  <2>1. /\ versions' \in Seq(VersionRows') /\ VersionsConfident' /\ OneActivePerDataset'
        /\ VersionsStay
        /\ \E v \in DOMAIN versions' : versions'[v].package = p
        /\ \A d \in Required :
             {versions[v].no : v \in VersionsOf(d)}' = 1..Cardinality(VersionsOf(d)')
    BY <1>1, <1>8, <1>10, VersionAdded DEF RecordsInv
  <2>2. GoldenStay /\ golden' \in Seq(BOOLEAN)
    BY <1>2, ReleaseRows DEF GoldenStay, RecordsInv, ReleaseTablesInv
  <2>3. certificates' \in Seq(CertificateRows') /\ CertifiedCasesKept' /\ CertificatesSound'
    BY <1>2, <1>8, <2>1, <2>2, CertificatesStay DEF RecordsInv
  <2>4. ASSUME NEW q \in DOMAIN packages', packages'[q].status = "approved"
        PROVE  \E v \in DOMAIN versions' : versions'[v].package = q
    <3>1. CASE q = p
      BY <2>1, <3>1
    <3>2. CASE q # p
      <4>1. q \in DOMAIN packages /\ packages[q].status = "approved"
        BY <1>7, <2>4, <3>2
      <4>2. PICK v \in DOMAIN versions : versions[v].package = q
        BY <4>1 DEF RecordsInv, ReleaseTablesInv, ApprovedHaveVersions
      <4>. QED
        BY <2>1, <4>2 DEF VersionsStay
    <3>. QED
      BY <3>1, <3>2
  <2>5. ApprovedHaveVersions'
    BY <2>1, <2>4 DEF ApprovedHaveVersions
  <2>6. ReleaseTablesInv'
    BY <1>7, <2>1, <2>2, <2>3, <2>5 DEF ReleaseTablesInv
  <2>. QED
    BY <1>2, <1>8, <2>1, <2>2, <2>6, ReleaseWrite
<1>. QED
  BY <1>9, <1>10

\* Making one version of a data set the active one keeps all else of it.
LEMMA OnlyActiveKeeps ==
  ASSUME RecordsInv, UNCHANGED calculationTables, UNCHANGED <<packages, golden, certificates>>,
         NEW t \in Threads, Finish(t) \/ calls' = calls,
         NEW v \in DOMAIN versions, OnlyActive(v)
  PROVE  RecordsInv'
<1>1. PICK n : n = Len(versions)
  OBVIOUS
<1>2. /\ n \in Nat /\ DOMAIN versions = 1 .. n
      /\ \A w \in DOMAIN versions : versions[w] \in VersionRows
  BY <1>1, ReleaseRows DEF RecordsInv
<1>3. /\ DOMAIN versions' = 1 .. n
      /\ \A w \in 1 .. n :
           versions'[w] = [versions[w] EXCEPT
             !.active = IF DatasetOf(w) = DatasetOf(v) THEN w = v ELSE @]
      /\ versions' = [w \in 1 .. n |-> versions'[w]]
  BY <1>2 DEF OnlyActive
<1>4. ASSUME NEW w \in 1 .. n
      PROVE  /\ versions'[w] \in VersionRows
             /\ versions'[w].package = versions[w].package
             /\ versions'[w].no = versions[w].no
             /\ versions'[w].active =>
                  \/ w = v
                  \/ DatasetOf(w) # DatasetOf(v) /\ versions[w].active
  <2>1. PICK row : row = versions[w]
    OBVIOUS
  <2>2. row \in [package : DOMAIN packages, no : Nat, active : BOOLEAN]
    BY <1>2, <2>1 DEF VersionRows
  <2>3. PICK b \in BOOLEAN : b = (w = v)
    BY Zenon
  <2>4. CASE DatasetOf(w) = DatasetOf(v)
    <3>1. versions'[w] = [row EXCEPT !.active = b]
      BY <1>3, <2>1, <2>3, <2>4
    <3>. QED
      BY <2>1, <2>2, <2>3, <3>1 DEF VersionRows
  <2>5. CASE DatasetOf(w) # DatasetOf(v)
    <3>1. versions'[w] = [row EXCEPT !.active = @]
      BY <1>3, <2>1, <2>5
    <3>. QED
      BY <2>1, <2>2, <2>5, <3>1 DEF VersionRows
  <2>. QED
    BY <2>4, <2>5
<1>5. PackagesStay /\ GoldenStay
  BY ReleaseRows DEF RecordsInv, PackagesStay, GoldenStay
<1>6. VersionsStay
  BY <1>2, <1>3, <1>4 DEF VersionsStay
<1>7. versions' \in Seq(VersionRows')
  <2>1. versions' \in [1 .. n -> VersionRows]
    BY <1>3, <1>4
  <2>2. versions' \in Seq(VersionRows)
    BY <1>2, <2>1, SeqDef
  <2>. QED
    BY <2>2 DEF VersionRows
<1>8. \A w \in 1 .. n : DatasetOf(w)' = DatasetOf(w)
  BY <1>4 DEF DatasetOf
<1>9. VersionsConfident'
  BY <1>2, <1>3, <1>4 DEF RecordsInv, ReleaseTablesInv, VersionsConfident
<1>10. OneActivePerDataset'
  <2>1. ASSUME NEW a \in ActiveVersions', NEW b \in ActiveVersions',
               DatasetOf(a)' = DatasetOf(b)'
        PROVE  a = b
    <3>1. /\ a \in 1 .. n /\ b \in 1 .. n /\ DatasetOf(a) = DatasetOf(b)
          /\ a = v \/ (DatasetOf(a) # DatasetOf(v) /\ versions[a].active)
          /\ b = v \/ (DatasetOf(b) # DatasetOf(v) /\ versions[b].active)
      BY <1>3, <1>4, <1>8, <2>1 DEF ActiveVersions
    <3>2. \A x, y \in ActiveVersions : DatasetOf(x) = DatasetOf(y) => x = y
      BY DEF RecordsInv, ReleaseTablesInv, OneActivePerDataset
    <3>3. CASE a = v \/ b = v
      BY <3>1, <3>3
    <3>4. CASE a # v /\ b # v
      <4>1. a \in ActiveVersions /\ b \in ActiveVersions
        BY <1>2, <3>1, <3>4 DEF ActiveVersions
      <4>. QED
        BY <3>1, <3>2, <4>1
    <3>. QED
      BY <3>3, <3>4
  <2>2. \A a \in ActiveVersions' : packages'[versions'[a].package].confidence = 4
    BY <1>9 DEF VersionsConfident, ActiveVersions
  <2>. QED
    BY <2>1, <2>2 DEF OneActivePerDataset
<1>11. ApprovedHaveVersions'
  <2>1. \A p \in DOMAIN packages' : packages'[p].status = "approved" =>
          \E w \in DOMAIN versions' : versions'[w].package = p
    BY <1>2, <1>3, <1>4 DEF RecordsInv, ReleaseTablesInv, ApprovedHaveVersions
  <2>2. ASSUME NEW d \in Required
        PROVE  {versions[w].no : w \in VersionsOf(d)}' = 1..Cardinality(VersionsOf(d)')
    <3>1. VersionsOf(d)' = VersionsOf(d) /\ VersionsOf(d) \subseteq 1 .. n
      BY <1>2, <1>3, <1>4 DEF VersionsOf
    <3>2. {versions[w].no : w \in VersionsOf(d)}' = {versions[w].no : w \in VersionsOf(d)}
      BY <1>4, <3>1
    <3>. QED
      BY <3>1, <3>2 DEF RecordsInv, ReleaseTablesInv, ApprovedHaveVersions
  <2>. QED
    BY <2>1, <2>2 DEF ApprovedHaveVersions
<1>12. certificates' \in Seq(CertificateRows') /\ CertifiedCasesKept' /\ CertificatesSound'
  BY <1>5, <1>6, CertificatesStay DEF RecordsInv
<1>13. ReleaseTablesInv'
  BY <1>7, <1>9, <1>10, <1>11, <1>12 DEF RecordsInv, ReleaseTablesInv
<1>. QED
  BY <1>5, <1>6, <1>13, ReleaseWrite

LEMMA ActivationSteps ==
  ASSUME RecordsInv, NEW t \in Threads, ActivateVersion(t) \/ RollbackVersion(t),
         UNCHANGED calculationTables
  PROVE  RecordsInv'
<1>1. CASE ActivateVersion(t)
  <2>1. PICK v : v = calls[t].version
    OBVIOUS
  <2>2. v \in DOMAIN versions
    BY <1>1, <2>1, RecordCallFields DEF ActivateVersion, At, RecordsInv, RecordCallsInv
  <2>3. OnlyActive(v) /\ Finish(t) /\ UNCHANGED <<packages, golden, certificates>>
    BY <1>1, <2>1 DEF ActivateVersion
  <2>. QED
    BY <2>2, <2>3, OnlyActiveKeeps
<1>2. CASE RollbackVersion(t)
  <2>. DEFINE Earlier(v) == {w \in VersionsOf(DatasetOf(v)) :
                               w < v /\ packages[versions[w].package].confidence = 4}
  <2>1. PICK v \in DOMAIN versions : Earlier(v) # {} /\ OnlyActive(Max(Earlier(v)))
    BY <1>2 DEF RollbackVersion
  <2>2. PICK S : S = Earlier(v)
    OBVIOUS
  <2>3. /\ Len(versions) \in Nat /\ S \in SUBSET (0 .. Len(versions)) /\ S # {}
        /\ S \subseteq DOMAIN versions
    BY <2>1, <2>2, ReleaseRows DEF RecordsInv, VersionsOf
  <2>4. Max(S) \in S
    BY <2>3, MaxMember
  <2>5. PICK w : w = Max(S)
    OBVIOUS
  <2>6. w \in DOMAIN versions /\ OnlyActive(w)
    <3>. HIDE DEF Earlier
    <3>1. OnlyActive(w)
      BY <2>1, <2>2, <2>5, Zenon
    <3>. QED
      BY <2>3, <2>4, <2>5, <3>1, Zenon
  <2>7. UNCHANGED <<packages, golden, certificates, calls>>
    BY <1>2 DEF RollbackVersion
  <2>. QED
    BY <2>6, <2>7, OnlyActiveKeeps
<1>. QED
  BY <1>1, <1>2

LEMMA ApprovalsUntouched ==
  ASSUME ReleaseTablesInv, packages' = packages, versions' = versions
  PROVE  ApprovedHaveVersions' /\ OneActivePerDataset'
<1>1. ApprovedHaveVersions'
  <2>1. \A d : VersionsOf(d)' = VersionsOf(d)
    BY DEF VersionsOf
  <2>2. ApprovedHaveVersions
    BY DEF ReleaseTablesInv
  <2>. HIDE DEF VersionsOf
  <2>3. \A d \in Required :
          {versions[v].no : v \in VersionsOf(d)} = 1 .. Cardinality(VersionsOf(d))
    BY <2>2 DEF ApprovedHaveVersions
  <2>4. \A p \in DOMAIN packages : packages[p].status = "approved" =>
          \E v \in DOMAIN versions : versions[v].package = p
    BY <2>2 DEF ApprovedHaveVersions
  <2>. QED
    BY <2>1, <2>3, <2>4 DEF ApprovedHaveVersions
<1>2. OneActivePerDataset'
  BY DEF ReleaseTablesInv, OneActivePerDataset, VersionsOf, ActiveVersions, DatasetOf
<1>. QED
  BY <1>1, <1>2

LEMMA CreateGoldenCaseStep ==
  ASSUME RecordsInv, NEW t \in Threads, CreateGoldenCase(t), UNCHANGED calculationTables
  PROVE  RecordsInv'
<1>1. PICK passed \in BOOLEAN : golden' = Append(golden, passed)
  BY DEF CreateGoldenCase
<1>2. UNCHANGED <<packages, versions, certificates, calls>>
  BY DEF CreateGoldenCase
<1>3. golden \in Seq(BOOLEAN)
  BY DEF RecordsInv, ReleaseTablesInv
<1>4. /\ golden' \in Seq(BOOLEAN)
      /\ Len(golden) \in Nat /\ Len(golden') = Len(golden) + 1
      /\ \A g \in DOMAIN golden : golden'[g] = golden[g]
  BY <1>1, <1>3, AppendedEntry
<1>5. GoldenStay
  BY <1>4 DEF GoldenStay
<1>6. PackagesStay
  BY <1>2 DEF PackagesStay
<1>7. /\ versions' \in Seq(VersionRows') /\ VersionsConfident' /\ OneActivePerDataset'
      /\ VersionsStay
      /\ \A d \in Required : VersionsOf(d)' = VersionsOf(d)
  BY <1>2, <1>6, VersionsUntouched DEF RecordsInv
<1>8. certificates' \in Seq(CertificateRows') /\ CertifiedCasesKept' /\ CertificatesSound'
  BY <1>2, <1>5, <1>6, <1>7, CertificatesStay DEF RecordsInv
<1>9. ApprovedHaveVersions'
  BY <1>2, ApprovalsUntouched DEF RecordsInv
<1>10. ReleaseTablesInv'
  BY <1>2, <1>4, <1>7, <1>8, <1>9 DEF RecordsInv, ReleaseTablesInv
<1>. QED
  BY <1>2, <1>5, <1>6, <1>7, <1>10, ReleaseWrite

\* A set with one version of every data set it names has exactly one of each
\* that is required, when all of these are among them.
LEMMA OneOfEach ==
  ASSUME NEW vs, OnePerDataset(vs), Required \subseteq Covered(vs), NEW d \in Required
  PROVE  Cardinality({v \in vs : DatasetOf(v) = d}) = 1
<1>1. PICK v \in vs : DatasetOf(v) = d
  BY DEF Covered
<1>2. {w \in vs : DatasetOf(w) = d} = {v}
  BY <1>1 DEF OnePerDataset
<1>. QED
  BY <1>2, FS_Singleton

LEMMA IssueCertificateStep ==
  ASSUME RecordsInv, NEW t \in Threads, IssueCertificate(t), UNCHANGED calculationTables
  PROVE  RecordsInv'
<1>1. PICK c : c = calls[t]
  OBVIOUS
<1>2. c \in RecordCalls /\ RecordKnown(c) /\ c.at = "cert_insert"
  BY <1>1 DEF RecordsInv, RecordCallsInv, IssueCertificate, At
<1>3. /\ c.active \in SUBSET DOMAIN versions /\ c.quality \in BOOLEAN
      /\ c.total \in Nat /\ c.passed \in Nat
      /\ OnePerDataset(c.active) /\ (c.quality => ValidOnly(c.active))
      /\ c.total <= Len(golden) /\ (c.passed = c.total => AllPassed(c.total))
  BY <1>2, RecordCallFields DEF RecordKnown, CertificateSteps
<1>4. PICK ready \in BOOLEAN : ready = (/\ c.quality
                                        /\ Required \subseteq Covered(c.active)
                                        /\ c.total > 0
                                        /\ c.passed = c.total)
  BY Zenon
<1>5. PICK row : row = [signature |-> c.active, total |-> c.total, ready |-> ready]
  OBVIOUS
<1>6. certificates' = Append(certificates, row)
  BY <1>1, <1>4, <1>5, Zenon DEF IssueCertificate
<1>7. UNCHANGED <<packages, versions, golden>> /\ Finish(t)
  BY DEF IssueCertificate
<1>8. row \in CertificateRows /\ certificates \in Seq(CertificateRows)
  BY <1>3, <1>4, <1>5 DEF CertificateRows, RecordsInv, ReleaseTablesInv
<1>9. PICK k : k = Len(certificates) + 1
  OBVIOUS
<1>10. /\ certificates' \in Seq(CertificateRows)
       /\ DOMAIN certificates' = 1 .. k
       /\ certificates'[k] = row
       /\ \A i \in DOMAIN certificates : certificates'[i] = certificates[i]
       /\ DOMAIN certificates = 1 .. Len(certificates) /\ Len(certificates) \in Nat
  BY <1>6, <1>8, <1>9, AppendedEntry
<1>11. \A i \in DOMAIN certificates' : i = k \/ i \in DOMAIN certificates
  BY <1>9, <1>10
<1>12. PackagesStay /\ VersionsStay /\ GoldenStay
  BY <1>7, ReleaseRows DEF RecordsInv, PackagesStay, VersionsStay, GoldenStay
<1>13. certificates' \in Seq(CertificateRows')
  BY <1>7, <1>10 DEF CertificateRows
<1>14. CertifiedCasesKept'
  BY <1>3, <1>5, <1>7, <1>10, <1>11 DEF RecordsInv, ReleaseTablesInv, CertifiedCasesKept
<1>15. ASSUME row.ready
       PROVE  /\ \A d \in Required : Cardinality({v \in c.active : DatasetOf(v) = d}) = 1
              /\ \A v \in c.active : packages[versions[v].package].content \in ValidContents
              /\ c.total > 0
              /\ \A g \in 1..c.total : golden[g]
  <2>1. /\ c.quality /\ Required \subseteq Covered(c.active)
        /\ c.total > 0 /\ c.passed = c.total
    BY <1>4, <1>5, <1>15
  <2>. QED
    BY <1>3, <2>1, OneOfEach DEF ValidOnly, AllPassed
<1>16. ASSUME NEW i \in DOMAIN certificates', certificates'[i].ready,
              NEW names, names = certificates'[i].signature
       PROVE  /\ \A d \in Required : Cardinality({v \in names : DatasetOf(v) = d}) = 1
              /\ \A v \in names : packages[versions[v].package].content \in ValidContents
              /\ certificates'[i].total > 0
              /\ \A g \in 1..certificates'[i].total : golden[g]
  <2>1. CASE i = k
    BY <1>5, <1>10, <1>15, <1>16, <2>1
  <2>2. CASE i # k
    <3>1. i \in DOMAIN certificates /\ certificates'[i] = certificates[i]
      BY <1>10, <1>11, <2>2
    <3>2. certificates[i].ready /\ names = certificates[i].signature
      BY <1>16, <3>1
    <3>3. CertificatesSound
      BY DEF RecordsInv, ReleaseTablesInv
    <3>4. /\ \A d \in Required : Cardinality({v \in names : DatasetOf(v) = d}) = 1
          /\ \A v \in names : packages[versions[v].package].content \in ValidContents
          /\ certificates[i].total > 0
          /\ \A g \in 1..certificates[i].total : golden[g]
      BY <3>1, <3>2, <3>3 DEF CertificatesSound
    <3>. QED
      BY <3>1, <3>4
  <2>. QED
    BY <2>1, <2>2
<1>17. CertificatesSound'
  BY <1>7, <1>16 DEF CertificatesSound, DatasetOf
<1>18. /\ packages' \in Seq(PackageRows) /\ versions' \in Seq(VersionRows')
       /\ golden' \in Seq(BOOLEAN) /\ VersionsConfident'
  BY <1>7 DEF RecordsInv, ReleaseTablesInv, VersionRows, VersionsConfident
<1>19. ApprovedHaveVersions' /\ OneActivePerDataset'
  BY <1>7, ApprovalsUntouched DEF RecordsInv
<1>20. ReleaseTablesInv'
  BY <1>13, <1>14, <1>17, <1>18, <1>19 DEF ReleaseTablesInv
<1>. QED
  BY <1>7, <1>12, <1>20, ReleaseWrite

LEMMA ReleaseStepKeeps ==
  ASSUME RecordsInv, NEW t \in Threads, ReleaseStep(t), UNCHANGED calculationTables
  PROVE  RecordsInv'
BY ReleaseFirstReads, InsertPackageStep, SetPackageStatusStep, ActivationSteps,
   CreateGoldenCaseStep, ReadActiveStep, ReadPackagesStep, ReadGoldenStep,
   IssueCertificateStep DEF ReleaseStep

(* ---- Steps of calculations and their revisions. ---- *)

\* Calculations and traces are written: the revisions and the packages that
\* were released do not look at them again.
LEMMA CalculationsWritten ==
  ASSUME RecordsInv, UNCHANGED releaseTables, UNCHANGED <<calcRevisions, releases>>,
         owner' \in [CalcIds -> Users \cup {None}],
         traces' \subseteq CalcIds \X DOMAIN versions
  PROVE  CalculationTablesInv' /\ RevisionsStay
<1>1. versions' = versions
  BY DEF releaseTables
<1>2. RevisionsStay
  BY CalculationRows DEF RecordsInv, RevisionsStay
<1>3. LockedWasReviewed' /\ ApprovedLocked' /\ ReadyItemsTrue'
  BY DEF RecordsInv, CalculationTablesInv, LockedWasReviewed, ApprovedLocked,
         ReadyItemsTrue, ItemTrue
<1>4. calcRevisions' \in Seq(CalcRevisionRows)
  BY DEF RecordsInv, CalculationTablesInv
<1>5. releases' \in Seq([items : SUBSET Items', ready : BOOLEAN])
  <2>1. Items' = Items
    BY <1>1 DEF Items
  <2>. HIDE DEF Items
  <2>2. releases \in Seq([items : SUBSET Items, ready : BOOLEAN])
    BY DEF RecordsInv, CalculationTablesInv
  <2>. QED
    BY <2>1, <2>2
<1>. QED
  BY <1>1, <1>2, <1>3, <1>4, <1>5 DEF CalculationTablesInv

LEMMA AddCalculationStep ==
  ASSUME RecordsInv, NEW t \in Threads, AddCalculation(t), UNCHANGED releaseTables
  PROVE  RecordsInv'
<1>1. PICK k \in CalcIds, u \in Users :
        /\ owner' = [owner EXCEPT ![k] = u]
        /\ Goto(t, [at |-> "trace_read", calc |-> k])
  BY DEF AddCalculation
<1>2. UNCHANGED <<traces, calcRevisions, releases>>
  BY DEF AddCalculation
<1>3. owner' \in [CalcIds -> Users \cup {None}] /\ traces' \subseteq CalcIds \X DOMAIN versions
  BY <1>1, <1>2 DEF RecordsInv, CalculationTablesInv
<1>4. CalculationTablesInv' /\ RevisionsStay
  BY <1>2, <1>3, CalculationsWritten
<1>5. ReleaseTablesInv' /\ PackagesStay /\ VersionsStay /\ GoldenStay
  BY ReleaseTablesUntouched DEF RecordsInv
<1>6. PICK c : c = [at |-> "trace_read", calc |-> k]
  OBVIOUS
<1>7. c \in RecordCalls' /\ RecordKnown(c)'
  BY <1>1, <1>6 DEF RecordCalls, CalculationCalls, RecordKnown
<1>. QED
  BY <1>1, <1>4, <1>5, <1>6, <1>7, OneRecordCallMoves DEF RecordsInv, RecordsStay

LEMMA TraceSteps ==
  ASSUME RecordsInv, NEW t \in Threads, ReadTrace(t) \/ InsertTrace(t), UNCHANGED releaseTables
  PROVE  RecordsInv'
<1>1. CASE ReadTrace(t)
  <2>1. PICK k : k = calls[t].calc
    OBVIOUS
  <2>2. k \in CalcIds
    BY <1>1, <2>1, RecordCallFields DEF ReadTrace, At, RecordsInv, RecordCallsInv
  <2>3. PICK c : c = [at |-> "trace_insert", calc |-> k, active |-> ActiveVersions]
    OBVIOUS
  <2>4. Goto(t, c) /\ UNCHANGED calculationTables
    BY <1>1, <2>1, <2>3 DEF ReadTrace
  <2>5. c \in RecordCalls
    BY <2>2, <2>3 DEF RecordCalls, CalculationCalls, ActiveVersions
  <2>. QED
    BY <2>3, <2>4, <2>5, PlainRecordRead DEF PlainRecordSteps
<1>2. CASE InsertTrace(t)
  <2>1. calls[t].calc \in CalcIds /\ calls[t].active \in SUBSET DOMAIN versions
    BY <1>2, RecordCallFields DEF InsertTrace, At, RecordsInv, RecordCallsInv
  <2>2. /\ traces' = traces \cup ({calls[t].calc} \X calls[t].active)
        /\ UNCHANGED <<owner, calcRevisions, releases>> /\ Finish(t)
    BY <1>2 DEF InsertTrace
  <2>3. traces \subseteq CalcIds \X DOMAIN versions /\ owner' \in [CalcIds -> Users \cup {None}]
    BY <2>2 DEF RecordsInv, CalculationTablesInv
  <2>4. traces' \subseteq CalcIds \X DOMAIN versions
    BY <2>1, <2>2, <2>3
  <2>5. CalculationTablesInv' /\ RevisionsStay
    BY <2>2, <2>3, <2>4, CalculationsWritten
  <2>. QED
    BY <2>2, <2>5, CalculationWrite
<1>. QED
  BY <1>1, <1>2

LEMMA DeleteCalculationsStep ==
  ASSUME RecordsInv, NEW t \in Threads, DeleteCalculations(t), UNCHANGED releaseTables
  PROVE  RecordsInv'
<1>1. PICK gone : owner' = [c \in CalcIds |-> IF c \in gone THEN None ELSE owner[c]]
  BY DEF DeleteCalculations
<1>2. UNCHANGED <<traces, calcRevisions, releases, calls>>
  BY DEF DeleteCalculations
<1>3. owner' \in [CalcIds -> Users \cup {None}] /\ traces' \subseteq CalcIds \X DOMAIN versions
  BY <1>1, <1>2 DEF RecordsInv, CalculationTablesInv
<1>4. CalculationTablesInv' /\ RevisionsStay
  BY <1>2, <1>3, CalculationsWritten
<1>. QED
  BY <1>2, <1>4, CalculationWrite

\* The revision numbers of a calculation, and the next one.
LEMMA CalcNumbersBounded ==
  ASSUME CalculationTablesInv, NEW c
  PROVE  CalcNumbers(c) \in SUBSET Nat /\ \E b \in Nat : \A m \in CalcNumbers(c) : m <= b
<1>. DEFINE n == Len(calcRevisions)
            f == [i \in 1 .. n |-> calcRevisions[i].no]
<1>1. n \in Nat /\ DOMAIN calcRevisions = 1 .. n /\ \A i \in 1 .. n : f[i] \in Nat
  BY CalculationRows DEF CalcRevisionRows
<1>2. PICK b \in Nat : \A i \in 1 .. n : f[i] <= b
  <2>. HIDE DEF n, f
  <2>. QED
    BY <1>1, NumbersBounded
<1>3. \A m \in CalcNumbers(c) : \E i \in 1 .. n : m = f[i]
  BY <1>1 DEF CalcNumbers, CalcRevisionsOf
<1>. HIDE DEF f
<1>. QED
  BY <1>1, <1>2, <1>3

LEMMA NextCalcNumber ==
  ASSUME CalculationTablesInv, NEW c
  PROVE  1 + Max({0} \cup CalcNumbers(c)) \in Nat
<1>1. NextNumber(CalcNumbers(c)) \in Nat
  BY CalcNumbersBounded, NextNumberIsNumber
<1>. QED
  BY <1>1, Zenon DEF NextNumber

LEMMA RevisionFirstReads ==
  ASSUME RecordsInv, NEW t \in Threads, UNCHANGED releaseTables,
         ReadCalculation(t) \/ ReadCalcDraft(t)
  PROVE  RecordsInv'
<1>1. CASE ReadCalculation(t)
  <2>1. PICK k \in Saved :
          Goto(t, [at |-> "crev_locked", calc |-> k, user |-> owner[k], no |-> 0])
    BY <1>1 DEF ReadCalculation
  <2>2. k \in CalcIds /\ owner[k] \in Users
    BY DEF Saved, RecordsInv, CalculationTablesInv
  <2>3. PICK c : c = [at |-> "crev_locked", calc |-> k, user |-> owner[k], no |-> 0]
    OBVIOUS
  <2>4. c \in RecordCalls
    BY <2>2, <2>3 DEF RecordCalls, CalculationCalls
  <2>5. UNCHANGED calculationTables
    BY <1>1 DEF ReadCalculation
  <2>. QED
    BY <2>1, <2>3, <2>4, <2>5, PlainRecordRead DEF PlainRecordSteps
<1>2. CASE ReadCalcDraft(t)
  <2>1. PICK i \in DOMAIN calcRevisions : Goto(t, [at |-> "crev_submit", row |-> i])
    BY <1>2 DEF ReadCalcDraft
  <2>2. [at |-> "crev_submit", row |-> i] \in RecordCalls
    BY DEF RecordCalls, CalculationCalls
  <2>3. UNCHANGED calculationTables
    BY <1>2 DEF ReadCalcDraft
  <2>. QED
    BY <2>1, <2>2, <2>3, PlainRecordRead DEF PlainRecordSteps
<1>. QED
  BY <1>1, <1>2

LEMMA RevisionSecondReads ==
  ASSUME RecordsInv, NEW t \in Threads, UNCHANGED releaseTables,
         CheckLocked(t) \/ NumberCalcRevision(t)
  PROVE  RecordsInv'
<1>1. PICK d : d = calls[t]
  OBVIOUS
<1>2. d \in RecordCalls /\ d.at \in {"crev_locked", "crev_number"}
  BY <1>1 DEF CheckLocked, NumberCalcRevision, At, RecordsInv, RecordCallsInv
<1>3. d \in [at : {"crev_locked", "crev_number", "crev_insert"},
             calc : CalcIds, user : Users, no : Nat]
  BY <1>2 DEF RecordCalls, CalculationCalls, ReleaseCalls, Idle
<1>4. UNCHANGED calculationTables
  BY DEF CheckLocked, NumberCalcRevision
<1>5. CASE CheckLocked(t)
  <2>1. CASE Finish(t)
    BY <1>4, <2>1, IdleRecordCall, RecordReadOnly DEF Finish
  <2>2. CASE Continue(t, "crev_number")
    <3>1. PICK c : c = [d EXCEPT !.at = "crev_number"]
      OBVIOUS
    <3>2. c \in RecordCalls /\ c.at = "crev_number"
      BY <1>3, <3>1 DEF RecordCalls, CalculationCalls
    <3>3. Goto(t, c)
      BY <1>1, <2>2, <3>1 DEF Continue
    <3>. QED
      BY <1>4, <3>2, <3>3, PlainRecordRead DEF PlainRecordSteps
  <2>. QED
    BY <1>5, <2>1, <2>2 DEF CheckLocked
<1>6. CASE NumberCalcRevision(t)
  <2>1. PICK n : n = 1 + Max({0} \cup CalcNumbers(d.calc))
    OBVIOUS
  <2>2. n \in Nat
    BY <2>1, NextCalcNumber DEF RecordsInv
  <2>3. PICK c : c = [d EXCEPT !.at = "crev_insert", !.no = n]
    OBVIOUS
  <2>4. c \in RecordCalls /\ c.at = "crev_insert"
    BY <1>3, <2>2, <2>3 DEF RecordCalls, CalculationCalls
  <2>5. Goto(t, c)
    BY <1>1, <1>6, <2>1, <2>3, Zenon DEF NumberCalcRevision
  <2>. QED
    BY <1>4, <2>4, <2>5, PlainRecordRead DEF PlainRecordSteps
<1>. QED
  BY <1>5, <1>6

\* A revision is written: none is unlocked or moves to another calculation,
\* and what is locked or approved has been reviewed.
LEMMA RevisionsWritten ==
  ASSUME RecordsInv, UNCHANGED releaseTables, UNCHANGED <<owner, traces, releases>>,
         NEW t \in Threads, Finish(t) \/ calls' = calls,
         calcRevisions' \in Seq(CalcRevisionRows), RevisionsStay,
         LockedWasReviewed', ApprovedLocked'
  PROVE  RecordsInv'
<1>1. versions' = versions
  BY DEF releaseTables
<1>2. ReadyItemsTrue'
  <2>1. ASSUME NEW r \in DOMAIN releases, releases[r].ready, NEW x \in releases[r].items
        PROVE  x.approved /\ ItemTrue(x)'
    <3>1. x.approved /\ ItemTrue(x)
      BY <2>1 DEF RecordsInv, CalculationTablesInv, ReadyItemsTrue
    <3>. QED
      BY <3>1, ItemsStay
  <2>. QED
    BY <2>1 DEF ReadyItemsTrue, ItemTrue
<1>3. releases' \in Seq([items : SUBSET Items', ready : BOOLEAN])
  <2>. DEFINE S == [items : SUBSET Items, ready : BOOLEAN]
              T == [items : SUBSET Items', ready : BOOLEAN]
  <2>1. releases \in Seq(S)
    BY DEF RecordsInv, CalculationTablesInv
  <2>2. Items \subseteq Items'
    <3>1. /\ DOMAIN versions \subseteq DOMAIN versions' /\ Len(calcRevisions) \in Nat
          /\ Len(calcRevisions') \in Nat /\ Len(calcRevisions) <= Len(calcRevisions')
      BY <1>1, CalculationRows DEF RecordsInv, RevisionsStay
    <3>. QED
      BY <3>1, ItemsGrow
  <2>3. S \subseteq T
    BY <2>2
  <2>. HIDE DEF S, T
  <2>4. releases \in Seq(T)
    BY <2>1, <2>3, SeqMonotonic
  <2>. QED
    BY <2>4 DEF T
<1>4. owner' \in [CalcIds -> Users \cup {None}] /\ traces' \subseteq CalcIds \X DOMAIN versions'
  BY <1>1 DEF RecordsInv, CalculationTablesInv
<1>5. CalculationTablesInv'
  BY <1>2, <1>3, <1>4 DEF CalculationTablesInv
<1>. QED
  BY <1>5, CalculationWrite

LEMMA InsertCalcRevisionStep ==
  ASSUME RecordsInv, NEW t \in Threads, InsertCalcRevision(t), UNCHANGED releaseTables
  PROVE  RecordsInv'
<1>1. PICK c : c = calls[t]
  OBVIOUS
<1>2. c.calc \in CalcIds /\ c.user \in Users /\ c.no \in Nat
  BY <1>1, RecordCallFields DEF InsertCalcRevision, At, RecordsInv, RecordCallsInv
<1>3. PICK row : row = [calc |-> c.calc, no |-> c.no, status |-> "draft",
                        locked |-> FALSE, creator |-> c.user, reviewer |-> None]
  OBVIOUS
<1>4. /\ row \in CalcRevisionRows
      /\ ~row.locked /\ row.reviewer # row.creator /\ row.status # "approved"
  BY <1>2, <1>3, NoneAssumption DEF CalcRevisionRows
<1>5. UNCHANGED <<owner, traces, releases>> /\ Finish(t)
  BY DEF InsertCalcRevision
<1>6. calcRevisions' = calcRevisions \/ calcRevisions' = Append(calcRevisions, row)
  BY <1>1, <1>3, Zenon DEF InsertCalcRevision
<1>7. /\ calcRevisions \in Seq(CalcRevisionRows) /\ LockedWasReviewed /\ ApprovedLocked
      /\ Len(calcRevisions) \in Nat
  BY CalculationRows DEF RecordsInv, CalculationTablesInv
<1>8. CASE calcRevisions' = calcRevisions
  <2>1. RevisionsStay /\ LockedWasReviewed' /\ ApprovedLocked'
    BY <1>7, <1>8 DEF RevisionsStay, LockedWasReviewed, ApprovedLocked
  <2>. QED
    BY <1>5, <1>7, <1>8, <2>1, RevisionsWritten
<1>9. CASE calcRevisions' = Append(calcRevisions, row)
  <2>1. PICK k : k = Len(calcRevisions) + 1
    OBVIOUS
  <2>2. /\ calcRevisions' \in Seq(CalcRevisionRows)
        /\ Len(calcRevisions') = k
        /\ DOMAIN calcRevisions = 1 .. Len(calcRevisions) /\ DOMAIN calcRevisions' = 1 .. k
        /\ calcRevisions'[k] = row
        /\ \A i \in DOMAIN calcRevisions :
             i \in DOMAIN calcRevisions' /\ calcRevisions'[i] = calcRevisions[i]
    BY <1>4, <1>7, <1>9, <2>1, AppendedEntry
  <2>3. \A i \in DOMAIN calcRevisions' : i = k \/ i \in DOMAIN calcRevisions
    BY <1>7, <2>1, <2>2
  <2>4. RevisionsStay
    BY <1>7, <2>1, <2>2 DEF RevisionsStay
  <2>5. LockedWasReviewed'
    BY <1>4, <1>7, <2>2, <2>3 DEF LockedWasReviewed
  <2>6. ApprovedLocked'
    BY <1>4, <1>7, <2>2, <2>3 DEF ApprovedLocked
  <2>. QED
    BY <1>5, <2>2, <2>4, <2>5, <2>6, RevisionsWritten
<1>. QED
  BY <1>6, <1>8, <1>9

LEMMA RevisionRowWritten ==
  ASSUME RecordsInv, UNCHANGED releaseTables, UNCHANGED <<owner, traces, releases>>,
         NEW t \in Threads, Finish(t) \/ calls' = calls,
         NEW i \in DOMAIN calcRevisions, NEW row \in CalcRevisionRows,
         calcRevisions' = [calcRevisions EXCEPT ![i] = row],
         row.calc = calcRevisions[i].calc, calcRevisions[i].locked => row.locked,
         row.locked => row.reviewer # None, row.reviewer # row.creator,
         row.status = "approved" => row.locked
  PROVE  RecordsInv'
<1>1. /\ calcRevisions \in Seq(CalcRevisionRows) /\ LockedWasReviewed /\ ApprovedLocked
      /\ Len(calcRevisions) \in Nat /\ DOMAIN calcRevisions = 1 .. Len(calcRevisions)
  BY CalculationRows DEF RecordsInv, CalculationTablesInv
<1>2. /\ calcRevisions' \in Seq(CalcRevisionRows)
      /\ Len(calcRevisions') = Len(calcRevisions)
      /\ DOMAIN calcRevisions' = DOMAIN calcRevisions
      /\ calcRevisions'[i] = row
      /\ \A j \in DOMAIN calcRevisions \ {i} : calcRevisions'[j] = calcRevisions[j]
  BY <1>1, ExceptSeq
<1>3. RevisionsStay
  BY <1>1, <1>2 DEF RevisionsStay
<1>4. LockedWasReviewed'
  BY <1>1, <1>2 DEF LockedWasReviewed
<1>5. ApprovedLocked'
  BY <1>1, <1>2 DEF ApprovedLocked
<1>. QED
  BY <1>2, <1>3, <1>4, <1>5, RevisionsWritten

LEMMA CalcRevisionRow ==
  ASSUME RecordsInv, NEW i \in DOMAIN calcRevisions
  PROVE  /\ calcRevisions[i] \in CalcRevisionRows
         /\ calcRevisions[i].locked => calcRevisions[i].reviewer # None
         /\ calcRevisions[i].reviewer # calcRevisions[i].creator
BY CalculationRows DEF RecordsInv, CalculationTablesInv, LockedWasReviewed

LEMMA SubmitCalcRevisionStep ==
  ASSUME RecordsInv, NEW t \in Threads, SubmitCalcRevision(t), UNCHANGED releaseTables
  PROVE  RecordsInv'
<1>1. PICK i : i = calls[t].row
  OBVIOUS
<1>2. i \in DOMAIN calcRevisions
  BY <1>1, RecordCallFields DEF SubmitCalcRevision, At, RecordsInv, RecordCallsInv
<1>3. PICK row : row = [calcRevisions[i] EXCEPT !.status = "review"]
  OBVIOUS
<1>4. /\ calcRevisions[i] \in CalcRevisionRows
      /\ calcRevisions[i].locked => calcRevisions[i].reviewer # None
      /\ calcRevisions[i].reviewer # calcRevisions[i].creator
  BY <1>2, CalcRevisionRow
<1>5. /\ row \in CalcRevisionRows /\ row.calc = calcRevisions[i].calc
      /\ row.locked = calcRevisions[i].locked /\ row.reviewer = calcRevisions[i].reviewer
      /\ row.creator = calcRevisions[i].creator /\ row.status # "approved"
  BY <1>3, <1>4 DEF CalcRevisionRows
<1>6. /\ calcRevisions' = [calcRevisions EXCEPT ![i] = row]
      /\ UNCHANGED <<owner, traces, releases>> /\ Finish(t)
  BY <1>1, <1>3 DEF SubmitCalcRevision
<1>. QED
  BY <1>2, <1>4, <1>5, <1>6, RevisionRowWritten

LEMMA ApproveCalcRevisionStep ==
  ASSUME RecordsInv, NEW t \in Threads, ApproveCalcRevision(t), UNCHANGED releaseTables
  PROVE  RecordsInv'
<1>1. PICK i \in DOMAIN calcRevisions, u \in Users :
        /\ calcRevisions[i].creator # u
        /\ calcRevisions' = [calcRevisions EXCEPT 
             ![i].status = "approved", ![i].locked = TRUE, ![i].reviewer = u]
  BY Zenon DEF ApproveCalcRevision
<1>2. UNCHANGED <<owner, traces, releases, calls>>
  BY Zenon DEF ApproveCalcRevision
<1>3. PICK row : row = [calcRevisions[i] EXCEPT !.status = "approved", !.locked = TRUE,
                                                !.reviewer = u]
  OBVIOUS
<1>4. calcRevisions[i] \in CalcRevisionRows
  BY CalcRevisionRow
<1>5. /\ row \in CalcRevisionRows /\ row.calc = calcRevisions[i].calc
      /\ row.reviewer = u /\ row.creator = calcRevisions[i].creator
      /\ row.locked
  BY <1>3, <1>4 DEF CalcRevisionRows
<1>6. calcRevisions' = [calcRevisions EXCEPT ![i] = row]
  BY <1>1, <1>3, <1>4
<1>7. calcRevisions[i].locked => row.locked
  BY <1>4, <1>5 DEF CalcRevisionRows
<1>8. u # None
  BY NoneAssumption
<1>. QED
  BY <1>1, <1>2, <1>5, <1>6, <1>7, <1>8, RevisionRowWritten

LEMMA RejectCalcRevisionStep ==
  ASSUME RecordsInv, NEW t \in Threads, RejectCalcRevision(t), UNCHANGED releaseTables
  PROVE  RecordsInv'
<1>1. PICK i \in DOMAIN calcRevisions, u \in Users :
        /\ calcRevisions[i].creator # u
        /\ calcRevisions' = [calcRevisions EXCEPT 
             ![i].status = "rejected", ![i].reviewer = u]
  BY Zenon DEF RejectCalcRevision
<1>2. UNCHANGED <<owner, traces, releases, calls>>
  BY Zenon DEF RejectCalcRevision
<1>3. PICK row : row = [calcRevisions[i] EXCEPT !.status = "rejected", !.reviewer = u]
  OBVIOUS
<1>4. calcRevisions[i] \in CalcRevisionRows
  BY CalcRevisionRow
<1>5. /\ row \in CalcRevisionRows /\ row.calc = calcRevisions[i].calc
      /\ row.reviewer = u /\ row.creator = calcRevisions[i].creator
      /\ row.locked = calcRevisions[i].locked /\ row.status # "approved"
  BY <1>3, <1>4 DEF CalcRevisionRows
<1>6. calcRevisions' = [calcRevisions EXCEPT ![i] = row]
  BY <1>1, <1>3, <1>4
<1>7. calcRevisions[i].locked => row.locked
  BY <1>4, <1>5 DEF CalcRevisionRows
<1>8. u # None
  BY NoneAssumption
<1>. QED
  BY <1>1, <1>2, <1>5, <1>6, <1>7, <1>8, RevisionRowWritten

(* ---- Release packages of a project. ---- *)

\* The last revision of a calculation is one of its revisions.
LEMMA LastCalcRevisionIs ==
  ASSUME CalculationTablesInv, NEW c
  PROVE  \/ LastCalcRevision(c) = 0
         \/ LastCalcRevision(c) \in CalcRevisionsOf(c)
<1>1. CASE CalcRevisionsOf(c) = {}
  BY <1>1 DEF LastCalcRevision
<1>2. CASE CalcRevisionsOf(c) # {}
  <2>1. PICK S : S = CalcNumbers(c)
    OBVIOUS
  <2>2. PICK b \in Nat : S \in SUBSET (0 .. b)
    BY <2>1, CalcNumbersBounded
  <2>3. S # {}
    BY <1>2, <2>1 DEF CalcNumbers
  <2>4. Max(S) \in S
    BY <2>2, <2>3, MaxMember
  <2>5. PICK m \in S : m = Max(CalcNumbers(c))
    BY <2>1, <2>4
  <2>6. \E i \in CalcRevisionsOf(c) : calcRevisions[i].no = m
    BY <2>1 DEF CalcNumbers
  <2>7. LastCalcRevision(c) = CHOOSE i \in CalcRevisionsOf(c) : calcRevisions[i].no = m
    BY <1>2, <2>5, Zenon DEF LastCalcRevision
  <2>. HIDE DEF LastCalcRevision, CalcRevisionsOf
  <2>. QED
    BY <2>6, <2>7, Zenon
<1>. QED
  BY <1>1, <1>2

LEMMA ReadProjectStep ==
  ASSUME RecordsInv, NEW t \in Threads, ReadProject(t), UNCHANGED releaseTables
  PROVE  RecordsInv'
<1>1. PICK u \in Users :
        Goto(t, [at |-> "release_read", left |-> {c \in Saved : owner[c] = u}, items |-> {}])
  BY DEF ReadProject
<1>2. PICK c : c = [at |-> "release_read", left |-> {x \in Saved : owner[x] = u}, items |-> {}]
  OBVIOUS
<1>3. c \in RecordCalls
  BY <1>2 DEF RecordCalls, CalculationCalls, Saved
<1>4. RecordKnown(c)
  BY <1>2 DEF RecordKnown
<1>5. UNCHANGED calculationTables
  BY DEF ReadProject
<1>. QED
  BY <1>1, <1>2, <1>3, <1>4, <1>5, RecordReadOnly

\* An item says of the last revision what is so when it is read.
LEMMA ReadItemStep ==
  ASSUME RecordsInv, NEW t \in Threads, ReadItem(t), UNCHANGED releaseTables
  PROVE  RecordsInv'
<1>1. PICK d : d = calls[t]
  OBVIOUS
<1>2. d \in RecordCalls /\ RecordKnown(d) /\ d.at = "release_read" /\ d.left # {}
  BY <1>1 DEF RecordsInv, RecordCallsInv, ReadItem, At
<1>3. d \in [at : {"release_read"}, left : SUBSET CalcIds, items : SUBSET Items]
  BY <1>2 DEF RecordCalls, CalculationCalls, ReleaseCalls, Idle
<1>4. PICK c : c = Min(d.left)
  OBVIOUS
<1>5. c \in CalcIds
  <2>1. d.left \in SUBSET Nat /\ d.left \subseteq CalcIds
    BY <1>3 DEF CalcIds
  <2>2. Min(d.left) \in d.left
    BY <1>2, <2>1, MinMember
  <2>. QED
    BY <1>4, <2>1, <2>2
<1>6. PICK i : i = LastCalcRevision(c)
  OBVIOUS
<1>7. i = 0 \/ i \in CalcRevisionsOf(c)
  BY <1>6, LastCalcRevisionIs DEF RecordsInv
<1>8. PICK ok \in BOOLEAN : ok = (i # 0 /\ calcRevisions[i].status = "approved")
  BY Zenon
<1>9. PICK x : x = [calc |-> c, revision |-> i, approved |-> ok,
                    versions |-> {v \in DOMAIN versions : <<c, v>> \in traces}]
  OBVIOUS
<1>10. x \in Items
  <2>1. i \in 0 .. Len(calcRevisions)
    BY <1>7, CalculationRows DEF RecordsInv, CalcRevisionsOf
  <2>. QED
    BY <1>5, <1>8, <1>9, <2>1 DEF Items
<1>11. ItemTrue(x)
  BY <1>7, <1>8, <1>9
    DEF ItemTrue, CalcRevisionsOf, RecordsInv, CalculationTablesInv, ApprovedLocked
<1>12. PICK e : e = [d EXCEPT !.left = @ \ {c}, !.items = @ \cup {x}]
  OBVIOUS
<1>13. Goto(t, e) /\ UNCHANGED calculationTables
  BY <1>1, <1>4, <1>6, <1>8, <1>9, <1>12, Zenon DEF ReadItem
<1>14. /\ e \in [at : {"release_read"}, left : SUBSET CalcIds, items : SUBSET Items]
       /\ e.items = d.items \cup {x} /\ e.at = "release_read"
  BY <1>3, <1>10, <1>12
<1>15. e \in RecordCalls
  BY <1>14 DEF RecordCalls, CalculationCalls
<1>16. RecordKnown(e)
  BY <1>2, <1>11, <1>14 DEF RecordKnown
<1>. QED
  BY <1>13, <1>15, <1>16, RecordReadOnly

\* A package is ready when all its items are approved, and all of them are true.
LEMMA IssueReleaseStep ==
  ASSUME RecordsInv, NEW t \in Threads, IssueRelease(t), UNCHANGED releaseTables
  PROVE  RecordsInv'
<1>1. PICK items : items = calls[t].items
  OBVIOUS
<1>2. items \in SUBSET Items /\ \A x \in items : ItemTrue(x)
  BY <1>1, RecordCallFields DEF IssueRelease, At, RecordsInv, RecordCallsInv, RecordKnown
<1>3. PICK ready \in BOOLEAN : ready = (items # {} /\ \A x \in items : x.approved)
  BY Zenon
<1>4. PICK row : row = [items |-> items, ready |-> ready]
  OBVIOUS
<1>5. releases' = Append(releases, row)
  BY <1>1, <1>3, <1>4, Zenon DEF IssueRelease
<1>6. Finish(t) /\ UNCHANGED <<owner, traces, calcRevisions>>
  BY DEF IssueRelease
<1>7. versions' = versions
  BY DEF releaseTables
<1>8. RevisionsStay
  BY <1>6, CalculationRows DEF RecordsInv, RevisionsStay
<1>9. PICK T : T = [items : SUBSET Items, ready : BOOLEAN]
  OBVIOUS
<1>10. row \in T /\ releases \in Seq(T)
  BY <1>2, <1>4, <1>9 DEF RecordsInv, CalculationTablesInv
<1>11. PICK k : k = Len(releases) + 1
  OBVIOUS
<1>12. /\ releases' \in Seq(T)
       /\ DOMAIN releases' = 1 .. k
       /\ releases'[k] = row
       /\ \A r \in DOMAIN releases : releases'[r] = releases[r]
       /\ DOMAIN releases = 1 .. Len(releases) /\ Len(releases) \in Nat
  BY <1>5, <1>10, <1>11, AppendedEntry
<1>13. ASSUME NEW r \in DOMAIN releases', releases'[r].ready, NEW x \in releases'[r].items
       PROVE  x.approved /\ ItemTrue(x)
  <2>1. CASE r = k
    <3>1. ready /\ x \in items
      BY <1>4, <1>12, <1>13, <2>1
    <3>2. \A y \in items : y.approved
      BY <1>3, <3>1, Zenon
    <3>. QED
      BY <1>2, <3>1, <3>2, Zenon
  <2>2. CASE r # k
    <3>1. r \in DOMAIN releases /\ releases'[r] = releases[r]
      BY <1>11, <1>12, <2>2
    <3>. QED
      BY <1>13, <3>1 DEF RecordsInv, CalculationTablesInv, ReadyItemsTrue
  <2>. QED
    BY <2>1, <2>2
<1>14. ReadyItemsTrue'
  BY <1>6, <1>13 DEF ReadyItemsTrue, ItemTrue
<1>15. releases' \in Seq([items : SUBSET Items', ready : BOOLEAN])
  <2>1. Items' = Items
    BY <1>6, <1>7 DEF Items
  <2>. HIDE DEF Items
  <2>. QED
    BY <1>9, <1>12, <2>1
<1>16. LockedWasReviewed' /\ ApprovedLocked'
  BY <1>6 DEF RecordsInv, CalculationTablesInv, LockedWasReviewed, ApprovedLocked
<1>17. /\ owner' \in [CalcIds -> Users \cup {None}]
       /\ traces' \subseteq CalcIds \X DOMAIN versions'
       /\ calcRevisions' \in Seq(CalcRevisionRows)
  BY <1>6, <1>7 DEF RecordsInv, CalculationTablesInv
<1>18. CalculationTablesInv'
  BY <1>14, <1>15, <1>16, <1>17 DEF CalculationTablesInv
<1>. QED
  BY <1>6, <1>8, <1>18, CalculationWrite

LEMMA CalculationStepKeeps ==
  ASSUME RecordsInv, NEW t \in Threads, CalculationStep(t)
  PROVE  RecordsInv'
<1>1. UNCHANGED releaseTables
  BY DEF CalculationStep
<1>. QED
  BY <1>1, AddCalculationStep, TraceSteps, DeleteCalculationsStep, RevisionFirstReads,
     RevisionSecondReads, InsertCalcRevisionStep, SubmitCalcRevisionStep,
     ApproveCalcRevisionStep, RejectCalcRevisionStep, ReadProjectStep, ReadItemStep,
     IssueReleaseStep DEF CalculationStep

LEMMA RecordsNextKeeps ==
  ASSUME RecordsInv, [CalculationsNext]_calculationVars
  PROVE  RecordsInv'
<1>1. CASE CalculationsNext
  <2>1. PICK t \in Threads :
          \/ CalculationStep(t)
          \/ ReleaseStep(t) /\ UNCHANGED calculationTables
          \/ Leave(t) /\ UNCHANGED <<releaseTables, calculationTables>>
    BY <1>1 DEF CalculationsNext
  <2>2. CASE CalculationStep(t)
    BY <2>2, CalculationStepKeeps
  <2>3. CASE ReleaseStep(t) /\ UNCHANGED calculationTables
    BY <2>3, ReleaseStepKeeps
  <2>4. CASE Leave(t) /\ UNCHANGED <<releaseTables, calculationTables>>
    BY <2>4, IdleRecordCall, RecordReadOnly DEF Leave, Finish
  <2>. QED
    BY <2>1, <2>2, <2>3, <2>4
<1>2. CASE UNCHANGED calculationVars
  <2>1. UNCHANGED <<releaseTables, calculationTables>> /\ calls' = calls
    BY <1>2 DEF calculationVars, releaseVars, releaseTables, calculationTables
  <2>. QED
    BY <2>1, RecordTablesUntouched, RecordCallsUntouched DEF RecordsInv
<1>. QED
  BY <1>1, <1>2

LEMMA RecordsInitially ==
  ASSUME InitCalls, ReleasesInit, CalculationsInit
  PROVE  RecordsInv
<1>1. /\ packages = <<>> /\ versions = <<>> /\ golden = <<>> /\ certificates = <<>>
      /\ traces = {} /\ calcRevisions = <<>> /\ releases = <<>>
      /\ owner \in [CalcIds -> Users \cup {None}]
  BY DEF ReleasesInit, CalculationsInit
<1>2. ApprovedHaveVersions
  <2>1. \A d \in Required : VersionsOf(d) = {}
    BY <1>1 DEF VersionsOf
  <2>2. \A d \in Required :
          {versions[v].no : v \in VersionsOf(d)} = 1 .. Cardinality(VersionsOf(d))
    <3>1. Cardinality({}) = 0 /\ 1 .. 0 = {}
      BY FS_EmptySet
    <3>. QED
      BY <2>1, <3>1
  <2>. QED
    BY <1>1, <2>2 DEF ApprovedHaveVersions
<1>3. ReleaseTablesInv
  BY <1>1, <1>2 DEF ReleaseTablesInv, VersionsConfident, OneActivePerDataset, ActiveVersions,
                    CertifiedCasesKept, CertificatesSound
<1>4. CalculationTablesInv
  BY <1>1 DEF CalculationTablesInv, LockedWasReviewed, ApprovedLocked, ReadyItemsTrue
<1>5. RecordCallsInv
  BY IdleRecordCall DEF InitCalls, RecordCallsInv
<1>. QED
  BY <1>3, <1>4, <1>5 DEF RecordsInv

\* What the invariant says of the packages that were released.
LEMMA ReleasedItems ==
  ASSUME RecordsInv, NEW r \in DOMAIN releases
  PROVE  releases[r].items \subseteq Items /\ releases[r].ready \in BOOLEAN
<1>1. releases \in Seq([items : SUBSET Items, ready : BOOLEAN])
  BY DEF RecordsInv, CalculationTablesInv
<1>2. releases[r] \in [items : SUBSET Items, ready : BOOLEAN]
  BY <1>1, ElementOfSeq, LenProperties
<1>. QED
  BY <1>2

LEMMA ReleasedWasReviewedAlways ==
  ASSUME RecordsInv
  PROVE  ReleasedWasReviewed
<1>. SUFFICES ASSUME NEW r \in DOMAIN releases, releases[r].ready,
                     NEW x \in releases[r].items
              PROVE  /\ x.revision \in CalcRevisionsOf(x.calc)
                     /\ calcRevisions[x.revision].locked
                     /\ calcRevisions[x.revision].reviewer
                          \notin {None, calcRevisions[x.revision].creator}
                     /\ \A v \in x.versions : packages[versions[v].package].confidence = 4
  BY DEF ReleasedWasReviewed
<1>1. x \in Items
  BY ReleasedItems
<1>2. x.approved /\ ItemTrue(x)
  BY DEF RecordsInv, CalculationTablesInv, ReadyItemsTrue
<1>3. /\ x.revision \in DOMAIN calcRevisions
      /\ calcRevisions[x.revision].calc = x.calc /\ calcRevisions[x.revision].locked
  BY <1>2 DEF ItemTrue
<1>4. x.versions \subseteq DOMAIN versions
  BY <1>1 DEF Items
<1>5. \A v \in x.versions : packages[versions[v].package].confidence = 4
  BY <1>4 DEF RecordsInv, ReleaseTablesInv, VersionsConfident
<1>6. /\ calcRevisions[x.revision].reviewer # None
      /\ calcRevisions[x.revision].reviewer # calcRevisions[x.revision].creator
  BY <1>3, CalcRevisionRow
<1>. QED
  BY <1>3, <1>5, <1>6 DEF CalcRevisionsOf

LEMMA RecordsInvariant == CalculationsSpec => []RecordsInv
<1>1. InitCalls /\ ReleasesInit /\ CalculationsInit => RecordsInv
  BY RecordsInitially
<1>2. RecordsInv /\ [CalculationsNext]_calculationVars => RecordsInv'
  BY RecordsNextKeeps
<1>. QED
  BY <1>1, <1>2, PTL DEF CalculationsSpec

\* Every row of the data releases and of the calculations, and all that a
\* request has read of them, has its type.
THEOREM CalculationsTypeCorrect == CalculationsSpec => []CalculationsTypeOK
<1>1. RecordsInv => CalculationsTypeOK
  BY ReleasedItems
    DEF RecordsInv, CalculationTablesInv, RecordCallsInv, RecordCalls, CalculationsTypeOK
<1>. QED
  BY <1>1, RecordsInvariant, PTL

\* Certificates and release packages say what was so: approvals have versions
\* numbered without gaps, a data set has one active version, a certificate
\* that is ready names one valid version of every data set, and every item of
\* a package that is ready rests on a revision locked by a second person.
THEOREM RecordsAlwaysReleasedSoundly == CalculationsSpec => []RecordsReleasedSoundly
<1>1. RecordsInv => ReleasesSound
  BY DEF RecordsInv, ReleaseTablesInv, ReleasesSound
<1>2. RecordsInv => LockedWasReviewed
  BY DEF RecordsInv, CalculationTablesInv
<1>3. RecordsInv => ReleasedWasReviewed
  BY ReleasedWasReviewedAlways
<1>4. RecordsInv => RecordsReleasedSoundly
  BY <1>1, <1>2, <1>3 DEF RecordsReleasedSoundly
<1>. QED
  BY <1>4, RecordsInvariant, PTL

(* ---- The tool register ---- *)

LEMMA StudyRow ==
  ASSUME toolStudies \in Seq([tool : ToolIds, date : Days])
  PROVE  /\ Len(toolStudies) \in Nat /\ DOMAIN toolStudies = 1 .. Len(toolStudies)
         /\ \A k \in DOMAIN toolStudies :
              k \in Nat \ {0} /\ toolStudies[k].date \in Nat /\ toolStudies[k].tool \in ToolIds
<1>. DEFINE T == [tool : ToolIds, date : Days]
<1>1. Len(toolStudies) \in Nat /\ DOMAIN toolStudies = 1 .. Len(toolStudies)
  BY LenProperties
<1>2. \A k \in DOMAIN toolStudies : toolStudies[k] \in T
  <2>. HIDE DEF T
  <2>1. toolStudies \in Seq(T)
    BY DEF T
  <2>. QED
    BY <1>1, <2>1, ElementOfSeq
<1>3. Days \subseteq Nat
  BY ToolsAssumption
<1>4. \A k \in DOMAIN toolStudies : toolStudies[k].date \in Days /\ toolStudies[k].tool \in ToolIds
  BY <1>2
<1>5. \A k \in DOMAIN toolStudies : k \in Nat \ {0}
  BY <1>1
<1>. HIDE DEF T
<1>. QED
  BY <1>1, <1>3, <1>4, <1>5

\* The studies of a tool, and no two of them alike in date and number.
LEMMA StudiesInOrder ==
  ASSUME toolStudies \in Seq([tool : ToolIds, date : Days]),
         NEW S \in SUBSET DOMAIN toolStudies
  PROVE  /\ IsFiniteSet(S) /\ S \subseteq Nat \ {0}
         /\ \A n \in 1 .. Cardinality(S) :
              \E k \in S : Cardinality({j \in S : IsLater(j, k)}) = n - 1
<1>0. PICK R : R = {p \in S \X S : IsLater(p[1], p[2])}
  OBVIOUS
<1>1. DOMAIN toolStudies = 1 .. Len(toolStudies) /\ Len(toolStudies) \in Nat
  BY LenProperties
<1>2. IsFiniteSet(S) /\ S \subseteq Nat \ {0}
  <2>1. IsFiniteSet(1 .. Len(toolStudies))
    BY <1>1, FS_Interval
  <2>. QED
    BY <1>1, <2>1, FS_Subset
<1>3. \A k \in S : toolStudies[k].date \in Nat
  BY StudyRow
<1>4. \A i, j \in S : <<i, j>> \in R <=> IsLater(i, j)
  BY <1>0
<1>5. /\ \A i \in S : ~IsLater(i, i)
      /\ \A i, j, k \in S : IsLater(i, j) /\ IsLater(j, k) => IsLater(i, k)
      /\ \A i, j \in S : i = j \/ IsLater(i, j) \/ IsLater(j, i)
  BY <1>2, <1>3 DEF IsLater
<1>6. /\ \A i \in S : <<i, i>> \notin R
      /\ \A i, j, k \in S : <<i, j>> \in R /\ <<j, k>> \in R => <<i, k>> \in R
      /\ \A i, j \in S : i = j \/ <<i, j>> \in R \/ <<j, i>> \in R
  BY <1>4, <1>5
<1>8. ASSUME NEW n \in 1 .. Cardinality(S)
      PROVE  \E k \in S : Cardinality(Preceding(S, R, k)) = n - 1
  <2>1. IsFiniteSet(S)
    BY <1>2
  <2>. QED
    BY <1>6, <2>1, Places
<1>7. \A k \in S : Preceding(S, R, k) = {j \in S : IsLater(j, k)}
  BY <1>4, Zenon DEF Preceding
<1>. QED
  BY <1>2, <1>7, <1>8, Zenon

\* The latest study is one of the tool's, and later than every other.
LEMMA LatestIsLatest ==
  ASSUME toolStudies \in Seq([tool : ToolIds, date : Days]), NEW id
  PROVE  /\ StudiesOf(id) \subseteq DOMAIN toolStudies
         /\ LatestStudy(id) \in Nat
         /\ StudiesOf(id) = {} => LatestStudy(id) = 0
         /\ StudiesOf(id) # {} =>
              /\ LatestStudy(id) \in StudiesOf(id)
              /\ \A j \in StudiesOf(id) \ {LatestStudy(id)} : IsLater(LatestStudy(id), j)
<1>. DEFINE S == StudiesOf(id)
<1>1. S \in SUBSET DOMAIN toolStudies
  BY DEF StudiesOf
<1>. HIDE DEF S
<1>2. IsFiniteSet(S) /\ S \subseteq Nat \ {0}
  BY <1>1, StudiesInOrder
<1>3. CASE S # {}
  <2>1. Cardinality(S) \in Nat /\ Cardinality(S) # 0
    BY <1>2, <1>3, FS_CardinalityType, FS_EmptySet
  <2>2. PICK k \in S : Cardinality({j \in S : IsLater(j, k)}) = 0
    <3>1. 1 \in 1 .. Cardinality(S) /\ 1 - 1 = 0
      BY <2>1
    <3>2. \E k \in S : Cardinality({j \in S : IsLater(j, k)}) = 1 - 1
      BY <1>1, <3>1, StudiesInOrder
    <3>. QED
      BY <3>1, <3>2
  <2>3. {j \in S : IsLater(j, k)} = {}
    <3>1. {j \in S : IsLater(j, k)} \in SUBSET S
      OBVIOUS
    <3>2. IsFiniteSet({j \in S : IsLater(j, k)})
      BY <1>2, <3>1, FS_Subset
    <3>. QED
      BY <2>2, <3>2, FS_EmptySet
  <2>4. \A j \in S : toolStudies[j].date \in Nat /\ j \in Nat
    BY <1>1, StudyRow
  <2>5. \A j \in S \ {k} : IsLater(k, j)
    BY <2>3, <2>4 DEF IsLater
  <2>6. LatestStudy(id) = CHOOSE m \in S : \A j \in S \ {m} : IsLater(m, j)
    BY <1>3 DEF LatestStudy, S
  <2>7. /\ LatestStudy(id) \in S
        /\ \A j \in S \ {LatestStudy(id)} : IsLater(LatestStudy(id), j)
    BY <2>5, <2>6, Zenon
  <2>. QED
    BY <1>1, <1>2, <1>3, <2>7 DEF S
<1>4. CASE S = {}
  BY <1>1, <1>4 DEF LatestStudy, S
<1>. QED
  BY <1>3, <1>4

\* A list of studies is as long as there are studies, and starts with the latest.
LEMMA LatestComesFirst ==
  ASSUME toolStudies \in Seq([tool : ToolIds, date : Days]), NEW id
  PROVE  /\ LatestFirst(StudiesOf(id)) \in Seq(Nat)
         /\ IF LatestFirst(StudiesOf(id)) = <<>> THEN LatestStudy(id) = 0
            ELSE LatestFirst(StudiesOf(id))[1] = LatestStudy(id)
<1>. DEFINE S == StudiesOf(id)
            P(i, k) == Cardinality({j \in S : IsLater(j, k)}) = i - 1
            list == [i \in 1 .. Cardinality(S) |-> CHOOSE k \in S : P(i, k)]
<1>1. S \in SUBSET DOMAIN toolStudies
  BY DEF StudiesOf
<1>2. LatestFirst(S) = list
  BY DEF LatestFirst
<1>3. /\ IsFiniteSet(S) /\ S \subseteq Nat \ {0}
      /\ \A i \in 1 .. Cardinality(S) : \E k \in S : P(i, k)
  <2>. HIDE DEF S
  <2>. QED
    BY <1>1, StudiesInOrder
<1>4. Cardinality(S) \in Nat /\ (Cardinality(S) = 0 <=> S = {})
  BY <1>3, FS_CardinalityType, FS_EmptySet
<1>5. ASSUME NEW i \in 1 .. Cardinality(S)
      PROVE  list[i] \in S /\ P(i, list[i])
  <2>1. list[i] = CHOOSE k \in S : P(i, k)
    OBVIOUS
  <2>. HIDE DEF list, P
  <2>. QED
    BY <1>3, <2>1, Zenon
<1>6. list \in Seq(Nat) /\ Len(list) = Cardinality(S) /\ (list = <<>> <=> S = {})
  <2>1. \A i \in 1 .. Cardinality(S) : list[i] \in Nat
    BY <1>3, <1>5, Zenon
  <2>2. list \in [1 .. Cardinality(S) -> Nat]
    <3>. HIDE DEF P, S
    <3>. QED
      BY <2>1
  <2>3. list \in Seq(Nat)
    <3>. HIDE DEF list, P, S
    <3>. QED
      BY <1>4, <2>2, SeqDef
  <2>4. Len(list) \in Nat /\ DOMAIN list = 1 .. Len(list)
    BY <2>3, LenProperties
  <2>5. DOMAIN list = 1 .. Cardinality(S)
    OBVIOUS
  <2>. HIDE DEF list
  <2>6. Len(list) = Cardinality(S)
    BY <1>4, <2>4, <2>5
  <2>. QED
    BY <1>4, <2>3, <2>6, EmptySeq
<1>7. CASE S = {}
  <2>. HIDE DEF list
  <2>. QED
    BY <1>2, <1>6, <1>7, LatestIsLatest
<1>8. CASE S # {}
  <2>1. 1 \in 1 .. Cardinality(S)
    BY <1>4, <1>8
  <2>2. list[1] \in S /\ P(1, list[1])
    BY <1>5, <2>1
  <2>. HIDE DEF list
  <2>3. {j \in S : IsLater(j, list[1])} = {}
    <3>1. {j \in S : IsLater(j, list[1])} \in SUBSET S
      OBVIOUS
    <3>2. IsFiniteSet({j \in S : IsLater(j, list[1])})
      BY <1>3, <3>1, FS_Subset
    <3>3. Cardinality({j \in S : IsLater(j, list[1])}) = 0
      BY <2>2
    <3>. QED
      BY <3>2, <3>3, FS_EmptySet
  <2>4. LatestStudy(id) \in S /\ \A j \in S \ {LatestStudy(id)} : IsLater(LatestStudy(id), j)
    BY <1>8, LatestIsLatest
  <2>5. list[1] = LatestStudy(id)
    BY <2>2, <2>3, <2>4
  <2>. QED
    BY <1>2, <1>6, <1>8, <2>5
<1>. QED
  BY <1>7, <1>8

(* ---- The summary. ---- *)

LEMMA Apart ==
  ASSUME NEW S, NEW T, IsFiniteSet(S), IsFiniteSet(T), S \cap T = {}
  PROVE  /\ IsFiniteSet(S \cup T)
         /\ Cardinality(S \cup T) = Cardinality(S) + Cardinality(T)
<1>1. Cardinality(S) \in Nat /\ Cardinality(T) \in Nat /\ Cardinality({}) = 0
  BY FS_CardinalityType, FS_EmptySet
<1>2. /\ IsFiniteSet(S \cup T)
      /\ Cardinality(S \cup T) = Cardinality(S) + Cardinality(T) - Cardinality(S \cap T)
  BY FS_Union
<1>3. Cardinality(S \cap T) = 0
  BY <1>1, Zenon
<1>. QED
  BY <1>1, <1>2, <1>3

\* The active rows shown with a status.
ShownAs(rows, now, s) ==
  {i \in DOMAIN rows : rows[i].active /\ EffectiveStatus(rows[i], now) = s}

\* What a summary counts is what a reader of the rows would.
LEMMA SummaryCounts ==
  ASSUME NEW rows \in Seq(ToolRows), NEW now \in Days
  PROVE  LET counts == SummaryOf(rows, now)
         IN  /\ counts \in [total : Nat, active : Nat, inactive : Nat,
                            by : [OpStatuses -> Nat], expired : Nat]
             /\ counts.total = counts.active + counts.inactive
             /\ counts.active =
                  counts.by["OK"] + counts.by["KONTROL"] + counts.by["YETERSIZ"]
             /\ counts.expired = Cardinality(ShownAs(rows, now, "SURESI DOLMUS"))
             /\ \A s \in OpStatuses : Cardinality(ShownAs(rows, now, s)) <= counts.by[s]
<1>. DEFINE active == {i \in DOMAIN rows : rows[i].active}
            with(s) == {i \in active : rows[i].status = s}
            late == {i \in active : IsExpired(rows[i].due, now)}
            shownAs(s) == ShownAs(rows, now, s)
            counts == SummaryOf(rows, now)
<1>1. /\ Len(rows) \in Nat /\ DOMAIN rows = 1 .. Len(rows)
      /\ \A i \in DOMAIN rows : rows[i] \in ToolRows
  BY LenProperties, ElementOfSeq
<1>2. \A i \in DOMAIN rows : rows[i].status \in {"OK", "KONTROL", "YETERSIZ"}
  BY <1>1 DEF ToolRows, OpStatuses
<1>3. IsFiniteSet(DOMAIN rows) /\ Cardinality(DOMAIN rows) = Len(rows)
  BY <1>1, FS_Interval
<1>4. IsFiniteSet(active) /\ Cardinality(active) \in Nat /\ Cardinality(active) <= Len(rows)
  <2>1. active \in SUBSET DOMAIN rows
    OBVIOUS
  <2>. HIDE DEF active
  <2>. QED
    BY <1>3, <2>1, FS_Subset, FS_CardinalityType
<1>5. ASSUME NEW s
      PROVE  IsFiniteSet(with(s)) /\ Cardinality(with(s)) \in Nat
  <2>1. with(s) \in SUBSET active
    OBVIOUS
  <2>. HIDE DEF active, with
  <2>. QED
    BY <1>4, <2>1, FS_Subset, FS_CardinalityType
<1>6. Cardinality(active) =
        Cardinality(with("OK")) + Cardinality(with("KONTROL")) + Cardinality(with("YETERSIZ"))
  <2>1. /\ active = (with("OK") \cup with("KONTROL")) \cup with("YETERSIZ")
        /\ with("OK") \cap with("KONTROL") = {}
        /\ (with("OK") \cup with("KONTROL")) \cap with("YETERSIZ") = {}
    BY <1>2
  <2>. HIDE DEF active, with
  <2>2. /\ IsFiniteSet(with("OK") \cup with("KONTROL"))
        /\ Cardinality(with("OK") \cup with("KONTROL")) =
             Cardinality(with("OK")) + Cardinality(with("KONTROL"))
    BY <1>5, <2>1, Apart
  <2>. QED
    BY <1>5, <2>1, <2>2, Apart
<1>7. IsFiniteSet(late) /\ Cardinality(late) \in Nat
  <2>1. late \in SUBSET active
    OBVIOUS
  <2>. HIDE DEF active, late
  <2>. QED
    BY <1>4, <2>1, FS_Subset, FS_CardinalityType
<1>8. shownAs("SURESI DOLMUS") = late
  BY <1>2 DEF EffectiveStatus, ShownAs
<1>9. ASSUME NEW s \in OpStatuses
      PROVE  Cardinality(shownAs(s)) <= Cardinality(with(s))
  <2>1. shownAs(s) \in SUBSET with(s)
    BY DEF EffectiveStatus, OpStatuses, ShownAs
  <2>. HIDE DEF shownAs, with
  <2>. QED
    BY <1>5, <2>1, FS_Subset
<1>10. /\ counts = [total |-> Len(rows), active |-> Cardinality(active),
                    inactive |-> Len(rows) - Cardinality(active),
                    by |-> [s \in OpStatuses |-> Cardinality(with(s))],
                    expired |-> Cardinality(late)]
  BY DEF SummaryOf
<1>. HIDE DEF active, with, late, counts, shownAs
<1>11. [s \in OpStatuses |-> Cardinality(with(s))] \in [OpStatuses -> Nat]
  BY <1>5
<1>12. \A s \in OpStatuses : counts.by[s] = Cardinality(with(s))
  BY <1>10
<1>13. /\ counts.total = Len(rows) /\ counts.active = Cardinality(active)
       /\ counts.inactive = Len(rows) - Cardinality(active)
       /\ counts.expired = Cardinality(late)
  BY <1>10
<1>14. counts \in [total : Nat, active : Nat, inactive : Nat,
                   by : [OpStatuses -> Nat], expired : Nat]
  BY <1>1, <1>4, <1>7, <1>10, <1>11
<1>15. counts.active = counts.by["OK"] + counts.by["KONTROL"] + counts.by["YETERSIZ"]
  BY <1>6, <1>12, <1>13 DEF OpStatuses
<1>16. \A s \in OpStatuses : Cardinality(shownAs(s)) <= counts.by[s]
  BY <1>9, <1>12
<1>17. counts.total = counts.active + counts.inactive
  BY <1>1, <1>4, <1>13
<1>. QED
  BY <1>8, <1>13, <1>14, <1>15, <1>16, <1>17 DEF counts, shownAs

(* ---- The inductive invariant. ---- *)

\* The study shown was the latest of the first n.
ShownOf(id, shown, n) ==
  LET own == StudiesOf(id) \cap 1..n IN
    IF own = {} THEN shown = 0
    ELSE /\ shown \in own
         /\ \A k \in own : toolStudies[k].date <= toolStudies[shown].date
         /\ \A k \in own : k > shown => toolStudies[k].date < toolStudies[shown].date

\* What a request has read of the register, and what it makes of it.
ToolKnown(c) ==
  /\ c.at = "tool_latest" => Len(c.latest) <= Len(c.ids)
  /\ c.at = "tools_answered" => Len(c.latest) = Len(c.ids)
  /\ c.at \in {"tool_latest", "tools_answered"} =>
       /\ c.seen <= Len(toolStudies)
       /\ \A i \in DOMAIN c.latest :
            \E n \in c.seen..Len(toolStudies) : ShownOf(c.ids[i], c.latest[i], n)
  /\ c.at = "tools_summary" => c.counts = SummaryOf(c.rows, c.now)
  /\ c.at = "studies_listed" =>
       IF c.listed = <<>> THEN c.first = 0 ELSE c.listed[1] = c.first

ToolTablesInv ==
  /\ tools \in Seq(ToolRows)
  /\ Len(tools) <= MaxTools
  /\ toolStudies \in Seq([tool : ToolIds, date : Days])
  /\ Len(toolStudies) <= MaxToolStudies
  /\ RegistrationsUnique

ToolCallsInv ==
  /\ calls \in [Threads -> ToolCalls]
  /\ \A t \in Threads : ToolKnown(calls[t])

ToolsInv == ToolTablesInv /\ ToolCallsInv

\* What the place of a call says about its fields.
LEMMA ToolCallFields ==
  ASSUME NEW c \in ToolCalls
  PROVE  /\ c.at \in {"tool_latest", "tools_answered"} =>
              /\ c = [at |-> c.at, ids |-> c.ids, latest |-> c.latest, seen |-> c.seen]
              /\ c.ids \in Seq(ToolIds) /\ c.latest \in Seq(Nat) /\ c.seen \in Nat
         /\ c.at = "tools_summary" => c.rows \in Seq(ToolRows) /\ c.now \in Days
         /\ c.at = "tool_study" => c.id \in ToolIds /\ c.date \in Days
BY DEF ToolCalls, Idle

\* Tools stay in the register, and studies as they are.
RegisterGrows ==
  /\ DOMAIN tools \subseteq DOMAIN tools'
  /\ Len(toolStudies) <= Len(toolStudies')
  /\ \A k \in DOMAIN toolStudies : k \in DOMAIN toolStudies' /\ toolStudies'[k] = toolStudies[k]

\* What was the latest of the first n still was.
LEMMA ShownStays ==
  ASSUME ToolTablesInv, ToolTablesInv', RegisterGrows,
         NEW id, NEW shown, NEW n \in 0 .. Len(toolStudies), ShownOf(id, shown, n)
  PROVE  ShownOf(id, shown, n)'
<1>. DEFINE own == StudiesOf(id) \cap 1..n
<1>1. Len(toolStudies) \in Nat /\ DOMAIN toolStudies = 1 .. Len(toolStudies)
  BY StudyRow DEF ToolTablesInv
<1>2. Len(toolStudies') \in Nat /\ DOMAIN toolStudies' = 1 .. Len(toolStudies')
  BY LenProperties DEF ToolTablesInv
<1>3. 1..n \subseteq DOMAIN toolStudies /\ 1..n \subseteq DOMAIN toolStudies'
  BY <1>1, <1>2 DEF RegisterGrows
<1>4. own' = own
  BY <1>3 DEF StudiesOf, RegisterGrows
<1>5. \A k \in own : toolStudies'[k] = toolStudies[k]
  BY <1>3 DEF RegisterGrows
<1>6. ShownOf(id, shown, n)' <=>
        IF own' = {} THEN shown = 0
        ELSE /\ shown \in own'
             /\ \A k \in own' : toolStudies'[k].date <= toolStudies'[shown].date
             /\ \A k \in own' : k > shown => toolStudies'[k].date < toolStudies'[shown].date
  BY DEF ShownOf
<1>7. IF own = {} THEN shown = 0
      ELSE /\ shown \in own
           /\ \A k \in own : toolStudies[k].date <= toolStudies[shown].date
           /\ \A k \in own : k > shown => toolStudies[k].date < toolStudies[shown].date
  BY DEF ShownOf
<1>. HIDE DEF own
<1>. QED
  BY <1>4, <1>5, <1>6, <1>7

LEMMA ToolCallsGrow ==
  ASSUME DOMAIN tools \subseteq DOMAIN tools', NEW c \in ToolCalls
  PROVE  c \in ToolCalls'
<1>1. Seq(ToolIds) \subseteq Seq(ToolIds')
  BY SeqMonotonic DEF ToolIds
<1>2. ToolIds \subseteq ToolIds'
  BY DEF ToolIds
<1>. QED
  BY <1>1, <1>2 DEF ToolCalls

LEMMA KnownStays ==
  ASSUME ToolTablesInv, ToolTablesInv', RegisterGrows, NEW c \in ToolCalls, ToolKnown(c)
  PROVE  ToolKnown(c)'
<1>1. Len(toolStudies) \in Nat /\ Len(toolStudies') \in Nat
  BY LenProperties DEF ToolTablesInv
<1>2. ASSUME c.at \in {"tool_latest", "tools_answered"}
      PROVE  /\ c.seen <= Len(toolStudies')
             /\ \A i \in DOMAIN c.latest :
                  \E n \in c.seen..Len(toolStudies') : ShownOf(c.ids[i], c.latest[i], n)'
  <2>1. c.seen \in Nat /\ c.seen <= Len(toolStudies)
    BY <1>2, ToolCallFields DEF ToolKnown
  <2>2. ASSUME NEW i \in DOMAIN c.latest
        PROVE  \E n \in c.seen..Len(toolStudies') : ShownOf(c.ids[i], c.latest[i], n)'
    <3>1. PICK n \in c.seen..Len(toolStudies) : ShownOf(c.ids[i], c.latest[i], n)
      BY <1>2 DEF ToolKnown
    <3>2. n \in 0 .. Len(toolStudies) /\ n \in c.seen..Len(toolStudies')
      BY <1>1, <2>1 DEF RegisterGrows
    <3>. QED
      BY <3>1, <3>2, ShownStays
  <2>. QED
    BY <1>1, <2>1, <2>2 DEF RegisterGrows
<1>3. (c.at = "tools_summary" => c.counts = SummaryOf(c.rows, c.now))
  BY DEF ToolKnown
<1>4. SummaryOf(c.rows, c.now)' = SummaryOf(c.rows, c.now)
  OBVIOUS
<1>5. ToolKnown(c)' <=>
        /\ c.at = "tool_latest" => Len(c.latest) <= Len(c.ids)
        /\ c.at = "tools_answered" => Len(c.latest) = Len(c.ids)
        /\ c.at \in {"tool_latest", "tools_answered"} =>
             /\ c.seen <= Len(toolStudies')
             /\ \A i \in DOMAIN c.latest :
                  \E n \in c.seen..Len(toolStudies') : ShownOf(c.ids[i], c.latest[i], n)'
        /\ c.at = "tools_summary" => c.counts = SummaryOf(c.rows, c.now)
        /\ c.at = "studies_listed" =>
             IF c.listed = <<>> THEN c.first = 0 ELSE c.listed[1] = c.first
  BY DEF ToolKnown
<1>. QED
  BY <1>2, <1>5 DEF ToolKnown

\* One request moves, and the others still know what they knew.
LEMMA OneToolRequestMoves ==
  ASSUME ToolsInv, ToolTablesInv', RegisterGrows, NEW t \in Threads,
         NEW c, Goto(t, c), c \in ToolCalls', ToolKnown(c)'
  PROVE  ToolsInv'
<1>1. calls' = [calls EXCEPT ![t] = c] /\ calls \in [Threads -> ToolCalls]
  BY DEF Goto, ToolsInv, ToolCallsInv
<1>2. \A u \in Threads : calls[u] \in ToolCalls'
  BY <1>1, ToolCallsGrow DEF RegisterGrows
<1>3. /\ calls' \in [Threads -> ToolCalls']
      /\ calls'[t] = c
      /\ \A u \in Threads \ {t} : calls'[u] = calls[u]
  BY <1>1, <1>2
<1>4. ASSUME NEW u \in Threads
      PROVE  ToolKnown(calls[u])'
  <2>1. CASE u = t
    <3>1. calls'[u] = c
      BY <1>3, <2>1
    <3>. QED
      BY <3>1 DEF ToolKnown, ShownOf
  <2>2. CASE u # t
    <3>1. PICK d : d = calls[u]
      OBVIOUS
    <3>2. d \in ToolCalls /\ ToolKnown(d) /\ calls'[u] = d
      BY <1>1, <1>3, <2>2, <3>1 DEF ToolsInv, ToolCallsInv
    <3>3. ToolKnown(d)'
      BY <3>2, KnownStays DEF ToolsInv
    <3>. QED
      BY <3>2, <3>3 DEF ToolKnown, ShownOf
  <2>. QED
    BY <2>1, <2>2
<1>. QED
  BY <1>3, <1>4 DEF ToolsInv, ToolCallsInv

\* A step that only reads.
LEMMA ToolReadOnly ==
  ASSUME ToolsInv, UNCHANGED toolTables, NEW t \in Threads,
         NEW c \in ToolCalls, Goto(t, c), ToolKnown(c)
  PROVE  ToolsInv'
<1>1. tools' = tools /\ toolStudies' = toolStudies
  BY DEF toolTables
<1>2. ToolTablesInv' /\ RegisterGrows
  BY <1>1, LenProperties DEF ToolsInv, ToolTablesInv, RegistrationsUnique, ToolIds, RegisterGrows
<1>3. c \in ToolCalls' /\ ToolKnown(c)'
  BY <1>2, ToolCallsGrow, KnownStays DEF RegisterGrows, ToolsInv
<1>. QED
  BY <1>2, <1>3, OneToolRequestMoves

LEMMA IdleTool == Idle \in ToolCalls /\ ToolKnown(Idle)
BY DEF ToolCalls, ToolKnown, Idle

LEMMA IdleToolAfter == Idle \in ToolCalls' /\ ToolKnown(Idle)'
BY DEF ToolCalls, ToolKnown, Idle

\* A request that has read rows knows nothing yet of their studies.
LEMMA AnsweringKnown ==
  ASSUME toolStudies \in Seq([tool : ToolIds, date : Days]), NEW ids \in Seq(ToolIds)
  PROVE  Answering(ids) \in ToolCalls /\ ToolKnown(Answering(ids))
<1>1. Len(toolStudies) \in Nat /\ Len(ids) \in Nat
  BY LenProperties
<1>2. <<>> \in Seq(Nat) /\ Len(<<>>) = 0 /\ DOMAIN <<>> = {}
  OBVIOUS
<1>3. Answering(ids) \in ToolCalls
  BY <1>1, <1>2 DEF Answering, ToolCalls
<1>4. PICK c : c = Answering(ids)
  OBVIOUS
<1>5. /\ c.at = "tool_latest" /\ c.ids = ids /\ c.latest = <<>>
      /\ c.seen = Len(toolStudies)
  BY <1>4 DEF Answering
<1>6. ToolKnown(c)
  BY <1>1, <1>2, <1>5 DEF ToolKnown
<1>. QED
  BY <1>3, <1>4, <1>6

LEMMA ReadToolsStep ==
  ASSUME ToolsInv, NEW t \in Threads, ReadTools(t)
  PROVE  ToolsInv'
<1>1. /\ Len(tools) \in Nat /\ DOMAIN tools = 1 .. Len(tools)
      /\ toolStudies \in Seq([tool : ToolIds, date : Days])
  BY LenProperties DEF ToolsInv, ToolTablesInv
<1>2. PICK list : Goto(t, Answering(list)) /\ list \in Seq(ToolIds)
  <2>1. CASE \E ids \in SUBSET DOMAIN tools : Goto(t, Answering(Ascending(ids)))
    BY <1>1, <2>1, AscendingLists DEF ToolIds
  <2>2. CASE \E id \in DOMAIN tools : Goto(t, Answering(<<id>>))
    <3>1. \A id \in DOMAIN tools : <<id>> \in Seq(ToolIds)
      BY DEF ToolIds
    <3>. QED
      BY <2>2, <3>1
  <2>. QED
    BY <2>1, <2>2, Zenon DEF ReadTools
<1>3. UNCHANGED toolTables
  BY DEF ReadTools
<1>. QED
  BY <1>1, <1>2, <1>3, AnsweringKnown, ToolReadOnly

\* The latest study is shown as such at the moment it is read.
LEMMA LatestShown ==
  ASSUME toolStudies \in Seq([tool : ToolIds, date : Days]), NEW id
  PROVE  ShownOf(id, LatestStudy(id), Len(toolStudies))
<1>1. /\ Len(toolStudies) \in Nat
      /\ DOMAIN toolStudies = 1 .. Len(toolStudies)
      /\ \A k \in DOMAIN toolStudies : k \in Nat /\ toolStudies[k].date \in Nat
  BY StudyRow
<1>2. /\ StudiesOf(id) \subseteq DOMAIN toolStudies
      /\ StudiesOf(id) = {} => LatestStudy(id) = 0
      /\ StudiesOf(id) # {} =>
           /\ LatestStudy(id) \in StudiesOf(id)
           /\ \A j \in StudiesOf(id) \ {LatestStudy(id)} : IsLater(LatestStudy(id), j)
  BY LatestIsLatest
<1>3. StudiesOf(id) \cap 1 .. Len(toolStudies) = StudiesOf(id)
  BY <1>1, <1>2
<1>4. CASE StudiesOf(id) = {}
  BY <1>2, <1>3, <1>4 DEF ShownOf
<1>5. CASE StudiesOf(id) # {}
  <2>1. \A j \in StudiesOf(id) :
          /\ toolStudies[j].date <= toolStudies[LatestStudy(id)].date
          /\ j > LatestStudy(id) => toolStudies[j].date < toolStudies[LatestStudy(id)].date
    BY <1>1, <1>2, <1>5 DEF IsLater
  <2>. QED
    BY <1>2, <1>3, <1>5, <2>1 DEF ShownOf
<1>. QED
  BY <1>4, <1>5

LEMMA AttachLatestStep ==
  ASSUME ToolsInv, NEW t \in Threads, AttachLatest(t)
  PROVE  ToolsInv'
<1>1. PICK d : d = calls[t]
  OBVIOUS
<1>2. d \in ToolCalls /\ ToolKnown(d) /\ d.at = "tool_latest" /\ UNCHANGED toolTables
  BY <1>1 DEF ToolsInv, ToolCallsInv, AttachLatest, At
<1>3. /\ d = [at |-> d.at, ids |-> d.ids, latest |-> d.latest, seen |-> d.seen]
      /\ d.ids \in Seq(ToolIds) /\ d.latest \in Seq(Nat) /\ d.seen \in Nat
  BY <1>2, ToolCallFields
<1>4. /\ Len(d.ids) \in Nat /\ Len(d.latest) \in Nat /\ Len(d.latest) <= Len(d.ids)
      /\ DOMAIN d.latest = 1 .. Len(d.latest)
  BY <1>2, <1>3, LenProperties DEF ToolKnown
<1>5. toolStudies \in Seq([tool : ToolIds, date : Days]) /\ Len(toolStudies) \in Nat
  BY LenProperties DEF ToolsInv, ToolTablesInv
<1>6. CASE Len(d.latest) = Len(d.ids)
  <2>1. PICK c : c = [at |-> "tools_answered", ids |-> d.ids, latest |-> d.latest,
                      seen |-> d.seen]
    OBVIOUS
  <2>2. Goto(t, c)
    <3>1. Goto(t, [d EXCEPT !.at = "tools_answered"])
      BY <1>1, <1>6 DEF AttachLatest, Continue
    <3>2. [d EXCEPT !.at = "tools_answered"] = c
      BY <1>3, <2>1
    <3>. QED
      BY <3>1, <3>2
  <2>3. c \in ToolCalls
    BY <1>3, <2>1 DEF ToolCalls
  <2>4. ToolKnown(c)
    BY <1>2, <1>6, <2>1 DEF ToolKnown
  <2>. QED
    BY <1>2, <2>2, <2>3, <2>4, ToolReadOnly
<1>7. CASE Len(d.latest) # Len(d.ids)
  <2>1. PICK id, study : id = d.ids[Len(d.latest) + 1] /\ study = LatestStudy(id)
    OBVIOUS
  <2>2. PICK c, list : /\ c = [at |-> "tool_latest", ids |-> d.ids, latest |-> list,
                              seen |-> d.seen]
                       /\ list = Append(d.latest, study)
    OBVIOUS
  <2>3. Goto(t, c)
    <3>1. Goto(t, [d EXCEPT !.latest = list])
      BY <1>1, <1>7, <2>1, <2>2 DEF AttachLatest
    <3>2. d = [at |-> "tool_latest", ids |-> d.ids, latest |-> d.latest, seen |-> d.seen]
      BY <1>2, <1>3
    <3>3. [d EXCEPT !.latest = list] = c
      BY <2>2, <3>2
    <3>. QED
      BY <3>1, <3>3
  <2>4. study \in Nat
    BY <1>5, <2>1, LatestIsLatest
  <2>5. /\ list \in Seq(Nat) /\ Len(list) = Len(d.latest) + 1
        /\ DOMAIN list = 1 .. Len(d.latest) + 1 /\ list[Len(d.latest) + 1] = study
        /\ \A i \in DOMAIN d.latest : list[i] = d.latest[i]
    BY <1>3, <2>2, <2>4, AppendedEntry
  <2>6. c \in ToolCalls
    BY <1>3, <2>2, <2>5 DEF ToolCalls
  <2>7. d.seen <= Len(toolStudies)
    BY <1>2 DEF ToolKnown
  <2>8. ASSUME NEW i \in DOMAIN list
        PROVE  \E n \in d.seen..Len(toolStudies) : ShownOf(d.ids[i], list[i], n)
    <3>1. CASE i \in DOMAIN d.latest
      BY <1>2, <2>5, <3>1 DEF ToolKnown
    <3>2. CASE i = Len(d.latest) + 1
      <4>1. ShownOf(d.ids[i], list[i], Len(toolStudies))
        BY <1>5, <2>1, <2>5, <3>2, LatestShown
      <4>2. Len(toolStudies) \in d.seen..Len(toolStudies)
        BY <1>3, <1>5, <2>7
      <4>. QED
        BY <4>1, <4>2
    <3>. QED
      BY <1>4, <2>5, <3>1, <3>2
  <2>9. ToolKnown(c)
    <3>1. c.at = "tool_latest" /\ c.ids = d.ids /\ c.latest = list /\ c.seen = d.seen
      BY <2>2
    <3>2. Len(list) <= Len(d.ids)
      BY <1>4, <1>7, <2>5
    <3>. QED
      BY <2>7, <2>8, <3>1, <3>2 DEF ToolKnown
  <2>. QED
    BY <1>2, <2>3, <2>6, <2>9, ToolReadOnly
<1>. QED
  BY <1>6, <1>7

LEMMA SummariseToolsStep ==
  ASSUME ToolsInv, NEW t \in Threads, SummariseTools(t)
  PROVE  ToolsInv'
<1>1. PICK now \in Days :
        Goto(t, [at |-> "tools_summary", rows |-> tools, now |-> now,
                 counts |-> SummaryOf(tools, now)])
  BY DEF SummariseTools
<1>2. PICK c, counts : /\ c = [at |-> "tools_summary", rows |-> tools, now |-> now,
                               counts |-> counts]
                       /\ counts = SummaryOf(tools, now)
  OBVIOUS
<1>3. tools \in Seq(ToolRows)
  BY DEF ToolsInv, ToolTablesInv
<1>4. counts \in [total : Nat, active : Nat, inactive : Nat,
                  by : [OpStatuses -> Nat], expired : Nat]
  BY <1>2, <1>3, SummaryCounts
<1>5. c \in ToolCalls
  BY <1>2, <1>3, <1>4 DEF ToolCalls
<1>6. ToolKnown(c)
  BY <1>2 DEF ToolKnown
<1>7. UNCHANGED toolTables
  BY DEF SummariseTools
<1>. QED
  BY <1>1, <1>2, <1>5, <1>6, <1>7, ToolReadOnly

LEMMA ListToolStudiesStep ==
  ASSUME ToolsInv, NEW t \in Threads, ListToolStudies(t)
  PROVE  ToolsInv'
<1>1. PICK id \in DOMAIN tools :
        Goto(t, [at |-> "studies_listed", id |-> id, first |-> LatestStudy(id),
                 listed |-> LatestFirst(StudiesOf(id))])
  BY DEF ListToolStudies
<1>2. PICK c, first, listed :
        /\ c = [at |-> "studies_listed", id |-> id, first |-> first, listed |-> listed]
        /\ first = LatestStudy(id) /\ listed = LatestFirst(StudiesOf(id))
  OBVIOUS
<1>3. toolStudies \in Seq([tool : ToolIds, date : Days])
  BY DEF ToolsInv, ToolTablesInv
<1>4. /\ first \in Nat /\ listed \in Seq(Nat)
      /\ IF listed = <<>> THEN first = 0 ELSE listed[1] = first
  BY <1>2, <1>3, LatestIsLatest, LatestComesFirst
<1>5. c \in ToolCalls
  BY <1>2, <1>4 DEF ToolCalls, ToolIds
<1>6. ToolKnown(c)
  BY <1>2, <1>4 DEF ToolKnown
<1>7. UNCHANGED toolTables
  BY DEF ListToolStudies
<1>. QED
  BY <1>1, <1>2, <1>5, <1>6, <1>7, ToolReadOnly

LEMMA CheckToolActiveStep ==
  ASSUME ToolsInv, NEW t \in Threads, CheckToolActive(t)
  PROVE  ToolsInv'
<1>1. PICK id \in DOMAIN tools, date \in Days :
        Goto(t, [at |-> "tool_study", id |-> id, date |-> date])
  BY DEF CheckToolActive
<1>2. PICK c : c = [at |-> "tool_study", id |-> id, date |-> date]
  OBVIOUS
<1>3. c \in ToolCalls /\ ToolKnown(c)
  BY <1>2 DEF ToolCalls, ToolKnown, ToolIds
<1>4. UNCHANGED toolTables
  BY DEF CheckToolActive
<1>. QED
  BY <1>1, <1>2, <1>3, <1>4, ToolReadOnly

(* ---- The steps that write. ---- *)

\* After a write of tools the request reads their latest studies.
LEMMA ToolsWritten ==
  ASSUME ToolsInv, NEW t \in Threads, toolStudies' = toolStudies,
         tools' \in Seq(ToolRows), Len(tools') <= MaxTools, RegistrationsUnique',
         DOMAIN tools \subseteq DOMAIN tools',
         NEW ids \in Seq(ToolIds'), Goto(t, Answering(ids))
  PROVE  ToolsInv'
<1>1. PICK S, R : S = [tool : ToolIds, date : Days] /\ R = [tool : ToolIds', date : Days]
  OBVIOUS
<1>2. S \subseteq R /\ toolStudies \in Seq(S)
  BY <1>1 DEF ToolIds, ToolsInv, ToolTablesInv
<1>3. toolStudies \in Seq(R) /\ Len(toolStudies) \in Nat
  BY <1>2, SeqMonotonic, LenProperties
<1>4. ToolTablesInv' /\ RegisterGrows
  BY <1>1, <1>3 DEF ToolsInv, ToolTablesInv, RegisterGrows
<1>5. Len(ids) \in Nat
  BY LenProperties
<1>6. PICK c : c = [at |-> "tool_latest", ids |-> ids, latest |-> <<>>,
                    seen |-> Len(toolStudies)]
  OBVIOUS
<1>7. Goto(t, c)
  BY <1>6 DEF Answering
<1>8. <<>> \in Seq(Nat) /\ Len(<<>>) = 0 /\ DOMAIN <<>> = {}
  OBVIOUS
<1>9. c \in ToolCalls'
  BY <1>3, <1>6, <1>8 DEF ToolCalls
<1>10. ToolKnown(c)'
  BY <1>3, <1>5, <1>6, <1>8 DEF ToolKnown
<1>. QED
  BY <1>4, <1>7, <1>9, <1>10, OneToolRequestMoves

LEMMA CreateToolStep ==
  ASSUME ToolsInv, NEW t \in Threads, CreateTool(t)
  PROVE  ToolsInv'
<1>1. PICK reg \in Registrations, status \in OpStatuses, due \in DueDates :
        /\ \A id \in DOMAIN tools : tools[id].registration # reg
        /\ tools' = Append(tools, Tool(reg, status, due))
        /\ Goto(t, Answering(<<Len(tools')>>))
  BY Zenon DEF CreateTool
<1>2. PICK row : row = Tool(reg, status, due)
  OBVIOUS
<1>3. row \in ToolRows /\ row.registration = reg
  BY <1>2 DEF Tool, ToolRows
<1>4. /\ tools' \in Seq(ToolRows)
      /\ Len(tools) \in Nat /\ Len(tools') = Len(tools) + 1
      /\ DOMAIN tools = 1 .. Len(tools) /\ DOMAIN tools' = 1 .. Len(tools) + 1
      /\ tools'[Len(tools) + 1] = row
      /\ \A i \in DOMAIN tools : i \in DOMAIN tools' /\ tools'[i] = tools[i]
  BY <1>1, <1>2, <1>3, AppendedEntry DEF ToolsInv, ToolTablesInv
<1>5. RegistrationsUnique'
  BY <1>1, <1>3, <1>4 DEF RegistrationsUnique, ToolIds, ToolsInv, ToolTablesInv
<1>6. Len(tools') <= MaxTools
  BY <1>4, ToolsAssumption DEF CreateTool
<1>7. <<Len(tools')>> \in Seq(ToolIds')
  BY <1>4 DEF ToolIds
<1>8. toolStudies' = toolStudies
  BY DEF CreateTool
<1>. QED
  BY <1>1, <1>4, <1>5, <1>6, <1>7, <1>8, ToolsWritten

\* A tool of the register is replaced by one with the same number.
LEMMA ToolReplaced ==
  ASSUME ToolsInv, NEW t \in Threads, toolStudies' = toolStudies,
         NEW id \in DOMAIN tools, NEW row \in ToolRows,
         row.registration = tools[id].registration,
         tools' = [tools EXCEPT ![id] = row], Goto(t, Answering(<<id>>))
  PROVE  /\ ToolsInv'
         /\ Len(tools') = Len(tools)
         /\ \A i \in DOMAIN tools : tools'[i] = IF i = id THEN row ELSE tools[i]
<1>1. tools \in Seq(ToolRows) /\ Len(tools) <= MaxTools /\ RegistrationsUnique
  BY DEF ToolsInv, ToolTablesInv
<1>2. Len(tools) \in Nat /\ DOMAIN tools = 1 .. Len(tools)
  BY <1>1, LenProperties
<1>3. /\ tools' \in Seq(ToolRows) /\ Len(tools') = Len(tools)
      /\ \A i \in DOMAIN tools : tools'[i] = IF i = id THEN row ELSE tools[i]
  BY <1>1, <1>2, ExceptSeq
<1>4. DOMAIN tools' = DOMAIN tools
  BY <1>2, <1>3, LenProperties
<1>5. RegistrationsUnique'
  BY <1>1, <1>3, <1>4 DEF RegistrationsUnique, ToolIds
<1>6. <<id>> \in Seq(ToolIds')
  BY <1>4 DEF ToolIds
<1>. QED
  BY <1>1, <1>3, <1>4, <1>5, <1>6, ToolsWritten

LEMMA ToolFields ==
  ASSUME NEW row \in ToolRows
  PROVE  /\ row.registration \in Registrations /\ row.status \in OpStatuses
         /\ row.due \in DueDates /\ row.active \in BOOLEAN
BY DEF ToolRows

LEMMA RegisteredTool ==
  ASSUME ToolsInv, NEW id \in DOMAIN tools
  PROVE  tools[id] \in ToolRows
<1>1. tools \in Seq(ToolRows)
  BY DEF ToolsInv, ToolTablesInv
<1>. QED
  BY <1>1, ElementOfSeq, LenProperties

LEMMA UpdateToolStep ==
  ASSUME ToolsInv, NEW t \in Threads, UpdateTool(t)
  PROVE  /\ ToolsInv'
         /\ Len(tools') = Len(tools)
         /\ \A i \in DOMAIN tools : /\ tools'[i].registration = tools[i].registration
                                    /\ tools'[i].active = tools[i].active
<1>1. PICK id \in DOMAIN tools, given \in SUBSET {"status", "due"},
           status \in OpStatuses, due \in DueDates :
        /\ tools' = [tools EXCEPT
             ![id].status = IF "status" \in given THEN status ELSE @,
             ![id].due = IF "due" \in given THEN due ELSE @]
        /\ Goto(t, Answering(<<id>>))
  BY Zenon DEF UpdateTool
<1>2. PICK old : old = tools[id]
  OBVIOUS
<1>3. old \in ToolRows
  BY <1>2, RegisteredTool
<1>4. PICK s, d : /\ s = (IF "status" \in given THEN status ELSE old.status)
                  /\ d = (IF "due" \in given THEN due ELSE old.due)
  OBVIOUS
<1>5. PICK row : row = [registration |-> old.registration, status |-> s, due |-> d,
                        active |-> old.active]
  OBVIOUS
<1>6. row \in ToolRows
  BY <1>3, <1>4, <1>5, ToolFields DEF ToolRows
<1>7. tools' = [tools EXCEPT ![id] = row]
  <2>1. tools' = [tools EXCEPT ![id].status = s, ![id].due = d]
    <3>1. old.status = tools[id].status /\ old.due = tools[id].due
      BY <1>2
    <3>. QED
      BY <1>1, <1>4, <3>1
  <2>2. old = [registration |-> old.registration, status |-> old.status,
               due |-> old.due, active |-> old.active]
    BY <1>3 DEF ToolRows
  <2>3. PICK half : half = [registration |-> old.registration, status |-> s,
                            due |-> old.due, active |-> old.active]
    OBVIOUS
  <2>4. [old EXCEPT !.status = s] = half
    BY <2>2, <2>3
  <2>5. [half EXCEPT !.due = d] = row
    BY <1>5, <2>3
  <2>. QED
    BY <1>2, <2>1, <2>4, <2>5
<1>8. toolStudies' = toolStudies
  BY DEF UpdateTool
<1>9. row.registration = tools[id].registration /\ row.active = tools[id].active
  BY <1>2, <1>5
<1>10. /\ ToolsInv'
       /\ Len(tools') = Len(tools)
       /\ \A i \in DOMAIN tools : tools'[i] = IF i = id THEN row ELSE tools[i]
  BY <1>1, <1>6, <1>7, <1>8, <1>9, ToolReplaced
<1>. QED
  BY <1>9, <1>10

LEMMA DeactivateToolStep ==
  ASSUME ToolsInv, NEW t \in Threads, DeactivateTool(t)
  PROVE  /\ ToolsInv'
         /\ Len(tools') = Len(tools)
         /\ \A i \in DOMAIN tools : /\ tools'[i].registration = tools[i].registration
                                    /\ tools'[i].active => tools[i].active
<1>1. PICK id \in DOMAIN tools : /\ tools' = [tools EXCEPT ![id].active = FALSE]
                                 /\ Goto(t, Answering(<<id>>))
  BY Zenon DEF DeactivateTool
<1>2. PICK old : old = tools[id]
  OBVIOUS
<1>3. old \in ToolRows
  BY <1>2, RegisteredTool
<1>4. PICK row : row = [old EXCEPT !.active = FALSE]
  OBVIOUS
<1>5. row \in ToolRows
  BY <1>3, <1>4, ToolFields DEF ToolRows
<1>6. tools' = [tools EXCEPT ![id] = row]
  BY <1>1, <1>2, <1>4
<1>7. toolStudies' = toolStudies
  BY DEF DeactivateTool
<1>8. row.registration = tools[id].registration /\ ~row.active
  BY <1>2, <1>3, <1>4 DEF ToolRows
<1>9. /\ ToolsInv'
      /\ Len(tools') = Len(tools)
      /\ \A i \in DOMAIN tools : tools'[i] = IF i = id THEN row ELSE tools[i]
  BY <1>1, <1>5, <1>6, <1>7, <1>8, ToolReplaced
<1>. QED
  BY <1>8, <1>9

LEMMA InsertToolStudyStep ==
  ASSUME ToolsInv, NEW t \in Threads, InsertToolStudy(t)
  PROVE  /\ ToolsInv'
         /\ tools' = tools
         /\ \E row : row \in [tool : ToolIds, date : Days] /\ toolStudies' = Append(toolStudies, row)
<1>1. PICK d, row, T : /\ d = calls[t] /\ row = [tool |-> d.id, date |-> d.date]
                       /\ T = [tool : ToolIds, date : Days]
  OBVIOUS
<1>2. d \in ToolCalls /\ d.at = "tool_study"
  BY <1>1 DEF ToolsInv, ToolCallsInv, InsertToolStudy, At
<1>3. row \in T
  BY <1>1, <1>2, ToolCallFields
<1>4. toolStudies' = Append(toolStudies, row) /\ tools' = tools /\ Goto(t, Idle)
  BY <1>1 DEF InsertToolStudy, Finish
<1>5. toolStudies \in Seq(T)
  BY <1>1 DEF ToolsInv, ToolTablesInv
<1>6. /\ toolStudies' \in Seq(T)
      /\ Len(toolStudies) \in Nat /\ Len(toolStudies') = Len(toolStudies) + 1
      /\ \A i \in DOMAIN toolStudies : i \in DOMAIN toolStudies' /\ toolStudies'[i] = toolStudies[i]
  BY <1>3, <1>4, <1>5, AppendedEntry
<1>7. Len(toolStudies') <= MaxToolStudies
  BY <1>6, ToolsAssumption DEF InsertToolStudy
<1>8. ToolIds' = ToolIds
  BY <1>4 DEF ToolIds
<1>9. RegistrationsUnique'
  BY <1>4, <1>8 DEF RegistrationsUnique, ToolsInv, ToolTablesInv
<1>10. ToolTablesInv'
  BY <1>1, <1>4, <1>6, <1>7, <1>8, <1>9 DEF ToolsInv, ToolTablesInv
<1>11. RegisterGrows
  BY <1>4, <1>6 DEF RegisterGrows
<1>12. ToolsInv'
  BY <1>4, <1>10, <1>11, IdleToolAfter, OneToolRequestMoves
<1>. QED
  BY <1>1, <1>3, <1>4, <1>12

(* ---- The specification. ---- *)

\* What a step may never do to the register.
RegisterKeeps ==
  /\ Len(tools') >= Len(tools)
  /\ \A id \in ToolIds :
       /\ tools'[id].registration = tools[id].registration
       /\ ~tools[id].active => ~tools'[id].active
  /\ IsPrefix(toolStudies, toolStudies')
  /\ toolStudies' # toolStudies => tools' = tools

LEMMA ToolsSteps ==
  ASSUME ToolsInv, ToolsNext
  PROVE  ToolsInv' /\ RegisterKeeps
<1>1. PICK t \in Threads : ToolStep(t) \/ (Leave(t) /\ UNCHANGED toolTables)
  BY DEF ToolsNext
<1>2. /\ tools \in Seq(ToolRows) /\ toolStudies \in Seq([tool : ToolIds, date : Days])
      /\ Len(tools) \in Nat /\ DOMAIN tools = 1 .. Len(tools) /\ Len(toolStudies) \in Nat
  BY LenProperties DEF ToolsInv, ToolTablesInv
<1>3. IsPrefix(toolStudies, toolStudies)
  BY <1>2 DEF IsPrefix
<1>4. CASE UNCHANGED toolTables
  <2>1. tools' = tools /\ toolStudies' = toolStudies
    BY <1>4 DEF toolTables
  <2>2. RegisterKeeps
    BY <1>2, <1>3, <2>1 DEF RegisterKeeps
  <2>3. CASE Leave(t)
    BY <1>4, <2>2, <2>3, IdleTool, ToolReadOnly DEF Leave, Finish
  <2>4. CASE ToolStep(t)
    <3>1. CASE ReadTools(t) \/ AttachLatest(t) \/ SummariseTools(t) \/ ListToolStudies(t)
               \/ CheckToolActive(t)
      BY <2>2, <3>1, ReadToolsStep, AttachLatestStep, SummariseToolsStep, ListToolStudiesStep,
         CheckToolActiveStep
    <3>2. CASE CreateTool(t) \/ UpdateTool(t) \/ DeactivateTool(t)
      BY <2>2, <3>2, CreateToolStep, UpdateToolStep, DeactivateToolStep
    <3>3. CASE InsertToolStudy(t)
      BY <2>2, <3>3, InsertToolStudyStep
    <3>. QED
      BY <2>4, <3>1, <3>2, <3>3 DEF ToolStep, RegisterStep, CapabilityStep
  <2>. QED
    BY <1>1, <2>2, <2>3, <2>4
<1>5. CASE CreateTool(t)
  <2>1. toolStudies' = toolStudies
    BY <1>5 DEF CreateTool
  <2>2. PICK row \in ToolRows : tools' = Append(tools, row)
    <3>1. \A reg \in Registrations, status \in OpStatuses, due \in DueDates :
            Tool(reg, status, due) \in ToolRows
      BY DEF Tool, ToolRows
    <3>. QED
      BY <1>5, <3>1, Zenon DEF CreateTool
  <2>3. Len(tools') = Len(tools) + 1 /\ \A i \in DOMAIN tools : tools'[i] = tools[i]
    BY <1>2, <2>2, AppendedEntry
  <2>4. RegisterKeeps
    BY <1>2, <1>3, <2>1, <2>3 DEF RegisterKeeps, ToolIds
  <2>. QED
    BY <1>5, <2>4, CreateToolStep
<1>6. CASE UpdateTool(t)
  <2>1. toolStudies' = toolStudies
    BY <1>6 DEF UpdateTool
  <2>2. /\ ToolsInv' /\ Len(tools') = Len(tools)
        /\ \A i \in DOMAIN tools : /\ tools'[i].registration = tools[i].registration
                                   /\ tools'[i].active = tools[i].active
    BY <1>6, UpdateToolStep
  <2>. QED
    BY <1>2, <1>3, <2>1, <2>2 DEF RegisterKeeps, ToolIds
<1>7. CASE DeactivateTool(t)
  <2>1. toolStudies' = toolStudies
    BY <1>7 DEF DeactivateTool
  <2>2. /\ ToolsInv' /\ Len(tools') = Len(tools)
        /\ \A i \in DOMAIN tools : /\ tools'[i].registration = tools[i].registration
                                   /\ tools'[i].active => tools[i].active
    BY <1>7, DeactivateToolStep
  <2>. QED
    BY <1>2, <1>3, <2>1, <2>2 DEF RegisterKeeps, ToolIds
<1>8. CASE InsertToolStudy(t)
  <2>. DEFINE T == [tool : ToolIds, date : Days]
  <2>1. PICK row \in T : toolStudies' = Append(toolStudies, row)
    BY <1>8, InsertToolStudyStep
  <2>2. ToolsInv' /\ tools' = tools
    BY <1>8, InsertToolStudyStep
  <2>. HIDE DEF T
  <2>3. toolStudies \in Seq(T)
    BY <1>2 DEF T
  <2>4. /\ Len(toolStudies') = Len(toolStudies) + 1
        /\ SubSeq(toolStudies', 1, Len(toolStudies)) = SubSeq(toolStudies, 1, Len(toolStudies))
    BY <1>2, <2>1, <2>3, AppendedEntry, PrefixOfAppend
  <2>5. IsPrefix(toolStudies, toolStudies')
    BY <1>2, <2>4 DEF IsPrefix
  <2>. QED
    BY <1>2, <2>2, <2>5 DEF RegisterKeeps
<1>9. CASE ReadTools(t) \/ AttachLatest(t) \/ SummariseTools(t) \/ ListToolStudies(t)
           \/ CheckToolActive(t)
  BY <1>4, <1>9
     DEF ReadTools, AttachLatest, SummariseTools, ListToolStudies, CheckToolActive
<1>. QED
  BY <1>1, <1>4, <1>5, <1>6, <1>7, <1>8, <1>9
     DEF ToolStep, RegisterStep, CapabilityStep

LEMMA ToolsInvariant == ToolsSpec => []ToolsInv
<1>1. InitCalls /\ ToolsInit => ToolsInv
  <2>. SUFFICES ASSUME InitCalls, ToolsInit
                PROVE  ToolsInv
    OBVIOUS
  <2>1. ToolTablesInv
    BY EmptySeq, ToolsAssumption
       DEF ToolsInit, ToolTablesInv, RegistrationsUnique, ToolIds
  <2>2. ToolCallsInv
    BY IdleTool DEF InitCalls, ToolCallsInv
  <2>. QED
    BY <2>1, <2>2 DEF ToolsInv
<1>2. ToolsInv /\ [ToolsNext]_toolVars => ToolsInv'
  <2>. SUFFICES ASSUME ToolsInv, [ToolsNext]_toolVars
                PROVE  ToolsInv'
    OBVIOUS
  <2>1. CASE ToolsNext
    BY <2>1, ToolsSteps
  <2>2. CASE UNCHANGED toolVars
    <3>1. tools' = tools /\ toolStudies' = toolStudies /\ calls' = calls
      BY <2>2 DEF toolVars
    <3>2. ToolTablesInv' /\ RegisterGrows
      BY <3>1, LenProperties
         DEF ToolsInv, ToolTablesInv, RegistrationsUnique, ToolIds, RegisterGrows
    <3>3. \A c \in ToolCalls : c \in ToolCalls' /\ (ToolKnown(c) => ToolKnown(c)')
      BY <3>2, ToolCallsGrow, KnownStays DEF ToolsInv, RegisterGrows
    <3>4. /\ calls' \in [Threads -> ToolCalls']
          /\ \A t \in Threads : ToolKnown(calls[t])'
      <4>1. calls \in [Threads -> ToolCalls] /\ \A t \in Threads : ToolKnown(calls[t])
        BY DEF ToolsInv, ToolCallsInv
      <4>2. \A t \in Threads : calls'[t] \in ToolCalls'
        BY <3>1, <3>3, <4>1
      <4>3. ASSUME NEW t \in Threads
            PROVE  ToolKnown(calls[t])'
        <5>1. PICK c : c = calls[t]
          OBVIOUS
        <5>2. ToolKnown(c)'
          BY <3>3, <4>1, <5>1
        <5>. QED
          BY <3>1, <5>1, <5>2 DEF ToolKnown, ShownOf
      <4>. QED
        BY <3>1, <4>1, <4>2, <4>3
    <3>. QED
      BY <3>2, <3>4 DEF ToolsInv, ToolCallsInv
  <2>. QED
    BY <2>1, <2>2
<1>. QED
  BY <1>1, <1>2, PTL DEF ToolsSpec

\* The rows of the register and what each request has read of them keep their
\* types (tools/repository.py, DDL).
THEOREM ToolsTypeCorrect == ToolsSpec => []ToolsTypeOK
<1>1. ToolsInv => ToolsTypeOK
  BY DEF ToolsInv, ToolTablesInv, ToolCallsInv, ToolsTypeOK
<1>. QED
  BY <1>1, ToolsInvariant, PTL

\* Registration numbers are unique, the study shown beside a tool was its latest
\* while the request ran, the counts of a summary are those of its rows and a
\* list of studies starts with the latest one (tools/repository.py, list_tools,
\* _latest_study; tools/service.py, tools_summary).
THEOREM ToolsAlwaysSound == ToolsSpec => []ToolsSound
<1>1. ToolsInv => ToolsSound
  <2>. SUFFICES ASSUME ToolsInv
                PROVE  ToolsSound
    OBVIOUS
  <2>1. RegistrationsUnique /\ \A t \in Threads : calls[t] \in ToolCalls /\ ToolKnown(calls[t])
    BY DEF ToolsInv, ToolTablesInv, ToolCallsInv
  <2>2. ShownStudyWasLatest
    <3>. SUFFICES ASSUME NEW t \in Threads, calls[t].at = "tools_answered",
                         NEW i \in DOMAIN calls[t].ids
                  PROVE  \E n \in calls[t].seen..Len(toolStudies) :
                           ShownOf(calls[t].ids[i], calls[t].latest[i], n)
      <4>1. \A id, shown, n : ShownOf(id, shown, n) <=>
              IF StudiesOf(id) \cap 1..n = {} THEN shown = 0
              ELSE /\ shown \in StudiesOf(id) \cap 1..n
                   /\ \A k \in StudiesOf(id) \cap 1..n :
                        toolStudies[k].date <= toolStudies[shown].date
                   /\ \A k \in StudiesOf(id) \cap (shown + 1)..n :
                        toolStudies[k].date < toolStudies[shown].date
        <5>. SUFFICES ASSUME NEW id, NEW shown, NEW n, shown \in StudiesOf(id) \cap 1..n
                      PROVE  StudiesOf(id) \cap (shown + 1)..n =
                               {k \in StudiesOf(id) \cap 1..n : k > shown}
          BY DEF ShownOf
        <5>1. StudiesOf(id) \subseteq Nat
          BY StudyRow DEF StudiesOf, ToolsInv, ToolTablesInv
        <5>. QED
          BY <5>1
      <4>. QED
        BY <4>1, Zenon DEF ShownStudyWasLatest, At
    <3>. QED
      BY <2>1, ToolCallFields, LenProperties DEF ToolKnown
  <2>3. SummaryAddsUp
    <3>1. \A t \in Threads : At(t, "tools_summary") =>
            /\ calls[t].rows \in Seq(ToolRows) /\ calls[t].now \in Days
            /\ calls[t].counts = SummaryOf(calls[t].rows, calls[t].now)
      BY <2>1, ToolCallFields DEF At, ToolKnown
    <3>2. ASSUME NEW t \in Threads, At(t, "tools_summary")
          PROVE  LET c == calls[t]
                 IN  /\ c.counts.total = c.counts.active + c.counts.inactive
                     /\ c.counts.active = c.counts.by["OK"] + c.counts.by["KONTROL"]
                                          + c.counts.by["YETERSIZ"]
                     /\ c.counts.expired = Cardinality(ShownAs(c.rows, c.now, "SURESI DOLMUS"))
                     /\ \A s \in OpStatuses :
                          Cardinality(ShownAs(c.rows, c.now, s)) <= c.counts.by[s]
      BY <3>1, <3>2, SummaryCounts, ZenonT(60)
    <3>. QED
      BY <3>2, Zenon DEF SummaryAddsUp, ShownAs
  <2>4. ListStartsWithLatest
    BY <2>1 DEF ListStartsWithLatest, ToolKnown, At
  <2>. QED
    BY <2>1, <2>2, <2>3, <2>4 DEF ToolsSound
<1>. QED
  BY <1>1, ToolsInvariant, PTL

\* Tools stay in the register under their numbers, deactivated ones stay so, and
\* studies are only appended and change no tool (tools/repository.py,
\* deactivate_tool, create_capability_study).
THEOREM ToolsAlwaysKept == ToolsSpec => ToolsKept
<1>1. ToolsInv /\ [ToolsNext]_toolVars => [RegisterKeeps]_toolTables
  <2>. SUFFICES ASSUME ToolsInv, [ToolsNext]_toolVars
                PROVE  [RegisterKeeps]_toolTables
    OBVIOUS
  <2>1. CASE ToolsNext
    BY <2>1, ToolsSteps
  <2>2. CASE UNCHANGED toolVars
    BY <2>2 DEF toolVars, toolTables
  <2>. QED
    BY <2>1, <2>2
<1>. QED
  BY <1>1, ToolsInvariant, PTL DEF ToolsSpec, ToolsKept, RegisterKeeps
=============================================================================
