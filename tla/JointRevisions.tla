--------------------------- MODULE JointRevisions ---------------------------
(***************************************************************************)
(* Joints and their revisions (src/backend/joints/service.py, schema.py,   *)
(* src/backend/api/routes/joints.py).  A joint is identified by its code,  *)
(* which is unique in its project; a revision by its position, because     *)
(* rows are never deleted.                                                 *)
(***************************************************************************)
EXTENDS Requests

CONSTANTS
  Joints,       \* joint codes of one project
  Keys,         \* idempotency keys
  Bodies,       \* snapshot and change summary of a revision
  MaxRevisions  \* bound of the model: this many rows, and no more

ASSUME JointsAssumption ==
  /\ None \notin Keys \cup Joints
  /\ MaxRevisions \in Nat

VARIABLES
  joints,       \* table joints: status and current_revision_id of each code
  revisions     \* table joint_revisions, in order of id

jointTables == <<joints, revisions>>

jointVars == <<joints, revisions, calls>>

JointStatuses == {"absent", "draft", "active", "archived"}

RevisionStatuses == {"draft", "review", "approved", "rejected"}

JointsInit ==
  /\ joints = [j \in Joints |-> [status |-> "absent", current |-> 0]]
  /\ revisions = <<>>

RevisionsOf(j) == {i \in DOMAIN revisions : revisions[i].joint = j}

\* SELECT COALESCE(MAX(revision_no),0)+1
NextRevisionNo(j) == 1 + Max({0} \cup {revisions[i].no : i \in RevisionsOf(j)})

FindByKeyOf(j, k) == {i \in RevisionsOf(j) : revisions[i].key = k}

----------------------------------------------------------------------------
(* create_joint *)

CheckJointCode(t) ==
  /\ IsIdle(t)
  /\ \E j \in Joints :
       /\ joints[j].status = "absent"
       /\ Goto(t, [at |-> "joint_create", joint |-> j])
  /\ UNCHANGED jointTables

\* UNIQUE(project_id, joint_code) refuses the second of two rivals.
InsertJoint(t) ==
  /\ At(t, "joint_create")
  /\ LET j == calls[t].joint IN
       joints' = IF joints[j].status = "absent"
                   THEN [joints EXCEPT ![j].status = "draft"]
                   ELSE joints
  /\ Finish(t)
  /\ UNCHANGED revisions

(* archive_joint, called in process only: no route reaches it. *)

CheckArchive(t) ==
  /\ IsIdle(t)
  /\ \E j \in Joints :
       /\ joints[j].status \in {"draft", "active"}
       /\ Goto(t, [at |-> "joint_archive", joint |-> j])
  /\ UNCHANGED jointTables

ArchiveJoint(t) ==
  /\ At(t, "joint_archive")
  /\ joints' = [joints EXCEPT ![calls[t].joint].status = "archived"]
  /\ Finish(t)
  /\ UNCHANGED revisions

----------------------------------------------------------------------------
(* create_joint_revision *)

\* get_joint runs on a connection of its own; what it read of the status is
\* what the archived check further down looks at.
GetJoint(t) ==
  /\ IsIdle(t)
  /\ \E j \in Joints, u \in Users, k \in Keys \cup {None}, b \in Bodies :
       /\ joints[j].status # "absent"
       /\ k = None => joints[j].status # "archived"
       /\ Goto(t, [at |-> IF k = None THEN "rev_number" ELSE "rev_find_key",
                   joint |-> j, user |-> u, key |-> k, body |-> b, no |-> 0,
                   archived |-> joints[j].status = "archived"])
  /\ UNCHANGED jointTables

\* Mutant of SameRequest: the author of the row is not compared.
SameBody(call, i) == revisions[i].body = call.body

\* _match_existing_idempotent_revision: the row this key already made, when
\* the request behind it was the same one.
SameRequest(call, i) ==
  /\ revisions[i].body = call.body
  /\ revisions[i].creator = call.user

\* Mutant of AnswerRevision: the id of the next row is answered.
AnswerNextRevision(t, call, i) ==
  Goto(t, [at |-> "rev_answered", call |-> call, row |-> i + 1])

AnswerRevision(t, call, i) ==
  Goto(t, [at |-> "rev_answered", call |-> call, row |-> i])

\* A key used for another request is a conflict; a key not used yet goes on
\* to the step "fresh", or ends the request when there is none.
MatchExisting(t, fresh) ==
  LET call == calls[t]
      rows == FindByKeyOf(call.joint, call.key)
  IN  /\ \/ \E i \in rows : SameRequest(call, i) /\ AnswerRevision(t, call, i)
         \/ \E i \in rows : ~SameRequest(call, i) /\ Finish(t)
         \/ rows = {} /\ IF fresh = None THEN Finish(t) ELSE Continue(t, fresh)
      /\ UNCHANGED jointTables

FindKeyOfRevision(t) ==
  /\ At(t, "rev_find_key")
  /\ MatchExisting(t, IF calls[t].archived THEN None ELSE "rev_number")

NumberRevision(t) ==
  /\ At(t, "rev_number")
  /\ Goto(t, [calls[t] EXCEPT !.at = "rev_insert",
                              !.no = NextRevisionNo(calls[t].joint)])
  /\ UNCHANGED jointTables

\* UNIQUE(joint_id, revision_no) and the partial unique index on the key.
RevisionClash(call) ==
  \E i \in RevisionsOf(call.joint) :
    \/ revisions[i].no = call.no
    \/ call.key # None /\ revisions[i].key = call.key

RevisionRow(call) ==
  [joint |-> call.joint, no |-> call.no, status |-> "draft",
   body |-> call.body, creator |-> call.user, reviewer |-> None,
   key |-> call.key]

\* A keyed request that loses the race looks its key up once more; one
\* without a key fails with the integrity error.
InsertRevision(t) ==
  /\ At(t, "rev_insert")
  /\ Len(revisions) < MaxRevisions
  /\ LET call == calls[t] IN
       \/ /\ ~RevisionClash(call)
          /\ revisions' = Append(revisions, RevisionRow(call))
          /\ AnswerRevision(t, call, Len(revisions) + 1)
       \/ /\ RevisionClash(call)
          /\ IF call.key = None THEN Finish(t) ELSE Continue(t, "rev_recheck")
          /\ UNCHANGED revisions
  /\ UNCHANGED joints

RecheckKey(t) ==
  /\ At(t, "rev_recheck")
  /\ MatchExisting(t, None)

----------------------------------------------------------------------------
(* submit, approve and reject: the status is read on one connection and    *)
(* written on another, without looking again.                              *)

ReadForSubmit(t) ==
  /\ IsIdle(t)
  /\ \E i \in DOMAIN revisions :
       /\ revisions[i].status = "draft"
       /\ Goto(t, [at |-> "rev_submit", row |-> i])
  /\ UNCHANGED jointTables

ReadForReview(t) ==
  /\ IsIdle(t)
  /\ \E i \in DOMAIN revisions, u \in Users, step \in {"rev_approve", "rev_reject"} :
       /\ revisions[i].status = "review"
       /\ revisions[i].creator # u
       /\ Goto(t, [at |-> step, row |-> i, user |-> u])
  /\ UNCHANGED jointTables

SubmitRevision(t) ==
  /\ At(t, "rev_submit")
  /\ revisions' = [revisions EXCEPT ![calls[t].row].status = "review"]
  /\ Finish(t)
  /\ UNCHANGED joints

\* The revision and its joint change in one transaction.
ApproveRevision(t) ==
  /\ At(t, "rev_approve")
  /\ LET i == calls[t].row IN
       /\ revisions' = [revisions EXCEPT ![i].status = "approved",
                                         ![i].reviewer = calls[t].user]
       /\ joints' = [joints EXCEPT ![revisions[i].joint] =
                       [status |-> "active", current |-> i]]
  /\ Finish(t)

RejectRevision(t) ==
  /\ At(t, "rev_reject")
  /\ revisions' = [revisions EXCEPT ![calls[t].row].status = "rejected",
                                    ![calls[t].row].reviewer = calls[t].user]
  /\ Finish(t)
  /\ UNCHANGED joints

JointStep(t) ==
  \/ CheckJointCode(t) \/ InsertJoint(t) \/ CheckArchive(t) \/ ArchiveJoint(t)
  \/ GetJoint(t) \/ FindKeyOfRevision(t) \/ NumberRevision(t)
  \/ InsertRevision(t) \/ RecheckKey(t) \/ ReadForSubmit(t) \/ ReadForReview(t)
  \/ SubmitRevision(t) \/ ApproveRevision(t) \/ RejectRevision(t)

JointsNext ==
  \E t \in Threads :
    \/ JointStep(t)
    \/ Leave(t) /\ UNCHANGED jointTables

JointsSpec == InitCalls /\ JointsInit /\ [][JointsNext]_jointVars

----------------------------------------------------------------------------
(* What is promised. *)

JointRows == [status : JointStatuses, current : 0..MaxRevisions]

RevisionRows ==
  [joint : Joints, no : Nat, status : RevisionStatuses, body : Bodies,
   creator : Users, reviewer : Users \cup {None}, key : Keys \cup {None}]

CreationSteps ==
  {"rev_find_key", "rev_number", "rev_insert", "rev_recheck"}

Creations(steps) ==
  [at : steps, joint : Joints, user : Users, key : Keys \cup {None},
   body : Bodies, no : Nat, archived : BOOLEAN]

JointCalls ==
  {Idle}
  \cup [at : {"joint_create", "joint_archive"}, joint : Joints]
  \cup Creations(CreationSteps)
  \cup [at : {"rev_answered"}, call : Creations(CreationSteps), row : DOMAIN revisions]
  \cup [at : {"rev_submit"}, row : DOMAIN revisions]
  \cup [at : {"rev_approve", "rev_reject"}, row : DOMAIN revisions, user : Users]

\* The rows of both tables and every request's own record of what it read.
JointsTypeOK ==
  /\ joints \in [Joints -> JointRows]
  /\ revisions \in Seq(RevisionRows)
  /\ Len(revisions) <= MaxRevisions
  /\ calls \in [Threads -> JointCalls]

\* Every revision number of a joint is used once and none is skipped, though
\* each is computed from a MAX read before the row is written.
NumbersDense ==
  \A j \in Joints :
    {revisions[i].no : i \in RevisionsOf(j)} = 1..Cardinality(RevisionsOf(j))

\* Whoever is answered with a revision for a key - first, on a retry or after
\* losing a race - is answered with the only row that key ever made, and that
\* row holds what they asked for (create_joint_revision, joints/service.py).
AnswersRepeat ==
  \A t \in Threads : At(t, "rev_answered") =>
    LET call == calls[t].call IN
      /\ \A f \in {"joint", "body", "creator", "key"} :
           revisions[calls[t].row][f] = RevisionRow(call)[f]
      /\ call.key # None => FindByKeyOf(call.joint, call.key) = {calls[t].row}

\* What a joint calls its current revision is a revision of that joint which
\* somebody other than its author has reviewed, whatever approvals, stale
\* submissions and rejections of it overlap (approve_joint_revision).
CurrentWasReviewed ==
  \A j \in Joints :
    LET i == joints[j].current IN i # 0 =>
      /\ i \in RevisionsOf(j)
      /\ revisions[i].reviewer \notin {None, revisions[i].creator}
      /\ revisions[i].status # "draft"

\* Numbers, retries and the current revision of a joint survive overlapping
\* creations, reviews and archivals (joints/service.py,
\* create_joint_revision and approve_joint_revision).
JointsSound == NumbersDense /\ AnswersRepeat /\ CurrentWasReviewed

\* What a design note claims of the status checks above: no step takes an
\* approved revision to another status.  It does not hold: a rejection, a
\* second approval's rival or a submission that read the status before the
\* approval writes after it.
ApprovedIsFinal ==
  [][\A i \in DOMAIN revisions :
       revisions[i].status = "approved" => revisions'[i].status = "approved"]_jointVars
=============================================================================
