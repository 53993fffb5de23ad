-------------------------- MODULE JointProjections --------------------------
(***************************************************************************)
(* The governance view of joint revisions                                  *)
(* (src/backend/governance/adapters/joint_revision.py,                     *)
(* joint_revision_query.py, joint_revision_csv.py and their routes in      *)
(* api.py).  A listing reads the ids of the revisions on one connection    *)
(* and every revision again on a connection of its own, while reviews go   *)
(* on; what is searched, sorted, cut into pages or exported is that list.  *)
(* A projection is the id with the status it read, None when the row could *)
(* not be read; the other columns follow from the status.                  *)
(***************************************************************************)
EXTENDS JointRevisions, SequencesExt

CONSTANT Queries   \* search, sort_by, sort_order, page and page_size

Columns == {"joint_revision_id", "source_status", "canonical_status", "outcome"}

\* _STATUS_MAP
Canonical ==
  [draft |-> "draft", review |-> "under_review", approved |-> "approved",
   rejected |-> "rejected"]

Projection(id, status) ==
  [joint_revision_id |-> id, source_status |-> status,
   canonical_status |-> IF status = None THEN None ELSE Canonical[status],
   outcome |-> IF status = None THEN "source_unavailable" ELSE "supported"]

\* project_joint_revision: any failure of the read is an outcome.
Projections(id) ==
  {Projection(id, None)}
  \cup (IF id \in DOMAIN revisions THEN {Projection(id, revisions[id].status)} ELSE {})

NotFound(id) == [Projection(id, None) EXCEPT !.outcome = "not_found"]

----------------------------------------------------------------------------
(* The pipeline of a query: search, sort, cut. *)

\* A term to search for is the set of texts that contain it.
MatchesSearch(p, term) ==
  term = None \/ {p.source_status, p.canonical_status, p.outcome} \cap term # {}

\* The texts that are sorted by, in their order.
Alphabet ==
  <<"approved", "draft", "rejected", "review", "source_unavailable", "supported",
    "under_review">>

\* ALLOWED_SORT_FIELDS, ALLOWED_SORT_ORDERS, and what ge=1 says of the pages.
ASSUME QueriesAssumption ==
  /\ None \notin Nat
  /\ None \notin Range(Alphabet)
  /\ \A query \in Queries :
       /\ query.sort_by \in Columns
       /\ query.sort_order \in {"asc", "desc"}
       /\ query.page \in Nat \ {0}
       /\ query.page_size \in Nat \ {0}

Place(text) == CHOOSE i \in DOMAIN Alphabet : Alphabet[i] = text

\* Ids break ties upwards, whatever the order; what has no value comes last.
Before(p, q, by, order) ==
  LET a == p[by]
      b == q[by]
      first == p.joint_revision_id < q.joint_revision_id
  IN  IF by = "joint_revision_id" THEN (order = "asc") = first
      ELSE IF None \in {a, b} THEN a # None \/ (a = b /\ first)
      ELSE IF a = b THEN first
      ELSE (order = "asc") = (Place(a) < Place(b))

\* _sorted_projections over the projections that match
Selected(items, query) ==
  LET found == {p \in Range(items) : MatchesSearch(p, query.search)} IN
    InOrder(found,
            {pq \in found \X found :
               /\ pq[1] # pq[2]
               /\ Before(pq[1], pq[2], query.sort_by, query.sort_order)})

\* Mutant of PageOf: pages are counted from zero.
PageFromZero(found, page, size) ==
  SubSeq(found, page * size + 1, Min({Len(found), (page + 1) * size}))

PageOf(found, page, size) ==
  SubSeq(found, (page - 1) * size + 1, Min({Len(found), page * size}))

\* total_pages, math.ceil in integers
PageCount(found, size) == (Len(found) + size - 1) \div size

\* query_joint_revision_projections and export_joint_revision_projections_csv
Answer(items, query) ==
  LET found == Selected(items, query) IN
    [items |-> PageOf(found, query.page, query.page_size), total |-> Len(found),
     pages |-> PageCount(found, query.page_size), export |-> found]

----------------------------------------------------------------------------
(* Requests *)

\* GET /joint-revision/{revision_id}
ReadOne(t) ==
  /\ IsIdle(t)
  /\ \E id \in 1..(MaxRevisions + 1) :
       \E p \in Projections(id) \cup (IF id \in DOMAIN revisions THEN {} ELSE {NotFound(id)}) :
         Goto(t, [at |-> "one_answered", item |-> p])
  /\ UNCHANGED jointTables

\* list_joint_revisions: the ids in ascending order; a failure lists nothing.
ListRevisions(t) ==
  /\ IsIdle(t)
  /\ \E j \in Joints \cup {None} :
       LET ids == IF j = None THEN DOMAIN revisions ELSE RevisionsOf(j) IN
         \E todo \in {Ascending(ids), <<>>} :
           Goto(t, [at |-> "query_read", listed |-> todo, items |-> <<>>])
  /\ UNCHANGED jointTables

ReadNext(t) ==
  /\ At(t, "query_read")
  /\ LET done == Len(calls[t].items)
         listed == calls[t].listed
     IN  /\ done < Len(listed)
         /\ \E p \in Projections(listed[done + 1]) :
              Goto(t, [calls[t] EXCEPT !.items = Append(@, p)])
  /\ UNCHANGED jointTables

\* What is asked of the list matters only now, once it has been read.
AnswerQuery(t) ==
  /\ At(t, "query_read")
  /\ Len(calls[t].items) = Len(calls[t].listed)
  /\ \E query \in Queries :
       Goto(t, [at |-> "query_answered", listed |-> calls[t].listed,
                items |-> calls[t].items, query |-> query,
                answer |-> Answer(calls[t].items, query)])
  /\ UNCHANGED jointTables

ReadProjections(t) == ReadOne(t) \/ ListRevisions(t) \/ ReadNext(t)

ProjectionsNext ==
  \E t \in Threads :
    \/ JointStep(t)
    \/ ReadProjections(t)
    \/ AnswerQuery(t)
    \/ Leave(t) /\ UNCHANGED jointTables

\* Joints are created and reviewed while their projections are read.
ProjectionsSpec == InitCalls /\ JointsInit /\ [][ProjectionsNext]_jointVars

----------------------------------------------------------------------------
(* What is promised. *)

ProjectedStatuses == RevisionStatuses \cup {None}

ProjectionRows ==
  {Projection(id, s) : id \in DOMAIN revisions, s \in ProjectedStatuses}

\* The tables, and the requests with the rows they have projected so far.
ProjectionsTypeOK ==
  /\ joints \in [Joints -> JointRows]
  /\ revisions \in Seq(RevisionRows)
  /\ \A t \in Threads :
       \/ calls[t] \in JointCalls
       \/ /\ At(t, "one_answered")
          /\ calls[t].item \in ProjectionRows
               \cup {[p EXCEPT !.outcome = o] :
                       p \in {Projection(id, None) : id \in 1..(MaxRevisions + 1)},
                       o \in {"not_found", "source_unavailable"}}
       \/ /\ calls[t].at \in {"query_read", "query_answered"}
          /\ Range(calls[t].items) \subseteq ProjectionRows

\* A listing that overlaps creations and reviews shows every revision it set
\* out to show exactly once, and never one that has disappeared meanwhile.
ListingsComplete ==
  \A call \in Answered("query_answered") :
    /\ \A i, j \in DOMAIN call.listed : i < j => call.listed[i] < call.listed[j]
    /\ [i \in DOMAIN call.items |-> call.items[i].joint_revision_id] = call.listed
    /\ Range(call.listed) \subseteq DOMAIN revisions

\* The pages of a query put together are its export: nothing is shown on two
\* pages, left out between them or counted and not shown, and what was read is
\* in it if and only if it matches.
PagesPartition ==
  \A call \in Answered("query_answered") :
    LET export == call.answer.export
        page(n) == PageOf(export, n, call.query.page_size)
        matching == {p \in Range(call.items) : MatchesSearch(p, call.query.search)}
    IN  /\ call.answer.total = Cardinality(matching)
        /\ Len(export) = call.answer.total /\ Range(export) = matching
        /\ FlattenSeq([n \in 1..call.answer.pages |-> page(n)]) = export
        /\ call.query.page > call.answer.pages => call.answer.items = <<>>
        /\ call.query.page \in 1..call.answer.pages => call.answer.items # <<>>

\* Whichever column and direction is asked for, lines that tie are in the
\* order of their ids, and what could not be read comes last.
ExportOrdered ==
  \A call \in Answered("query_answered") :
    LET export == call.answer.export
        by == call.query.sort_by
    IN  \A i, j \in DOMAIN export : i < j =>
          /\ export[i][by] = export[j][by]
               => export[i].joint_revision_id < export[j].joint_revision_id
          /\ export[i][by] = None => export[j][by] = None

\* What governance shows was so, and holds on in what no later review undoes:
\* a revision shown as submitted is no draft any more, and one shown as
\* decided has a reviewer who is not its author.
ShownWasSo ==
  \A t \in Threads :
    LET shown == IF At(t, "one_answered") THEN {calls[t].item}
                 ELSE IF calls[t].at \in {"query_read", "query_answered"}
                   THEN Range(calls[t].items) ELSE {}
    IN  \A p \in shown :
          LET row == revisions[p.joint_revision_id] IN
            /\ p.canonical_status \notin {None, "draft"} => row.status # "draft"
            /\ p.canonical_status \in {"approved", "rejected"}
                 => row.reviewer \notin {None, row.creator}

\* A listing read row by row while reviews run loses no revision and repeats
\* none over its pages, exports in the order it shows, and shows what was so
\* (project_joint_revisions_bulk, query_joint_revision_projections).
ProjectionsSound ==
  ListingsComplete /\ PagesPartition /\ ExportOrdered /\ ShownWasSo
=============================================================================
