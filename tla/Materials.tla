----------------------------- MODULE Materials -----------------------------
(***************************************************************************)
(* Matching, comparing and recommending materials                          *)
(* (src/backend/calculation_engine/material_intelligence.py).  A library   *)
(* is the sequence of its records in file order; a requirement is a lower  *)
(* bound for each property, None where none is stated, and a family.       *)
(* Ratios are kept as pairs <<value, required>>.                           *)
(***************************************************************************)
EXTENDS Requests, Functions

CONSTANTS
  MaterialLibraries,   \* contents the library may have
  Requirements         \* the requirements of the requests

Properties == {"rp02", "rm", "elastic"}

\* Ids do not repeat within a library (find_duplicate_ids), values and bounds
\* are positive where they are recorded and stated, or a bound is zero.
ASSUME MaterialsAssumption ==
  /\ None \notin Nat /\ None \notin Nat \X Nat
  /\ \A library \in MaterialLibraries :
       /\ library \in Seq(Range(library))
       /\ \A r \in Range(library) :
            r.rank \in Nat /\ \A p \in Properties : r[p] \in Nat \cup {None}
       /\ \A i, j \in DOMAIN library : library[i].rank = library[j].rank => i = j
  /\ \A need \in Requirements :
       /\ need = [f \in Properties \cup {"family"} |-> need[f]]
       /\ \A p \in Properties : need[p] \in Nat \cup {None}

----------------------------------------------------------------------------
(* match_materials *)

\* A property that is not recorded meets no bound.
Meets(record, need) ==
  /\ \A p \in Properties :
       need[p] # None => record[p] # None /\ record[p] >= need[p]
  /\ need.family # None => need.family \in record.families

\* The positions of the records that meet the requirement.
Matching(library, need) == {i \in DOMAIN library : Meets(library[i], need)}

(* compare_materials *)

ValueRelation(a, b) ==
  IF None \in {a, b} THEN "not_comparable"
  ELSE IF a > b THEN "a_higher" ELSE IF a < b THEN "b_higher" ELSE "equal"

----------------------------------------------------------------------------
(* recommend_materials *)

SmallerRatio(x, y) == x[1] * y[2] < y[1] * x[2]

\* _margin_ratio: the tightest ratio, None if no bound but zero is stated
Margin(record, need) ==
  LET ratios == {<<record[p], need[p]>> :
                   p \in {q \in Properties : need[q] \notin {None, 0} /\ record[q] # None}}
  IN  IF ratios = {} THEN None
      ELSE CHOOSE x \in ratios : \A y \in ratios : ~SmallerRatio(y, x)

\* The widest margin first, then by id: "rank" is the id's place among all.
RanksBefore(a, b, need) ==
  LET x == Margin(a, need)
      y == Margin(b, need)
  IN  \/ SmallerRatio(y, x)
      \/ ~SmallerRatio(x, y) /\ a.rank < b.rank

\* Mutant of ByRank: the tightest candidate first.
TightestFirst(library, places, need) ==
  InOrder(places,
    {p \in places \X places : RanksBefore(library[p[2]], library[p[1]], need)})

\* Positions along the ranking.
ByRank(library, places, need) ==
  InOrder(places,
    {p \in places \X places : RanksBefore(library[p[1]], library[p[2]], need)})

\* Without a bound to rank by, the order of the file stays.
RankedPlaces(library, need) ==
  LET found == Matching(library, need) IN
    IF \E i \in found : Margin(library[i], need) # None
      THEN ByRank(library, found, need)
      ELSE Ascending(found)

Ranked(library, need) ==
  [n \in DOMAIN RankedPlaces(library, need) |-> library[RankedPlaces(library, need)[n]]]

Levels ==
  <<"data_insufficient", "comparison_only", "engineering_recommendation_ready",
    "production_recommendation_ready">>

Unlocks ==
  <<{}, {"requirement_filter", "descriptive_comparison", "quantitative_ranking"},
    {"engineering_recommendation"}, {"production_approval"}>>

\* The level comes from the whole library, never from the request.
ReadinessLevel(library) ==
  IF library = <<>> THEN 1
  ELSE IF \/ \A r \in Range(library) : r.validation = "reference_only"
          \/ \A r \in Range(library) : r.approval = "pending"
    THEN 2
    ELSE 3

Recommend(library, need) ==
  LET level == ReadinessLevel(library)
      unlocked == UNION {Unlocks[k] : k \in 1..level}
      found == Matching(library, need)
  IN  [level |-> level,
       capabilities |-> unlocked,
       blocked |-> (UNION Range(Unlocks)) \ unlocked,
       reasons |-> (IF found = {} THEN {"no_candidates"} ELSE {})
         \cup (IF level < 3 THEN {"approval_pending"} ELSE {}),
       missing |-> level < 3,
       candidates |-> Ranked(library, need)]

----------------------------------------------------------------------------
(* The requests: each is answered from the library alone. *)

AskMaterials(t) ==
  /\ IsIdle(t)
  /\ \E library \in MaterialLibraries, need \in Requirements :
       Goto(t, [at |-> "materials_answered", library |-> library, need |-> need,
                answer |-> Recommend(library, need)])

CompareMaterials(t) ==
  /\ IsIdle(t)
  /\ \E library \in MaterialLibraries :
       \E a, b \in Range(library) :
         Goto(t, [at |-> "materials_compared", library |-> library, a |-> a, b |-> b,
                  answer |-> [p \in Properties |-> ValueRelation(a[p], b[p])]])

MaterialStep(t) == AskMaterials(t) \/ CompareMaterials(t)

MaterialsNext == \E t \in Threads : MaterialStep(t) \/ Leave(t)

MaterialsSpec == InitCalls /\ [][MaterialsNext]_calls

----------------------------------------------------------------------------
(* What is promised. *)

MaterialsTypeOK ==
  \A t \in Threads :
    \/ calls[t] = Idle
    \/ /\ At(t, "materials_answered")
       /\ calls[t].need \in Requirements
       /\ calls[t].answer.level \in DOMAIN Levels
       /\ calls[t].answer.candidates \in Seq(Range(calls[t].library))
    \/ /\ At(t, "materials_compared")
       /\ {calls[t].a, calls[t].b} \subseteq Range(calls[t].library)

\* The candidates are the records that meet the requirement, each of them
\* once, and an answer without candidates says so.
CandidatesComplete ==
  \A t \in Threads : At(t, "materials_answered") =>
    LET call == calls[t] IN
      /\ Range(call.answer.candidates) = {r \in Range(call.library) : Meets(r, call.need)}
      /\ IsInjective(call.answer.candidates)
      /\ call.answer.candidates = <<>> <=> "no_candidates" \in call.answer.reasons

\* A candidate listed before another exceeds each stated bound by at least the
\* factor by which that other exceeds the bound it meets most narrowly.
WidestMarginFirst ==
  \A t \in Threads : At(t, "materials_answered") =>
    LET list == calls[t].answer.candidates
        bounds == {p \in Properties : calls[t].need[p] \notin {None, 0}}
    IN  \A i, j \in DOMAIN list : i < j =>
          \A p \in bounds : \E q \in bounds :
            list[i][p] * calls[t].need[q] >= list[j][q] * calls[t].need[p]

\* Levels are cumulative and never claim what the data lacks: as long as all
\* data is reference data or all approvals are pending, nothing beyond the
\* comparison is unlocked, and the answer names what is missing.
MaterialsNeverOverclaim ==
  \A t \in Threads : At(t, "materials_answered") =>
    LET answer == calls[t].answer IN
      /\ "production_approval" \in answer.blocked
      /\ "engineering_recommendation" \in answer.capabilities =>
           /\ \E r \in Range(calls[t].library) : r.validation # "reference_only"
           /\ \E r \in Range(calls[t].library) : r.approval # "pending"
      /\ "engineering_recommendation" \in answer.blocked =>
           answer.missing /\ "approval_pending" \in answer.reasons

\* Comparison and matching agree: what is at least as high in every property
\* meets every bound that the other meets.
ComparisonMatchesFilter ==
  \A t \in Threads : At(t, "materials_compared") =>
    LET call == calls[t] IN
      (\A p \in Properties : call.answer[p] \in {"a_higher", "equal"}) =>
        \A need \in Requirements :
          Meets(call.b, [need EXCEPT !.family = None])
            => Meets(call.a, [need EXCEPT !.family = None])

\* A recommendation leaves out no match, ranks by the margin it reports and
\* says no more than the library's validation and approval allow
\* (recommend_materials, compare_materials).
MaterialsSound ==
  /\ CandidatesComplete /\ WidestMarginFirst /\ MaterialsNeverOverclaim
  /\ ComparisonMatchesFilter
=============================================================================
