--------------------------- MODULE WasherLifecycle ---------------------------
(***************************************************************************)
(* The washer resolution lifecycle and the pure functions that read the    *)
(* append-only decision file (src/backend/library/washer_resolution_       *)
(* {decisions,service}.py).  A log is a sequence of decisions, oldest      *)
(* first; a resolution without decisions has the status the source ledger  *)
(* gives it, and nothing ever writes that ledger.                          *)
(***************************************************************************)
EXTENDS Naturals, Sequences, FiniteSetsExt

CONSTANTS
  Requests,      \* the decide requests clients may send
  Resolutions,   \* ids of the source ledger
  Source,        \* the source ledger's original status of each resolution
  BlankKey       \* a missing or blank idempotency key

Statuses == {"open", "under_review", "resolved", "accepted_as_is",
             "rejected", "blocked_authoritative_source"}

Active == {"open", "under_review"}

\* A blocked record has no way out of this table and none into it.
AllowedTransitions ==
  {move \in Active \X (Statuses \ {"blocked_authoritative_source"}) :
     move[1] # move[2]}

ASSUME RequestsAssumption ==
  \A r \in Requests :
    /\ DOMAIN r = {"resolution", "new", "key", "body", "complete"}
    /\ r.new \in Statuses
    /\ r.complete \in BOOLEAN

ASSUME SourceAssumption == Source \in [Resolutions -> Statuses]

---------------------------------------------------------------------------
History(log, r) == {i \in DOMAIN log : log[i].resolution = r}

\* The newest decision's new_status, or the source ledger's status.
EffectiveStatus(log, r) ==
  IF History(log, r) = {} THEN Source[r] ELSE log[Max(History(log, r))].new

FindByKey(log, k) == {i \in DOMAIN log : log[i].key = k}

\* decision_id, decided_at and previous_status take no part.
SameRequest(d, r) ==
  d.resolution = r.resolution /\ d.new = r.new /\ d.body = r.body

Legal(previous, new) == <<previous, new>> \in AllowedTransitions

DecisionOf(r, previous) ==
  [resolution |-> r.resolution, previous |-> previous, new |-> r.new,
   key |-> r.key, body |-> r.body]
=============================================================================
