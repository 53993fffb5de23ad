---------------------------- MODULE WasherEvidence ----------------------------
(***************************************************************************)
(* What evaluate_closure_readiness looks at, as pure functions of the      *)
(* decision, evidence and closure files (src/backend/library/washer_       *)
(* resolution_{service,evidence,closure}.py).  A record is named by its    *)
(* place in its file: ids are generated and never used twice.              *)
(***************************************************************************)
EXTENDS WasherLifecycle

CONSTANTS
  Evidence     \* the evidence records anybody may append

EvidenceStatuses == {"unverified", "verified", "rejected"}

ASSUME EvidenceAssumption ==
  Evidence \subseteq [resolution : Resolutions, status : EvidenceStatuses,
                      intact : BOOLEAN]

Terminal == {"resolved", "accepted_as_is", "rejected"}

Blocked(r) == Source[r] = "blocked_authoritative_source"

\* The newest decision of a resolution, 0 if there is none.
NewestDecision(log, r) ==
  IF History(log, r) = {} THEN 0 ELSE Max(History(log, r))

OfResolution(log, r) == {i \in DOMAIN log : log[i].resolution = r}

Verified(log, r) ==
  {i \in OfResolution(log, r) : log[i].intact /\ log[i].status = "verified"}

Corrupted(log, r) == {i \in OfResolution(log, r) : ~log[i].intact}

Closure(r, decision, verified) ==
  [resolution |-> r, decision |-> decision, evidence |-> verified]

NewEvidence(r) == [resolution |-> r, status |-> "unverified", intact |-> TRUE]
===============================================================================
