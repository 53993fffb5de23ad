-------------------------- MODULE MCWasherDecisions --------------------------
(***************************************************************************)
(* Instances of WasherDecisions: one open and one blocked resolution, two  *)
(* rival terminal decisions under different keys, a different request that *)
(* reuses a key, a move that keeps the resolution active, a blank key, an  *)
(* unknown resolution and an incomplete request.                           *)
(***************************************************************************)
EXTENDS WasherDecisions

CONSTANTS t1, t2, r1, rb, rx, k0, k1, k2, k3

Request(r, new, key, complete) ==
  [resolution |-> r, new |-> new, key |-> key, body |-> "b", complete |-> complete]

Resolve  == Request(r1, "resolved", k1, TRUE)
Reject   == Request(r1, "rejected", k2, TRUE)
Reuse    == Request(r1, "accepted_as_is", k1, TRUE)
Review   == Request(r1, "under_review", k2, TRUE)

RivalRequests == {Resolve, Reject, Reuse, Review}

AllRequests == {Resolve, Reuse, Review, Request(rb, "resolved", k3, TRUE),
                Request(rx, "resolved", k3, TRUE), Request(r1, "resolved", k0, TRUE),
                Request(r1, "resolved", k3, FALSE)}

MCResolutions == {r1, rb}

MCSource == [r \in MCResolutions |->
               IF r = rb THEN "blocked_authoritative_source" ELSE "open"]
=============================================================================
