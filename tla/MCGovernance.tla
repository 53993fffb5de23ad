---------------------------- MODULE MCGovernance ----------------------------
(***************************************************************************)
(* Instances of GovernanceService.  The commands are chosen to collide: a  *)
(* key shared by two different requests, a decision id shared by two keys, *)
(* competing terminal decisions, a blank key, an incomplete request and an *)
(* externally owned type.                                                  *)
(***************************************************************************)
EXTENDS GovernanceService

CONSTANTS t1, t2, k0, k1, k2, k3, d1, d2, d3, a1

Command(type, group, new, decision, key, complete, via) ==
  [aggregate |-> a1, type |-> type, group |-> group, new |-> new,
   decision |-> decision, key |-> key, body |-> "b", complete |-> complete,
   via |-> via]

Submit    == Command("joint", "review", "under_review", d1, k1, TRUE, "http")
Approve   == Command("joint", "review", "approved", d2, k2, TRUE, "http")
Reject    == Command("joint", "review", "rejected", d2, k3, TRUE, "http")
Activate  == Command("joint", "publication", "active", d3, k1, TRUE, "http")
Archive   == Command("joint", "publication", "archived", d1, k0, TRUE, "http")
Supersede == Command("joint", "publication", "superseded", d1, k3, FALSE, "http")
Foreign   == Command("washer_resolution", "resolution", "resolved", d1, k2, TRUE, "http")
Sync      == Command("washer_resolution", "resolution", "waived", d1, k3, TRUE, "internal")

\* Two lifecycles with a rival for each of their steps.
RacingCommands == {Submit, Approve, Reject, Activate, Archive}

\* Every move of two lifecycles under every id and key, a request that lacks
\* a field, and the two ways to write an externally owned type.
AllCommands ==
  {Command("joint", g, n, d, k, TRUE, "http") :
     g \in {"review", "resolution"}, n \in Statuses,
     d \in {d1, d2, d3}, k \in {k0, k1}}
  \cup {Supersede, Foreign, Sync, Activate}

MoveCommands ==
  {c \in AllCommands : \E p \in Statuses : Legal(c.group, p, c.new)}
=============================================================================
